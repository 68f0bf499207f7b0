---------------------------- MODULE PublicWrites ----------------------------
(***************************************************************************)
(* The signed claim_create and claim_publish requests of                   *)
(* api/routes/claims.ts, their rows and execution leases in                *)
(* shared/public-write-requests.ts, and the saga of submission/actions.ts, *)
(* over the claim and artifact registries.  A step is the part of an       *)
(* execution between two awaits.  Leases expire at any time (a paused      *)
(* process sends no heartbeat); a heartbeat in time changes nothing here.  *)
(* A transaction that was sent is mined after its execution died, or never.*)
(*                                                                         *)
(* A definition whose name begins with Bug is one the model does not use:  *)
(* its neighbour with a defect the properties must notice.                 *)
(***************************************************************************)
EXTENDS ClaimRegistry

CONSTANTS
  Executors,        \* executions of a request, each with a lease owner of its own
  NoExecutor,       \* NULL
  PublishRequests,  \* hashes of claim_publish requests; RequestHashes are claim_create's
  MaxArtifacts      \* bound: artifacts the saga ever attaches

ASSUME WriteAssumption ==
  /\ NoExecutor \notin Executors /\ PublishRequests \cap RequestHashes = {}
  /\ MaxArtifacts \in Nat

WriteRequests == RequestHashes \cup PublishRequests

VARIABLES
  writeRequests,   \* public_write_requests, by request hash
  executions,      \* the locals of the executions
  claimArtifacts,  \* ArtifactRegistry._claimArtifacts: how many the saga added, by claim
  mempool,         \* attachments sent by executions that ended, by claim
  stray            \* history: one lost its lease or ended between its check and the receipt

writeVars == <<writeRequests, executions, claimArtifacts, mempool, stray>>

NoRequest == [status |-> "none", claim |-> 0, owner |-> NoExecutor, expired |-> FALSE]
NoExecution == [pc |-> "idle", request |-> CHOOSE q \in WriteRequests : TRUE, claim |-> 0]

WritesInit ==
  /\ writeRequests = [q \in WriteRequests |-> NoRequest]
  /\ executions = [x \in Executors |-> NoExecution]
  /\ claimArtifacts = [c \in ClaimIds |-> 0]
  /\ mempool = [c \in ClaimIds |-> 0]
  /\ stray = FALSE

At(x, pc) == executions[x].pc = pc
Request(x) == executions[x].request
Row(x) == writeRequests[Request(x)]
WrittenClaim(x) == executions[x].claim
ExecutionGoto(x, pc) == executions' = [executions EXCEPT ![x].pc = pc]
SetStatus(x, status) ==  \* WHERE status <> 'accepted'
  writeRequests' = IF Row(x).status = "accepted" THEN writeRequests
                   ELSE [writeRequests EXCEPT ![Request(x)].status = status]

\* authenticateSignedPublicWriteRequest: the row is inserted, or a recorded one
\* replayed, however old and whatever its status.
Authenticate(x, q, c) ==
  /\ At(x, "idle")
  /\ q \in PublishRequests <=> c # 0
  /\ IF writeRequests[q].status = "none"
     THEN writeRequests' = [writeRequests EXCEPT ![q].status = "pending", ![q].claim = c]
     ELSE c = writeRequests[q].claim /\ UNCHANGED writeRequests
  /\ executions' = [executions EXCEPT ![x] = [pc |-> "authenticated", request |-> q, claim |-> c]]
  /\ UNCHANGED <<claimVars, claimArtifacts, mempool, stray>>

ReserveExecution(x) ==
  /\ At(x, "authenticated")
  /\ IF Row(x).owner = NoExecutor \/ Row(x).expired
     THEN /\ writeRequests' = [writeRequests EXCEPT ![Request(x)].owner = x,
                                                    ![Request(x)].expired = FALSE]
          /\ ExecutionGoto(x, "reserved")
     ELSE ExecutionGoto(x, "idle") /\ UNCHANGED writeRequests
  /\ UNCHANGED <<claimVars, claimArtifacts, mempool, stray>>

OwnsLease(x) == Row(x).owner = x /\ ~Row(x).expired

\* assertExecutionLease: renewed and checked before a transaction.
AssertLease(x, from, to) ==
  /\ At(x, from)
  /\ ExecutionGoto(x, IF OwnsLease(x) THEN to ELSE "rejecting")
  /\ UNCHANGED <<claimVars, writeRequests, claimArtifacts, mempool, stray>>

(***************************************************************************)
(* claim_create: the saga.                                                 *)
(***************************************************************************)
FindClaim(x) ==
  /\ At(x, "reserved")
  /\ Request(x) \in RequestHashes
  /\ LET c == delegatedClaimRequestIds[Request(x)]
     IN executions' = [executions EXCEPT ![x].claim = c,
                                         ![x].pc = IF c = 0 THEN "absent" ELSE "created"]
  /\ UNCHANGED <<claimVars, writeRequests, claimArtifacts, mempool, stray>>

\* Another execution may have created it: then the hash returns its claim.
SendCreateClaim(x, author, bond) ==
  /\ At(x, "creating")
  /\ CreateClaimOnBehalfWithRequestHash(author, bond, NoModule, Request(x))
  /\ executions' = [executions EXCEPT ![x].claim = delegatedClaimRequestIds'[Request(x)],
                                      ![x].pc = "created"]
  /\ UNCHANGED <<writeRequests, claimArtifacts, mempool, stray>>

\* onClaimDraftCreated: markPublicWriteRequestPending, owner or not.
Checkpoint(x) ==
  /\ At(x, "created")
  /\ SetStatus(x, "pending")
  /\ ExecutionGoto(x, "checkpointed")
  /\ UNCHANGED <<claimVars, claimArtifacts, mempool, stray>>

BugFindArtifact(x) ==  \* without reconciliation
  /\ At(x, "checkpointed")
  /\ ExecutionGoto(x, "unattached")
  /\ UNCHANGED <<claimVars, writeRequests, claimArtifacts, mempool, stray>>

FindArtifact(x) ==
  /\ At(x, "checkpointed")
  /\ ExecutionGoto(x, IF claimArtifacts[WrittenClaim(x)] > 0 THEN "effected" ELSE "unattached")
  /\ UNCHANGED <<claimVars, writeRequests, claimArtifacts, mempool, stray>>

AddArtifact(c) ==
  /\ ClaimExists(c)
  /\ claimArtifacts[c] < MaxArtifacts
  /\ claimArtifacts' = [claimArtifacts EXCEPT ![c] = @ + 1]

AttachArtifact(x) ==
  /\ At(x, "attaching")
  /\ AddArtifact(WrittenClaim(x))
  /\ ExecutionGoto(x, "effected")
  /\ UNCHANGED <<claimVars, writeRequests, mempool, stray>>

MineStray(c) ==
  /\ mempool[c] > 0
  /\ AddArtifact(c)
  /\ mempool' = [mempool EXCEPT ![c] = @ - 1]
  /\ UNCHANGED <<claimVars, writeRequests, executions, stray>>

(***************************************************************************)
(* claim_publish.                                                          *)
(***************************************************************************)
\* resolveProductionClaimPublicationAction on what is read.
ReadForPublication(x, bondSatisfied) ==
  LET c == WrittenClaim(x)
  IN /\ At(x, "reserved")
     /\ Request(x) \in PublishRequests
     /\ ExecutionGoto(x, CASE ~ClaimExists(c) -> "rejecting"
                           [] claims[c].status \notin {"Draft", "Deprecated"} -> "effected"
                           [] ClaimExists(c) /\ claims[c].status = "Draft" /\ bondSatisfied
                                -> "publishable"
                           [] OTHER -> "rejecting")
     /\ UNCHANGED <<claimVars, writeRequests, claimArtifacts, mempool, stray>>

SendPublication(x, bondSatisfied) ==
  /\ At(x, "publishing")
  /\ SetClaimStatus(WrittenClaim(x), "Published", bondSatisfied)
  /\ ExecutionGoto(x, "effected")
  /\ UNCHANGED <<writeRequests, claimArtifacts, mempool, stray>>

(***************************************************************************)
(* How an execution ends.                                                  *)
(***************************************************************************)
MarkAccepted(x) ==
  /\ At(x, "effected")
  /\ SetStatus(x, "accepted")
  /\ ExecutionGoto(x, "releasing")
  /\ UNCHANGED <<claimVars, claimArtifacts, mempool, stray>>

\* A transaction in flight is mined later or never.
LeaveInFlight(x) ==
  IF At(x, "attaching")
  THEN /\ \/ UNCHANGED mempool
          \/ /\ claimArtifacts[WrittenClaim(x)] + mempool[WrittenClaim(x)] < MaxArtifacts
             /\ mempool' = [mempool EXCEPT ![WrittenClaim(x)] = @ + 1]
       /\ stray' = TRUE
  ELSE UNCHANGED <<mempool, stray>>

\* Any await of the try may throw, a refused transaction among them ...
ThrowWriting(x) ==
  /\ executions[x].pc \notin {"idle", "authenticated", "rejecting", "owned", "releasing"}
  /\ LeaveInFlight(x)
  /\ ExecutionGoto(x, "rejecting")
  /\ UNCHANGED <<claimVars, writeRequests, claimArtifacts>>

\* ... and the row is rejected by who holds the lease, in a second statement.
CheckOwnership(x) ==
  /\ At(x, "rejecting")
  /\ ExecutionGoto(x, IF OwnsLease(x) THEN "owned" ELSE "releasing")
  /\ UNCHANGED <<claimVars, writeRequests, claimArtifacts, mempool, stray>>

MarkRejected(x) ==
  /\ At(x, "owned")
  /\ SetStatus(x, "rejected") \/ UNCHANGED writeRequests
  /\ ExecutionGoto(x, "releasing")
  /\ UNCHANGED <<claimVars, claimArtifacts, mempool, stray>>

ReleaseExecution(x) ==
  /\ At(x, "releasing")
  /\ writeRequests' = IF Row(x).owner # x THEN writeRequests
       ELSE [writeRequests EXCEPT ![Request(x)].owner = NoExecutor, ![Request(x)].expired = FALSE]
  /\ executions' = [executions EXCEPT ![x] = NoExecution]
  /\ UNCHANGED <<claimVars, claimArtifacts, mempool, stray>>

CrashWriting(x) ==
  /\ ~At(x, "idle")
  /\ LeaveInFlight(x)
  /\ executions' = [executions EXCEPT ![x] = NoExecution]
  /\ UNCHANGED <<claimVars, writeRequests, claimArtifacts>>

ExpireLease(q) ==
  LET x == writeRequests[q].owner
  IN /\ x # NoExecutor /\ ~writeRequests[q].expired
     /\ writeRequests' = [writeRequests EXCEPT ![q].expired = TRUE]
     /\ stray' = (stray \/ (At(x, "attaching") /\ Request(x) = q))
     /\ UNCHANGED <<claimVars, executions, claimArtifacts, mempool>>

CreateRequestStep(x) ==
  \/ FindClaim(x) \/ AssertLease(x, "absent", "creating")
  \/ \E a \in Actors, b \in Bonds : SendCreateClaim(x, a, b)
  \/ Checkpoint(x) \/ FindArtifact(x)
  \/ AssertLease(x, "unattached", "attaching") \/ AttachArtifact(x)

PublishRequestStep(x) ==
  \/ \E satisfied \in BOOLEAN : ReadForPublication(x, satisfied) \/ SendPublication(x, satisfied)
  \/ AssertLease(x, "publishable", "publishing")

ExecutionStep(x) ==
  \/ \E q \in WriteRequests, c \in ClaimIds \cup {0} : Authenticate(x, q, c)
  \/ ReserveExecution(x) \/ CreateRequestStep(x) \/ PublishRequestStep(x)
  \/ MarkAccepted(x) \/ ThrowWriting(x) \/ CheckOwnership(x) \/ MarkRejected(x)
  \/ ReleaseExecution(x) \/ CrashWriting(x)

WriteStep ==
  \/ \E x \in Executors : ExecutionStep(x)
  \/ \E q \in WriteRequests : ExpireLease(q)
  \/ \E c \in ClaimIds : MineStray(c)

WritesNext ==
  \/ Next /\ UNCHANGED writeVars
  \/ WriteStep

WritesSpec == Init /\ WritesInit /\ [][WritesNext]_<<claimVars, writeVars>>

-----------------------------------------------------------------------------
(***************************************************************************)
(* Properties.                                                             *)
(***************************************************************************)

\* An accepted request had its effect on chain, whatever crashed, expired or ran
\* twice: a claim_create its claim with an artifact, a claim_publish a claim that
\* is no draft.  And a claim has no second artifact of the saga, unless an
\* execution lost its lease or ended while it was attaching.
WritesComplete ==
  /\ \A q \in RequestHashes : writeRequests[q].status = "accepted" =>
       LET c == delegatedClaimRequestIds[q] IN c # 0 /\ claimArtifacts[c] > 0
  /\ \A q \in PublishRequests : writeRequests[q].status = "accepted" =>
       claims[writeRequests[q].claim].status # "Draft"
  /\ ~stray => \A c \in ClaimIds : claimArtifacts[c] <= 1

\* "A stale worker cannot reject a row now owned by its replacement."
StaleNeverReject ==
  [][\A x \in Executors :
       (/\ At(x, "owned") /\ executions'[x].pc # "owned"
        /\ Row(x).status # "rejected" /\ writeRequests'[Request(x)].status = "rejected")
         => Row(x).owner \in {x, NoExecutor}]_<<claimVars, writeVars>>
=============================================================================
