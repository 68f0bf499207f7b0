------------------------- MODULE SourcePublication -------------------------
(***************************************************************************)
(* How a discovered source becomes a claim: src/sources/auto-publish.ts,   *)
(* manual-publication.ts and the attempts and records of sources/store.ts. *)
(* The claim is created without a request hash, so that what keeps a       *)
(* source from making two is the row of its one attempt, reserved before   *)
(* the transaction and written again after it.  Each statement on the rows *)
(* is one step; a call is what its process knows between them.             *)
(*                                                                         *)
(* A definition whose name begins with Bug is one the model does not use:  *)
(* its neighbour with a defect the properties must notice.                 *)
(***************************************************************************)
EXTENDS ClaimRegistry, FiniteSets

CONSTANTS
  Sources,
  Candidates,      \* extraction candidates, each of every source
  NoCandidate,     \* NULL
  Publishers       \* processes that serve submissions, confirmations and rejections

ASSUME SourcesAssumption == NoCandidate \notin Candidates

VARIABLES
  sources,         \* source_records, each with its row of source_publication_attempts
  publications,    \* the locals of the calls
  sourceMempool,   \* creations sent by calls that ended, by source
  sourceClaims     \* history: the claims created for a source

sourceVars == <<sources, publications, sourceMempool, sourceClaims>>

NoAttempt == [status |-> "none", mode |-> "none", candidate |-> NoCandidate, claim |-> 0]
NewSource == [status |-> "discovered", published |-> 0, attempt |-> NoAttempt]
NoPublication ==
  [pc |-> "idle", source |-> CHOOSE s \in Sources : TRUE, mode |-> "none",
   candidate |-> NoCandidate, claim |-> 0]

SourcesInit ==
  /\ sources = [s \in Sources |-> NewSource]
  /\ publications = [p \in Publishers |-> NoPublication]
  /\ sourceMempool = [s \in Sources |-> 0]
  /\ sourceClaims = [s \in Sources |-> {}]

Publishing(p, pc) == publications[p].pc = pc
SourceOf(p) == publications[p].source
Attempt(p) == sources[SourceOf(p)].attempt
PublicationGoto(p, pc) == publications' = [publications EXCEPT ![p].pc = pc]
EndPublication(p) == publications' = [publications EXCEPT ![p] = NoPublication]
StartPublication(p, pc, s, mode, candidate) ==
  /\ Publishing(p, "idle")
  /\ publications' = [publications EXCEPT
       ![p] = [pc |-> pc, source |-> s, mode |-> mode, candidate |-> candidate, claim |-> 0]]
  /\ UNCHANGED <<claimVars, sources, sourceMempool, sourceClaims>>

\* attemptSourceAutoPublication, after a submission: the candidates have a winner to
\* publish, or one that is not clear enough.
StartAutoPublication(p, s, candidate) ==
  /\ sources[s].published = 0
  /\ StartPublication(p, IF candidate = NoCandidate THEN "parking" ELSE "reserving",
                      s, "auto", candidate)

\* confirmSourcePublication
StartConfirmation(p, s, candidate) ==
  /\ sources[s].published = 0 /\ sources[s].status # "rejected"
  /\ StartPublication(p, "reserving", s, "manual", candidate)

\* rejectSourcePublication
StartRejection(p, s) ==
  /\ sources[s].published = 0
  /\ StartPublication(p, "rejecting", s, "manual", NoCandidate)

\* updateSourceRecordStatus, whatever the status became meanwhile.
MarkSource(p, from, status) ==
  /\ Publishing(p, from)
  /\ sources' = [sources EXCEPT ![SourceOf(p)].status = status]
  /\ EndPublication(p)
  /\ UNCHANGED <<claimVars, sourceMempool, sourceClaims>>

RejectSource(p) == MarkSource(p, "rejecting", "rejected")
ParkSource(p) == MarkSource(p, "parking", "ready_for_publication")

BugReservable(p) ==  \* an attempt that went wrong may be made again
  Attempt(p).status \in {"none", "reconciliation_required"}

Reservable(p) == Attempt(p).status = "none"  \* ON CONFLICT (source_id) DO NOTHING

\* A draft that is ready: left to its author, or published as the author asks.
ResumeAttempt(p) ==
  IF /\ Attempt(p).candidate = publications[p].candidate
     /\ Attempt(p).mode = publications[p].mode
     /\ Attempt(p).status = "claim_ready"
  THEN publications' = [publications EXCEPT
         ![p].pc = IF publications[p].mode = "auto" THEN "parking" ELSE "publishing",
         ![p].claim = Attempt(p).claim]
  ELSE EndPublication(p)

ReserveSourcePublicationAttempt(p) ==
  /\ Publishing(p, "reserving")
  /\ IF Reservable(p)
     THEN /\ sources' = [sources EXCEPT ![SourceOf(p)].attempt =
               [NoAttempt EXCEPT !.status = "pending", !.mode = publications[p].mode,
                                 !.candidate = publications[p].candidate]]
          /\ PublicationGoto(p, "creating")
     ELSE ResumeAttempt(p) /\ UNCHANGED sources
  /\ UNCHANGED <<claimVars, sourceMempool, sourceClaims>>

\* createClaimOnBehalf: no request hash, no bond yet.
MakeSourceClaim(s, author, bond) ==
  /\ CreateClaimOnBehalf(author, bond, NoModule)
  /\ sourceClaims' = [sourceClaims EXCEPT ![s] = @ \cup {nextClaimId}]

CreateSourceClaim(p, author, bond) ==
  /\ Publishing(p, "creating")
  /\ MakeSourceClaim(SourceOf(p), author, bond)
  /\ publications' = [publications EXCEPT ![p].pc = "attaching", ![p].claim = nextClaimId]
  /\ UNCHANGED <<sources, sourceMempool>>

MineSourceClaim(s, author, bond) ==
  /\ sourceMempool[s] > 0
  /\ MakeSourceClaim(s, author, bond)
  /\ sourceMempool' = [sourceMempool EXCEPT ![s] = @ - 1]
  /\ UNCHANGED <<sources, publications>>

\* The artifact is attached, then onClaimReady; the publication status that
\* createProductionClaim returns is always awaiting_author_bond.
MarkSourcePublicationClaimReady(p) ==
  /\ Publishing(p, "attaching")
  /\ sources' = [sources EXCEPT ![SourceOf(p)].attempt.status = "claim_ready",
                                ![SourceOf(p)].attempt.claim = publications[p].claim]
  /\ PublicationGoto(p, "parking")
  /\ UNCHANGED <<claimVars, sourceMempool, sourceClaims>>

\* publishProductionClaim
PublishSourceClaim(p, bondSatisfied) ==
  LET c == publications[p].claim
  IN /\ Publishing(p, "publishing")
     /\ IF claims[c].status \in {"Draft", "Deprecated"}
        THEN SetClaimStatus(c, "Published", bondSatisfied)
        ELSE UNCHANGED claimVars
     /\ PublicationGoto(p, "marking")
     /\ UNCHANGED <<sources, sourceMempool, sourceClaims>>

MarkSourcePublished(p) ==
  /\ Publishing(p, "marking")
  /\ sources' = [sources EXCEPT ![SourceOf(p)].published = publications[p].claim,
                                ![SourceOf(p)].status = "published"]
  /\ PublicationGoto(p, "completing")
  /\ UNCHANGED <<claimVars, sourceMempool, sourceClaims>>

MarkSourcePublicationAttemptCompleted(p) ==
  /\ Publishing(p, "completing")
  /\ sources' = IF Attempt(p).claim = 0 THEN sources
                ELSE [sources EXCEPT ![SourceOf(p)].attempt.status = "completed"]
  /\ EndPublication(p)
  /\ UNCHANGED <<claimVars, sourceMempool, sourceClaims>>

(***************************************************************************)
(* How a call goes wrong.                                                  *)
(***************************************************************************)
LeaveCreation(p) ==  \* sent, or not
  \/ UNCHANGED sourceMempool
  \/ /\ Publishing(p, "creating")
     /\ nextClaimId + sourceMempool[SourceOf(p)] <= MaxClaims
     /\ sourceMempool' = [sourceMempool EXCEPT ![SourceOf(p)] = @ + 1]

ThrowCreating(p) ==
  /\ publications[p].pc \in {"creating", "attaching"}
  /\ LeaveCreation(p)
  /\ PublicationGoto(p, "failing")
  /\ UNCHANGED <<claimVars, sources, sourceClaims>>

MarkSourcePublicationReconciliationRequired(p) ==
  /\ Publishing(p, "failing")
  /\ sources' = IF Attempt(p).status # "pending" THEN sources
       ELSE [sources EXCEPT ![SourceOf(p)].attempt.status = "reconciliation_required"]
  /\ EndPublication(p)
  /\ UNCHANGED <<claimVars, sourceMempool, sourceClaims>>

\* A crash anywhere, or an error outside the try.
StopPublication(p) ==
  /\ ~Publishing(p, "idle")
  /\ LeaveCreation(p)
  /\ EndPublication(p)
  /\ UNCHANGED <<claimVars, sources, sourceClaims>>

PublicationStep(p) ==
  \/ \E s \in Sources :
       \/ StartRejection(p, s)
       \/ \E w \in Candidates : StartConfirmation(p, s, w)
       \/ \E w \in Candidates \cup {NoCandidate} : StartAutoPublication(p, s, w)
  \/ ReserveSourcePublicationAttempt(p) \/ RejectSource(p) \/ ParkSource(p)
  \/ \E a \in Actors, b \in Bonds : CreateSourceClaim(p, a, b)
  \/ \E satisfied \in BOOLEAN : PublishSourceClaim(p, satisfied)
  \/ MarkSourcePublicationClaimReady(p) \/ MarkSourcePublished(p)
  \/ MarkSourcePublicationAttemptCompleted(p)
  \/ ThrowCreating(p) \/ MarkSourcePublicationReconciliationRequired(p) \/ StopPublication(p)

SourcesNext ==
  \/ Next /\ UNCHANGED sourceVars
  \/ \E p \in Publishers : PublicationStep(p)
  \/ \E s \in Sources, a \in Actors, b \in Bonds : MineSourceClaim(s, a, b)

SourcesSpec == Init /\ SourcesInit /\ [][SourcesNext]_<<claimVars, sourceVars>>

-----------------------------------------------------------------------------
(***************************************************************************)
(* Properties.                                                             *)
(***************************************************************************)

\* However submissions, confirmations and rejections of a source overlap, err or
\* crash, a transaction in flight among them: the source makes one claim at most,
\* its attempt knows no other, and the source is published with that claim only,
\* when it has left the drafts.
OneClaimPerSource ==
  \A s \in Sources :
    LET attempt == sources[s].attempt
        published == sources[s].published
    IN /\ Cardinality(sourceClaims[s]) + sourceMempool[s] <= 1
       /\ attempt.claim # 0 => attempt.claim \in sourceClaims[s]
       /\ attempt.status \in {"claim_ready", "completed"} => attempt.claim # 0
       /\ published # 0 => published = attempt.claim /\ claims[published].status # "Draft"
=============================================================================
