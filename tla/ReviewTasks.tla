---------------------------- MODULE ReviewTasks ----------------------------
(***************************************************************************)
(* The review tasks of one subject and scope: src/review/store.ts, the     *)
(* review worker and the agent routes that claim, heartbeat and submit.    *)
(* Unlike a job, a task is leased to several reviewers at once: up to      *)
(* maxSubmissions runs, until minSubmissions of them have submitted.  Each *)
(* store function is one transaction that locks the task's row, but for    *)
(* failReviewTaskRun; a call is what its process does between them.        *)
(*                                                                         *)
(* A definition whose name begins with Bug is one the model does not use:  *)
(* its neighbour with a defect the properties must notice.                 *)
(***************************************************************************)
EXTENDS Naturals, FiniteSets

CONSTANTS
  Reviewers,          \* agents that review
  ReviewPolicies,     \* consensus policies in use
  NoReviewer,         \* NULL: a worker without SP_REVIEW_AGENT_ID
  ReviewCallIds,
  MaxReviewTasks,     \* bounds: tasks, runs, ...
  MaxReviewRuns,
  MaxReviewBeats      \* ... and heartbeats of runs that had become stale

ReviewTaskIds == 1 .. MaxReviewTasks
ReviewRunIds == 1 .. MaxReviewRuns

ConsensusPolicy ==  \* normalizeConsensusPolicy
  {p \in [min : 1 .. 10, max : 1 .. 10, distinct : BOOLEAN] : p.min <= p.max}

ASSUME ReviewAssumption ==
  /\ NoReviewer \notin Reviewers
  /\ ReviewPolicies \subseteq ConsensusPolicy
  /\ {MaxReviewTasks, MaxReviewRuns, MaxReviewBeats} \subseteq Nat

VARIABLES
  reviewTasks,
  reviewRuns,
  reviewSubmissions,  \* the run and the agent of each submission
  reviewCalls,        \* the locals of workers and submission routes
  reviewBeats

reviewVars == <<reviewTasks, reviewRuns, reviewSubmissions, reviewCalls, reviewBeats>>

NoTask == [status |-> "none"]
NoRun == [status |-> "none", task |-> 0, agent |-> NoReviewer, stale |-> FALSE]
NoReview == [pc |-> "idle", task |-> 0, run |-> 0, agent |-> NoReviewer, worker |-> FALSE]

ReviewInit ==
  /\ reviewTasks = [t \in ReviewTaskIds |-> NoTask]
  /\ reviewRuns = [r \in ReviewRunIds |-> NoRun]
  /\ reviewSubmissions = {}
  /\ reviewCalls = [c \in ReviewCallIds |-> NoReview]
  /\ reviewBeats = 0

Open(t) == reviewTasks[t].status = "open"
BugRunningRuns(t) ==  \* ended runs count
  {r \in ReviewRunIds : reviewRuns[r].task = t}
RunningRuns(t) ==  \* countReviewTaskRunningRuns
  {r \in ReviewRunIds : reviewRuns[r].task = t /\ reviewRuns[r].status = "running"}
Submissions(t) == {s \in reviewSubmissions : reviewRuns[s.run].task = t}
HasSubmitted(t, agent) == \E s \in Submissions(t) : s.agent = agent

\* The open task of the subject is found, or the unique index rejects a second.
CreateReviewTask(policy) ==
  /\ ~\E t \in ReviewTaskIds : Open(t)
  /\ \E t \in ReviewTaskIds :
       /\ reviewTasks[t] = NoTask
       /\ \A u \in 1 .. t - 1 : reviewTasks[u] # NoTask
       /\ reviewTasks' = [reviewTasks EXCEPT ![t] = [status |-> "open", policy |-> policy]]
  /\ UNCHANGED <<reviewRuns, reviewSubmissions, reviewCalls, reviewBeats>>

HasSlot(t) ==
  /\ Open(t)
  /\ Cardinality(Submissions(t)) + Cardinality(RunningRuns(t)) < reviewTasks[t].policy.max

Claimable(t, agent) ==
  /\ HasSlot(t)
  /\ agent # NoReviewer /\ reviewTasks[t].policy.distinct
       => /\ ~HasSubmitted(t, agent)
          /\ \A r \in RunningRuns(t) : reviewRuns[r].agent # agent

InsertReviewRun(r, t, agent) ==
  /\ reviewRuns[r] = NoRun /\ \A q \in 1 .. r - 1 : reviewRuns[q] # NoRun
  /\ Claimable(t, agent)
  /\ reviewRuns' = [reviewRuns EXCEPT
       ![r] = [status |-> "running", task |-> t, agent |-> agent, stale |-> FALSE]]

\* An agent claims; its submission is a call of its own.
AgentClaimReview(r, t, agent) ==
  /\ agent # NoReviewer
  /\ InsertReviewRun(r, t, agent)
  /\ UNCHANGED <<reviewTasks, reviewSubmissions, reviewCalls, reviewBeats>>

\* processReviewTask claims and goes on with the run.
WorkerClaimReview(c, r, t, agent) ==
  /\ reviewCalls[c].pc = "idle"
  /\ InsertReviewRun(r, t, agent)
  /\ reviewCalls' = [reviewCalls EXCEPT
       ![c] = [pc |-> "recording", task |-> t, run |-> r, agent |-> agent, worker |-> TRUE]]
  /\ UNCHANGED <<reviewTasks, reviewSubmissions, reviewBeats>>

\* The submission route: whoever holds the run, and whatever became of the task.
StartReviewSubmission(c, t, r, agent) ==
  /\ reviewCalls[c].pc = "idle" /\ agent # NoReviewer
  /\ reviewTasks[t] # NoTask /\ reviewRuns[r] # NoRun
  /\ reviewCalls' = [reviewCalls EXCEPT
       ![c] = [pc |-> "recording", task |-> t, run |-> r, agent |-> agent, worker |-> FALSE]]
  /\ UNCHANGED <<reviewTasks, reviewRuns, reviewSubmissions, reviewBeats>>

HeartbeatReviewTaskRun(r) ==
  /\ reviewRuns[r].status = "running" /\ Open(reviewRuns[r].task)
  /\ reviewRuns[r].stale
  /\ reviewBeats < MaxReviewBeats /\ reviewBeats' = reviewBeats + 1
  /\ reviewRuns' = [reviewRuns EXCEPT ![r].stale = FALSE]
  /\ UNCHANGED <<reviewTasks, reviewSubmissions, reviewCalls>>

ReviewGoStale(r) ==
  /\ reviewRuns[r].status = "running" /\ ~reviewRuns[r].stale
  /\ reviewRuns' = [reviewRuns EXCEPT ![r].stale = TRUE]
  /\ UNCHANGED <<reviewTasks, reviewSubmissions, reviewCalls, reviewBeats>>

\* Runs of a completed task are left as they are.
ExpireStaleReviewTaskRun(r) ==
  /\ reviewRuns[r].status = "running" /\ reviewRuns[r].stale
  /\ Open(reviewRuns[r].task)
  /\ reviewRuns' = [reviewRuns EXCEPT ![r].status = "failed"]
  /\ UNCHANGED <<reviewTasks, reviewSubmissions, reviewCalls, reviewBeats>>

(***************************************************************************)
(* recordReviewSubmission, with its run.                                   *)
(***************************************************************************)
BugMaySubmit(c) ==  \* without the distinct agents
  LET call == reviewCalls[c] run == reviewRuns[call.run] IN
  /\ run.task = call.task /\ run.status = "running"
  /\ {call.agent, run.agent} \subseteq Reviewers => call.agent = run.agent

MaySubmit(c) ==
  LET call == reviewCalls[c] run == reviewRuns[call.run] IN
  /\ run.task = call.task /\ run.status = "running"
  /\ {call.agent, run.agent} \subseteq Reviewers => call.agent = run.agent
  /\ call.agent # NoReviewer /\ reviewTasks[call.task].policy.distinct
       => ~HasSubmitted(call.task, call.agent)

EndReviewCall(c) == reviewCalls' = [reviewCalls EXCEPT ![c] = NoReview]
\* Where an error leads: the worker fails its run, the route answers.
ThrowReview(c) ==
  IF reviewCalls[c].worker THEN reviewCalls' = [reviewCalls EXCEPT ![c].pc = "failing"]
  ELSE EndReviewCall(c)

\* Committed; the reads that follow may throw all the same.
RecordReviewSubmission(c) ==
  LET t == reviewCalls[c].task
      r == reviewCalls[c].run
      reached == Cardinality(Submissions(t)) + 1 >= reviewTasks[t].policy.min
  IN /\ reviewCalls[c].pc = "recording" /\ MaySubmit(c)
     /\ reviewSubmissions' =
          reviewSubmissions \cup {[run |-> r, agent |-> reviewCalls[c].agent]}
     /\ reviewRuns' = [reviewRuns EXCEPT ![r].status = "completed"]
     /\ reviewTasks' =
          IF reached THEN [reviewTasks EXCEPT ![t].status = "completed"] ELSE reviewTasks
     /\ EndReviewCall(c) \/ ThrowReview(c)
     /\ UNCHANGED reviewBeats

\* Refused, or an error before, reading inputs or persisting the artifact.
ThrowRecording(c) ==
  /\ reviewCalls[c].pc = "recording"
  /\ ThrowReview(c)
  /\ UNCHANGED <<reviewTasks, reviewRuns, reviewSubmissions, reviewBeats>>

\* By id alone, be the run expired or completed meanwhile.
FailReviewTaskRun(c) ==
  /\ reviewCalls[c].pc = "failing"
  /\ reviewRuns' = [reviewRuns EXCEPT ![reviewCalls[c].run].status = "failed"]
  /\ EndReviewCall(c)
  /\ UNCHANGED <<reviewTasks, reviewSubmissions, reviewBeats>>

\* The process dies, or failing throws too.
StopReviewCall(c) ==
  /\ reviewCalls[c].pc # "idle"
  /\ EndReviewCall(c)
  /\ UNCHANGED <<reviewTasks, reviewRuns, reviewSubmissions, reviewBeats>>

ReviewReaper == \E r \in ReviewRunIds : ReviewGoStale(r) \/ ExpireStaleReviewTaskRun(r)

ReviewNext ==
  \/ \E p \in ReviewPolicies : CreateReviewTask(p)
  \/ \E r \in ReviewRunIds, t \in ReviewTaskIds :
       \/ \E a \in Reviewers : AgentClaimReview(r, t, a)
       \/ \E c \in ReviewCallIds, a \in Reviewers \cup {NoReviewer} :
            WorkerClaimReview(c, r, t, a) \/ StartReviewSubmission(c, t, r, a)
  \/ \E r \in ReviewRunIds : HeartbeatReviewTaskRun(r)
  \/ \E c \in ReviewCallIds :
       \/ RecordReviewSubmission(c) \/ ThrowRecording(c)
       \/ FailReviewTaskRun(c) \/ StopReviewCall(c)
  \/ ReviewReaper

ReviewSpec == ReviewInit /\ [][ReviewNext]_reviewVars

-----------------------------------------------------------------------------
(***************************************************************************)
(* Properties.                                                             *)
(***************************************************************************)

\* However reviewers overlap, expire, submit late, submit on a run of another or
\* err after their submission: the submissions and the runs that may still make
\* one never exceed maxSubmissions, each run makes at most one, agents are
\* distinct where the policy says so, and a task is completed exactly when it has
\* minSubmissions.
ReviewsCounted ==
  \A t \in ReviewTaskIds : reviewTasks[t] # NoTask =>
    LET policy == reviewTasks[t].policy
        submitted == Submissions(t)
        live == {r \in ReviewRunIds : reviewRuns[r].task = t /\ reviewRuns[r].status = "running"}
    IN /\ Cardinality(submitted) + Cardinality(live) <= policy.max
       /\ \A s, u \in submitted :
            s # u => /\ s.run # u.run
                     /\ policy.distinct /\ s.agent # NoReviewer => s.agent # u.agent
       /\ reviewTasks[t].status = "completed" <=> Cardinality(submitted) >= policy.min
       /\ \A r \in ReviewRunIds : reviewRuns[r].task = t /\ reviewRuns[r].status = "completed"
            => \E s \in submitted : s.run = r

\* Time passes and operators run the reaper, as they do for jobs.
OperatorsReapReviews == \A r \in ReviewRunIds :
  WF_reviewVars(ReviewGoStale(r)) /\ WF_reviewVars(ExpireStaleReviewTaskRun(r))

\* Reviewers that claim and vanish do not keep others out: where operators run
\* the reaper, a task never stays open without a slot to claim.
SlotsComeFree ==
  OperatorsReapReviews => \A t \in ReviewTaskIds : []<>(Open(t) => HasSlot(t))
=============================================================================
