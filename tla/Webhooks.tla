------------------------------ MODULE Webhooks ------------------------------
(***************************************************************************)
(* src/agents/webhooks.ts: the dispatch cycle of one subscription (they    *)
(* share nothing), run by any number of processes over the runtime feed of *)
(* agents/runtime-events.ts.  The feed shows the current event of every    *)
(* subject (a work item, a request, a publication), newest first.  A step  *)
(* is the part of a cycle between two awaits.  Time counts milliseconds as *)
(* far as their order matters; a retry falls due at any later moment.      *)
(*                                                                         *)
(* A definition whose name begins with Bug is one the model does not use:  *)
(* its neighbour with a defect the properties must notice.                 *)
(***************************************************************************)
EXTENDS Naturals, FiniteSets

CONSTANTS
  Dispatchers,
  MaxSubjects,  \* bound: subjects 1 .. MaxSubjects, in the order of their event ids
  MaxTime,      \* bound: the clock
  MaxLag,       \* the most by which a row's NOW() precedes its commit
  Matching,     \* the event types the subscription asked for, of EventTypes
  PageLimit,    \* pageLimit of the sync ...
  FeedLimit,    \* ... and the most a page of the API has
  MaxAttempts,
  MaxStops      \* bound: crashes

EventTypes == {1, 2}  \* claimable and updated, in the order of event ids

ASSUME WebhookAssumption ==
  /\ {MaxSubjects, MaxLag, MaxStops} \subseteq Nat
  /\ {MaxTime, MaxAttempts} \subseteq Nat \ {0}
  /\ PageLimit \in 1 .. FeedLimit /\ Matching \subseteq EventTypes

Subjects == 1 .. MaxSubjects
\* occurredAt, subject and type: compareEventTuple, where a ping has subject 0.
Events == (1 .. MaxTime) \X (0 .. MaxSubjects) \X EventTypes
Origin == <<0, 0, 0>>  \* no cursor
Before(e, f) ==
  \/ e[1] < f[1]
  \/ e[1] = f[1] /\ e[2] < f[2]
  \/ e[1] = f[1] /\ e[2] = f[2] /\ e[3] < f[3]
Latest(S) == CHOOSE e \in S : \A f \in S : f = e \/ Before(f, e)

VARIABLES
  clock,
  feed,        \* the current events
  active,      \* the subscription's status ...
  cursor,      \* ... and cursor
  deliveries,  \* agent_webhook_deliveries, by event: the pair is unique
  dispatchers, \* the locals of the cycles
  received,    \* history: deliveries the receiver took
  late,        \* history: events that became visible behind the cursor or a page read
  stops

hookVars == <<clock, feed, active, cursor, deliveries, dispatchers, received, late, stops>>

NoDelivery == [status |-> "none", attempts |-> 0, due |-> FALSE]
Asleep ==
  [pc |-> "idle", since |-> Origin, offset |-> 0, fresh |-> {}, last |-> Origin,
   batch |-> {}, current |-> Origin, attempts |-> 0]

HooksInit ==
  /\ clock = 1
  /\ feed = {}
  /\ active = TRUE
  /\ cursor = Origin
  /\ deliveries = [e \in Events |-> NoDelivery]
  /\ dispatchers = [d \in Dispatchers |-> Asleep]
  /\ received = {}
  /\ late = {}
  /\ stops = 0

Tick ==
  /\ clock < MaxTime
  /\ clock' = clock + 1
  /\ UNCHANGED <<feed, active, cursor, deliveries, dispatchers, received, late, stops>>

\* What is past: at the cursor, at the cursor a sync under way began with, or at the
\* newest event it has read.
PassedOver(e) ==
  \/ ~Before(cursor, e)
  \/ \E d \in Dispatchers : dispatchers[d].pc = "reading" /\ ~Before(dispatchers[d].since, e)
  \/ \E d \in Dispatchers : dispatchers[d].last # Origin /\ ~Before(dispatchers[d].last, e)

Show(e) ==
  /\ feed' = {f \in feed : f[2] # e[2]} \cup {e}
  /\ late' = late \cup {f \in {e} : PassedOver(f)}
  /\ UNCHANGED <<clock, active, cursor, deliveries, dispatchers, received, stops>>

\* A row is written with the time its transaction began; and a work item becomes
\* claimable, or no longer, by the state of others, its own row untouched.
UpdateSubject(s, t, type) ==
  /\ t \in 1 .. clock /\ clock <= t + MaxLag
  /\ \A e \in feed : e[2] = s => e[1] < t
  /\ Show(<<t, s, type>>)

Reclassify(e, type) ==
  /\ e \in feed /\ type # e[3]
  /\ Show(<<e[1], e[2], type>>)

Enqueued(e) ==  \* ON CONFLICT it is there already
  IF deliveries[e].status # "none" THEN deliveries
  ELSE [deliveries EXCEPT ![e] = [status |-> "pending", attempts |-> 0, due |-> TRUE]]

Ping ==
  /\ deliveries' = Enqueued(<<clock, 0, 1>>)
  /\ UNCHANGED <<clock, feed, active, cursor, dispatchers, received, late, stops>>

Deactivate ==
  /\ active /\ active' = FALSE
  /\ UNCHANGED <<clock, feed, cursor, deliveries, dispatchers, received, late, stops>>

Doing(d, pc) == dispatchers[d].pc = pc
DispatcherGoto(d, pc) == dispatchers' = [dispatchers EXCEPT ![d].pc = pc]

(***************************************************************************)
(* syncAgentWebhookSubscriptionsFromRuntimeFeed.                           *)
(***************************************************************************)
StartCycle(d) ==
  /\ Doing(d, "idle")
  /\ dispatchers' = [dispatchers EXCEPT
       ![d] = IF active THEN [Asleep EXCEPT !.pc = "reading", !.since = cursor]
              ELSE [Asleep EXCEPT !.pc = "synced"]]
  /\ UNCHANGED <<clock, feed, active, cursor, deliveries, received, late, stops>>

\* The page at an offset of the events since a time, newest first.
Page(since, offset) ==
  LET listed == {e \in feed : e[1] >= since[1]}
      rank(e) == Cardinality({f \in listed : Before(e, f)})
  IN {e \in listed : rank(e) \in offset .. offset + PageLimit - 1}

ReadPage(d) ==
  LET page == Page(dispatchers[d].since, dispatchers[d].offset)
      fresh == dispatchers[d].fresh \cup {e \in page : Before(dispatchers[d].since, e)}
      done == Cardinality(page) < PageLimit
  IN /\ Doing(d, "reading")
     /\ dispatchers' = [dispatchers EXCEPT
          ![d].fresh = fresh, ![d].offset = IF done THEN 0 ELSE @ + PageLimit,
          ![d].last = IF fresh = {} THEN Origin ELSE Latest(fresh),
          ![d].pc = IF ~done THEN @ ELSE IF fresh = {} THEN "synced" ELSE "enqueuing"]
     /\ UNCHANGED <<clock, feed, active, cursor, deliveries, received, late, stops>>

\* Oldest first, those of other types passed over.
EnqueueDelivery(d) ==
  \E e \in dispatchers[d].fresh :
    /\ Doing(d, "enqueuing")
    /\ \A f \in dispatchers[d].fresh : ~Before(f, e)
    /\ deliveries' = IF e[3] \in Matching THEN Enqueued(e) ELSE deliveries
    /\ dispatchers' = [dispatchers EXCEPT ![d].fresh = @ \ {e}]
    /\ UNCHANGED <<clock, feed, active, cursor, received, late, stops>>

BugUpdateCursor(d) ==  \* before the deliveries are there
  /\ Doing(d, "enqueuing")
  /\ cursor # dispatchers[d].last \/ dispatchers[d].fresh = {}
  /\ cursor' = dispatchers[d].last
  /\ dispatchers' = [dispatchers EXCEPT ![d].pc = IF dispatchers[d].fresh = {} THEN "synced" ELSE @]
  /\ UNCHANGED <<clock, feed, active, deliveries, received, late, stops>>

\* Wherever another process has moved it meanwhile.
UpdateCursor(d) ==
  /\ Doing(d, "enqueuing")
  /\ dispatchers[d].fresh = {}
  /\ cursor' = dispatchers[d].last
  /\ dispatchers' = [dispatchers EXCEPT ![d].pc = "synced", ![d].last = Origin,
                                        ![d].since = Origin]
  /\ UNCHANGED <<clock, feed, active, deliveries, received, late, stops>>

(***************************************************************************)
(* dispatchDueAgentWebhookDeliveries.                                      *)
(***************************************************************************)
Due(e) == active /\ deliveries[e].status \in {"pending", "retrying"} /\ deliveries[e].due

\* The batch keeps the attempts it read.
ReadDue(d) ==
  /\ Doing(d, "synced")
  /\ dispatchers' = [dispatchers EXCEPT ![d] =
       [Asleep EXCEPT !.pc = "dispatching",
                      !.batch = {<<e, deliveries[e].attempts>> : e \in {f \in Events : Due(f)}}]]
  /\ UNCHANGED <<clock, feed, active, cursor, deliveries, received, late, stops>>

ReadSubscription(d, row) ==
  /\ Doing(d, "dispatching") /\ row \in dispatchers[d].batch
  /\ dispatchers' = [dispatchers EXCEPT
       ![d].batch = @ \ {row}, ![d].current = row[1], ![d].attempts = row[2] + 1,
       ![d].pc = IF active THEN "posting" ELSE "failing"]
  /\ UNCHANGED <<clock, feed, active, cursor, deliveries, received, late, stops>>

EndCycle(d) ==
  /\ Doing(d, "dispatching")
  /\ dispatchers[d].batch = {}
  /\ DispatcherGoto(d, "idle")
  /\ UNCHANGED <<clock, feed, active, cursor, deliveries, received, late, stops>>

RetryOrFail(d) == IF dispatchers[d].attempts >= MaxAttempts THEN "failing" ELSE "retrying"

\* The receiver takes it or not, and the answer comes or is lost.
Post(d, taken, answered) ==
  /\ Doing(d, "posting")
  /\ received' = IF taken THEN received \cup {dispatchers[d].current} ELSE received
  /\ DispatcherGoto(d, IF taken /\ answered THEN "delivering" ELSE RetryOrFail(d))
  /\ UNCHANGED <<clock, feed, active, cursor, deliveries, late, stops>>

Marked(d, status, attempts) ==
  [deliveries EXCEPT ![dispatchers[d].current] =
     [status |-> status, attempts |-> attempts, due |-> FALSE]]

MarkDelivery(d, status, attempts) ==
  /\ deliveries' = Marked(d, status, attempts)
  /\ dispatchers' = [dispatchers EXCEPT ![d].pc = "dispatching", ![d].current = Origin,
                                        ![d].attempts = 0]
  /\ UNCHANGED <<clock, feed, active, cursor, received, late, stops>>

MarkDelivered(d) ==
  /\ Doing(d, "delivering")
  /\ MarkDelivery(d, "delivered", dispatchers[d].attempts)

\* The update throws, or the note on the subscription after it, inside the try.
ThrowMarking(d) ==
  /\ Doing(d, "delivering")
  /\ deliveries' \in {deliveries, Marked(d, "delivered", dispatchers[d].attempts)}
  /\ DispatcherGoto(d, RetryOrFail(d))
  /\ UNCHANGED <<clock, feed, active, cursor, received, late, stops>>

BugMarkRetrying(d) ==  \* the attempt is not counted
  /\ Doing(d, "retrying")
  /\ MarkDelivery(d, "retrying", dispatchers[d].attempts - 1)

MarkRetrying(d) ==
  /\ Doing(d, "retrying")
  /\ MarkDelivery(d, "retrying", dispatchers[d].attempts)

MarkFailed(d) ==
  /\ Doing(d, "failing")
  /\ MarkDelivery(d, "failed", dispatchers[d].attempts)

FallDue(e) ==
  /\ deliveries[e].status = "retrying" /\ ~deliveries[e].due
  /\ deliveries' = [deliveries EXCEPT ![e].due = TRUE]
  /\ UNCHANGED <<clock, feed, active, cursor, dispatchers, received, late, stops>>

\* The process dies, or a call outside the try throws: the next cycle starts afresh.
StopDispatcher(d) ==
  /\ stops < MaxStops /\ stops' = stops + 1
  /\ ~Doing(d, "idle")
  /\ dispatchers' = [dispatchers EXCEPT ![d] = Asleep]
  /\ UNCHANGED <<clock, feed, active, cursor, deliveries, received, late>>

CycleStep(d) ==
  \/ StartCycle(d) \/ ReadPage(d) \/ EnqueueDelivery(d) \/ UpdateCursor(d)
  \/ ReadDue(d) \/ EndCycle(d)
  \/ \E row \in dispatchers[d].batch : ReadSubscription(d, row)
  \/ \E taken, answered \in BOOLEAN : Post(d, taken, answered)
  \/ MarkDelivered(d) \/ ThrowMarking(d) \/ MarkRetrying(d) \/ MarkFailed(d)

WorldStep ==
  \/ Tick \/ Ping \/ Deactivate
  \/ \E s \in Subjects, t \in 1 .. MaxTime, type \in EventTypes : UpdateSubject(s, t, type)
  \/ \E e \in feed, type \in EventTypes : Reclassify(e, type)
  \/ \E d \in Dispatchers : StopDispatcher(d)

HooksNext ==
  \/ WorldStep
  \/ \E d \in Dispatchers : CycleStep(d)
  \/ \E e \in Events : FallDue(e)

HooksSpec == HooksInit /\ [][HooksNext]_hookVars

\* The schedule starts cycles again and again, calls time out, and time passes.
HookFairness ==
  /\ \A d \in Dispatchers : WF_hookVars(CycleStep(d))
  /\ \A e \in Events : WF_hookVars(FallDue(e))

-----------------------------------------------------------------------------
(***************************************************************************)
(* Properties.                                                             *)
(***************************************************************************)

\* Whatever processes sync at a time, crash between two statements or set the
\* cursor back, an event the subscription asked for and that the feed still shows
\* has its delivery once the cursor is past it, unless it became visible too
\* late; nothing else has one; and what is marked delivered was taken.
DeliveriesFaithful ==
  /\ \A e \in feed : e[3] \in Matching /\ ~Before(cursor, e) /\ e \notin late
       => deliveries[e].status # "none"
  /\ \A e \in Events : deliveries[e].status # "none" => e[3] \in Matching \/ e[2] = 0
  /\ \A e \in Events : deliveries[e].status = "delivered" => e \in received

Settled(e) == deliveries[e].status \in {"delivered", "failed"}

\* No delivery is tried for ever: though two processes hold the same row, and the
\* slower sets its status and its attempts back, each row is delivered or failed
\* in the end and stays so, or its subscription is inactive.
DeliveriesEnd ==
  \A e \in Events : <>[](deliveries[e].status # "none" => Settled(e) \/ ~active)
=============================================================================
