------------------------------ MODULE MCQueues ------------------------------
(* ReplicationJobs and Webhooks on small instances.                        *)
EXTENDS MCReplicationJobs, Webhooks

CONSTANTS d1, d2

(* Either the queue of replication jobs moves or that of deliveries.        *)
OnlyJobs == HooksInit /\ JobsNext /\ UNCHANGED hookVars
OnlyHooks(Moves) == JobsInit /\ Moves /\ UNCHANGED jobVars

(* The events in play: ...                                                 *)
Shown ==
  (feed' \cup late' \cup {e \in Events : deliveries'[e].status # "none"} \cup {cursor'}
     \cup UNION {{dispatchers'[d].last} \cup dispatchers'[d].fresh : d \in Dispatchers})
  \ {Origin}

(* ... one, of which everything can go wrong, or two, if dispatchers post    *)
(* one at a time, posts succeed at once and nobody crashes, ...             *)
Smooth ==
  /\ stops' = 0
  /\ Cardinality({d \in Dispatchers :
       dispatchers'[d].pc \in {"dispatching", "posting", "delivering"}}) <= 1
  /\ \A d \in Dispatchers :
       /\ dispatchers'[d].pc # "retrying" /\ dispatchers'[d].attempts <= 1
       /\ dispatchers'[d].pc = "failing" => ~active'
       /\ \A row \in dispatchers'[d].batch : row[2] = 0
  /\ \A e \in Events : deliveries'[e].status # "retrying" /\ deliveries'[e].attempts <= 1
  /\ \A e \in received' :
       deliveries'[e].status = "delivered"
         \/ \E d \in Dispatchers : dispatchers'[d].pc = "delivering" /\ dispatchers'[d].current = e

(* ... and one dispatcher is at work or all events were asked for.          *)
HookBounds ==
  \/ Cardinality(Shown) <= 1
  \/ /\ Cardinality(Shown) = 2 /\ Smooth
     /\ \/ \A d \in Dispatchers \ {d1} : dispatchers'[d] = Asleep
        \/ active' /\ \A e \in Shown : e[2] # 0 /\ e[3] \in Matching

QueuesInit == JobsInit /\ HooksInit
QueuesNext == OnlyJobs \/ OnlyHooks(HooksNext /\ HookBounds)
QueuesSpec ==
  /\ QueuesInit /\ [][QueuesNext]_<<jobVars, hookVars>>
  /\ \A c \in CallIds : WF_jobVars(HooksInit /\ CallStep(c) /\ UNCHANGED hookVars)
  /\ \A d \in Dispatchers : WF_hookVars(OnlyHooks(CycleStep(d)))
  /\ \A e \in {f \in Events : f[3] \in Matching} :
       WF_hookVars(OnlyHooks(FallDue(e)))
=============================================================================
