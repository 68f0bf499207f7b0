--------------------------- MODULE ReadModelSync ---------------------------
(***************************************************************************)
(* src/indexer: syncReadModel, run over and over by the sync worker and by *)
(* hand, against the chain and the read model's database.  A step is the   *)
(* part of a sync between two awaits, or one database transaction.         *)
(*                                                                         *)
(* Three kinds of rows are told apart: rows appended from events alone     *)
(* (decisions; artifacts and checkpoints are written the same way), the    *)
(* claim, inserted as its record reads at the head and then moved by the   *)
(* events of the chunk, and the forecast, rewritten from its record at the *)
(* head whenever an event touches it (so are agents, challenges, appeals). *)
(*                                                                         *)
(* A definition whose name begins with Bug is one the model does not use.  *)
(***************************************************************************)
EXTENDS Chain

CONSTANTS
  Syncers,    \* processes that sync
  NoSyncer,   \* nobody
  BatchSize,  \* SP_INDEXER_BATCH_SIZE
  MaxFaults   \* bound: crashes and failing calls

ASSUME SyncAssumption ==
  NoSyncer \notin Syncers /\ BatchSize \in Nat \ {0} /\ MaxFaults \in Nat

VARIABLES
  syncs,          \* per process, the locals of its sync
  lock,           \* the advisory lock, of a database session
  runtimeStatus,  \* indexer_runtime_state.status
  cursor,         \* indexer_state.last_processed_block
  latestBlock,    \* metadata.latestBlock
  checkpoints,    \* indexer_block_checkpoints, by block number
  claimRow,       \* claims.status, 0 when there is no row
  decisionRows,   \* resolution_decisions
  effectiveRow,   \* the decision with effective = TRUE, or 0
  forecastRow,    \* forecasts
  faults

rowVars == <<claimRow, decisionRows, effectiveRow, forecastRow>>
progressVars == <<cursor, latestBlock, checkpoints>>
syncVars == <<syncs, lock, runtimeStatus, progressVars, rowVars, faults>>
vars == <<chainVars, syncVars>>

Idle ==
  [pc |-> "idle", latest |-> 0, from |-> 0, to |-> 0, events |-> <<>>, hash |-> NoHash,
   claim |-> 0, forecast |-> NoForecast]
HoldsLock(p) == syncs[p].pc \in {"locked", "ready", "fetched", "hashed", "read", "finishing"}

SyncInit ==
  /\ syncs = [p \in Syncers |-> Idle]
  /\ lock = NoSyncer
  /\ runtimeStatus = "idle"
  /\ cursor = 0 /\ latestBlock = 0
  /\ checkpoints = [n \in Heights |-> NoHash]
  /\ claimRow = 0 /\ decisionRows = {} /\ effectiveRow = 0 /\ forecastRow = NoForecast
  /\ faults = 0

Goto(p, pc) == syncs' = [syncs EXCEPT ![p].pc = pc]

\* markSyncFailed, and the lock is released.
FailSync(p) ==
  /\ syncs' = [syncs EXCEPT ![p] = Idle]
  /\ lock' = NoSyncer
  /\ runtimeStatus' = "failed"
  /\ UNCHANGED <<progressVars, rowVars>>

BugReadHead(p) ==  \* without the confirmation window
  /\ syncs[p].pc = "idle"
  /\ syncs' = [syncs EXCEPT ![p] = [Idle EXCEPT !.pc = "started", !.latest = head]]
  /\ UNCHANGED <<lock, runtimeStatus, progressVars, rowVars, faults>>

\* The target, before the lock is asked for.
ReadHead(p) ==
  /\ syncs[p].pc = "idle"
  /\ syncs' = [syncs EXCEPT ![p] =
       [Idle EXCEPT !.pc = "started", !.latest = MaxOrZero({0, head - Depth})]]
  /\ UNCHANGED <<lock, runtimeStatus, progressVars, rowVars, faults>>

\* pg_try_advisory_lock: who does not get it skips this tick.
AcquireLock(p) ==
  /\ syncs[p].pc = "started"
  /\ \/ /\ lock = NoSyncer
        /\ lock' = p /\ runtimeStatus' = "syncing" /\ Goto(p, "locked")
     \/ /\ lock # NoSyncer
        /\ syncs' = [syncs EXCEPT ![p] = Idle]
        /\ UNCHANGED <<lock, runtimeStatus>>
  /\ UNCHANGED <<progressVars, rowVars, faults>>

BugOnBranch == TRUE  \* the stored hash is not compared

\* The stored hash of the cursor's block is the canonical one.
OnBranch ==
  cursor > 0 => checkpoints[cursor] \in {NoHash, Hash(cursor)}

CheckCursor(p) ==
  /\ syncs[p].pc = "locked"
  /\ cursor <= head
  /\ UNCHANGED faults
  /\ \/ /\ OnBranch
        /\ syncs' = [syncs EXCEPT ![p].pc = "ready", ![p].from = cursor + 1]
        /\ checkpoints' = [n \in Heights |->
             IF n = cursor /\ checkpoints[n] = NoHash THEN Hash(n) ELSE checkpoints[n]]
        /\ UNCHANGED <<lock, runtimeStatus, cursor, latestBlock, rowVars>>
     \/ ~OnBranch /\ FailSync(p)  \* ReadModelReorgDetectedError

\* The events of the next chunk ...
FetchChunkEvents(p) ==
  LET from == syncs[p].from
      to == Min({from + BatchSize - 1, syncs[p].latest})
  IN /\ syncs[p].pc = "ready"
     /\ from <= syncs[p].latest
     /\ syncs' = [syncs EXCEPT ![p].pc = "fetched", ![p].to = to,
          ![p].events = [i \in (from .. to) \cap (1 .. head) |-> chain[i]]]
     /\ UNCHANGED <<lock, runtimeStatus, progressVars, rowVars, faults>>

\* ... the hash of its last block, read after them ...
ReadBlockHash(p) ==
  /\ syncs[p].pc = "fetched"
  /\ syncs[p].to <= head
  /\ syncs' = [syncs EXCEPT ![p].pc = "hashed", ![p].hash = Hash(syncs[p].to)]
  /\ UNCHANGED <<lock, runtimeStatus, progressVars, rowVars, faults>>

Blocks(p, kinds) == {i \in DOMAIN syncs[p].events : syncs[p].events[i].kind \in kinds}
CreatesClaim(p) == Blocks(p, {"created"}) # {}
TouchesForecast(p) == Blocks(p, {"committed", "settled"}) # {}

\* ... and the records its events touch, as they are at the head by now.
ReadRecords(p) ==
  /\ syncs[p].pc = "hashed"
  /\ CreatesClaim(p) => StatusAt(head) # 0
  /\ TouchesForecast(p) => ForecastAt(head) # NoForecast
  /\ syncs' = [syncs EXCEPT ![p].pc = "read",
       ![p].claim = IF CreatesClaim(p) THEN StatusAt(head) ELSE 0,
       ![p].forecast = IF TouchesForecast(p) THEN ForecastAt(head) ELSE NoForecast]
  /\ UNCHANGED <<lock, runtimeStatus, progressVars, rowVars, faults>>

\* A block or record the provider no longer has.
MissingOnChain(p) ==
  /\ \/ syncs[p].pc = "locked" /\ cursor > head
     \/ syncs[p].pc = "fetched" /\ syncs[p].to > head
     \/ /\ syncs[p].pc = "hashed"
        /\ \/ CreatesClaim(p) /\ StatusAt(head) = 0
           \/ TouchesForecast(p) /\ ForecastAt(head) = NoForecast
  /\ FailSync(p)
  /\ UNCHANGED faults

(***************************************************************************)
(* The rows a chunk leaves, table by table.                                *)
(***************************************************************************)
BugClaimAfter(p) ==  \* without the events
  IF CreatesClaim(p) THEN syncs[p].claim ELSE claimRow

\* upsertClaim, then updateClaimStatus for every event in order.
ClaimAfter(p) ==
  LET i == MaxOrZero({j \in Blocks(p, {"status", "decided"}) : syncs[p].events[j].status # 0})
  IN IF i # 0 THEN syncs[p].events[i].status
     ELSE IF CreatesClaim(p) THEN syncs[p].claim
     ELSE claimRow

\* INSERT ... ON CONFLICT (decision_id) DO NOTHING.
DecisionsAfter(p) ==
  decisionRows \cup
    {e \in {syncs[p].events[i] : i \in Blocks(p, {"decided"})} :
       \A row \in decisionRows : row.decision # e.decision}

EffectiveAfter(p) ==
  LET i == MaxOrZero({j \in Blocks(p, {"decided"}) : syncs[p].events[j].status # 0})
  IN IF i = 0 THEN effectiveRow ELSE syncs[p].events[i].decision

\* upsertForecast: the record, but a decision already there stays.
Upserted(p) ==
  IF TouchesForecast(p)
  THEN [settled |-> syncs[p].forecast.settled,
        decision |-> IF forecastRow.decision > 0 THEN forecastRow.decision
                     ELSE syncs[p].forecast.decision]
  ELSE forecastRow

\* applyForecastSettlement.
ForecastAfter(p) ==
  LET S == Blocks(p, {"settled"})
  IN IF S = {} THEN Upserted(p)
     ELSE [settled |-> TRUE, decision |-> syncs[p].events[Max(S)].decision]

\* forecasts.resolution_decision_id REFERENCES resolution_decisions: the record
\* of the head may name a decision of a later chunk.
ForeignKeyHolds(p) ==
  Upserted(p).decision > 0 => \E row \in DecisionsAfter(p) : row.decision = Upserted(p).decision

\* updateReadModelMetadata and writeSyncCursor.
WriteProgress(p) ==
  /\ cursor' = syncs[p].to
  /\ latestBlock' = syncs[p].to
  /\ checkpoints' = [checkpoints EXCEPT ![syncs[p].to] = syncs[p].hash]

ApplyChunk(p) ==
  /\ syncs[p].pc = "read"
  /\ ForeignKeyHolds(p)
  /\ claimRow' = ClaimAfter(p)
  /\ decisionRows' = DecisionsAfter(p)
  /\ effectiveRow' = EffectiveAfter(p)
  /\ forecastRow' = ForecastAfter(p)
  /\ WriteProgress(p)
  /\ syncs' = [syncs EXCEPT ![p] =
       [Idle EXCEPT !.pc = "ready", !.latest = syncs[p].latest, !.from = syncs[p].to + 1]]
  /\ UNCHANGED <<lock, runtimeStatus, faults>>

RefuseChunk(p) ==
  /\ syncs[p].pc = "read"
  /\ ~ForeignKeyHolds(p)
  /\ FailSync(p)
  /\ UNCHANGED faults

\* The metadata announce the head that was read first, however old.
FinishChunks(p) ==
  /\ syncs[p].pc = "ready"
  /\ syncs[p].from > syncs[p].latest
  /\ latestBlock' = syncs[p].latest
  /\ Goto(p, "finishing")
  /\ UNCHANGED <<lock, runtimeStatus, cursor, checkpoints, rowVars, faults>>

MarkSyncSucceeded(p) ==
  /\ syncs[p].pc = "finishing"
  /\ syncs' = [syncs EXCEPT ![p] = Idle]
  /\ lock' = NoSyncer
  /\ runtimeStatus' = "idle"
  /\ UNCHANGED <<progressVars, rowVars, faults>>

\* Any call to the provider or the database may fail ...
Throw(p) ==
  /\ HoldsLock(p)
  /\ faults < MaxFaults
  /\ faults' = faults + 1
  /\ FailSync(p)

BugCrash(p) ==  \* a lock that outlives the session
  /\ HoldsLock(p)
  /\ faults < MaxFaults
  /\ faults' = faults + 1
  /\ syncs' = [syncs EXCEPT ![p] = Idle]
  /\ UNCHANGED <<lock, runtimeStatus, progressVars, rowVars>>

\* ... and a process that dies loses its session, and so the lock.
Crash(p) ==
  /\ HoldsLock(p)
  /\ faults < MaxFaults
  /\ faults' = faults + 1
  /\ syncs' = [syncs EXCEPT ![p] = Idle]
  /\ lock' = NoSyncer
  /\ UNCHANGED <<runtimeStatus, progressVars, rowVars>>

SyncStep(p) ==
  \/ ReadHead(p) \/ AcquireLock(p) \/ CheckCursor(p) \/ FetchChunkEvents(p)
  \/ ReadBlockHash(p) \/ ReadRecords(p) \/ MissingOnChain(p) \/ ApplyChunk(p)
  \/ RefuseChunk(p) \/ FinishChunks(p) \/ MarkSyncSucceeded(p)

Next ==
  \/ ChainStep /\ UNCHANGED syncVars
  \/ \E p \in Syncers : (SyncStep(p) \/ Throw(p) \/ Crash(p)) /\ UNCHANGED chainVars

Init == ChainInit /\ SyncInit

\* The sync worker ticks for ever.
SyncFairness == \A p \in Syncers : WF_vars(SyncStep(p) /\ UNCHANGED chainVars)

Spec == Init /\ [][Next]_vars
FairSpec == Spec /\ SyncFairness

-----------------------------------------------------------------------------
(***************************************************************************)
(* Properties.                                                             *)
(***************************************************************************)

\* As long as no confirmed block is replaced, what is appended from events and
\* the cursor, written chunk by chunk by processes that take turns, crash and
\* start from stale heads, are those of one prefix of the chain: nothing
\* missing, nothing of another branch, the stored hash its hash; and readers are
\* never told of a block above it.
RowsFollowLog ==
  ~deep =>
    /\ cursor <= head
    /\ decisionRows = DecisionsAt(cursor)
    /\ effectiveRow = EffectiveAt(cursor)
    /\ cursor > 0 => checkpoints[cursor] = Hash(cursor)
    /\ latestBlock <= cursor

\* Rows that mix records read at the head with older events settle all the same:
\* without a reorganization, once the last event of a claim or a forecast is
\* indexed its row is its record, whatever was read early in between.
RowsConverge ==
  fork = 0 =>
    /\ StatusAt(cursor) = StatusAt(head) => claimRow = StatusAt(head)
    /\ ForecastAt(cursor) = ForecastAt(head) => forecastRow = ForecastAt(head)

Forked == cursor > head \/ (cursor > 0 /\ checkpoints[cursor] # Hash(cursor))

\* "It never continues from a forked cursor": once the block of the cursor has
\* been replaced while nobody was syncing, it stays so until a rebuild; a sync
\* that went on would leave its own cursor and hash.
StopsOnFork == [](Forked /\ lock = NoSyncer => []Forked)

CaughtUp == cursor >= head - Depth

\* The chain no longer moves and no forecast is settled by a decision: the read
\* model reaches the newest confirmed block.
KeepsUp ==
  [](~deep /\ \A i \in 1 .. head : chain[i].kind = "settled" => chain[i].decision = 0)
    => <>[]CaughtUp

\* "The chain-derived tables are replayable from logs": the same whatever the
\* logs hold.
ReplaysFromLogs == []~deep => <>[]CaughtUp
=============================================================================
