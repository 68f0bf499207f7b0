-------------------------- MODULE MCReadModelSync --------------------------
(* ReadModelSync on small instances. *)
EXTENDS ReadModelSync

CONSTANTS s1, s2

FewerKinds == \A i \in 1 .. head' : chain'[i].kind \in {"created", "decided", "committed"}

(* Two processes on a chain that only grows, or one that meets a            *)
(* reorganization, with fewer kinds of events; ...                          *)
TwoTurns == fork' = 0 /\ faults' = 0 /\ FewerKinds
(* ... or one that meets a crash or an error.                               *)
OneTroubled ==
  /\ syncs'[s2] = Idle
  /\ fork' = 0 \/ (faults' = 0 /\ FewerKinds)
Bounds == TwoTurns \/ OneTroubled
BoundedNext == Next /\ Bounds
BoundedSpec ==
  /\ Init /\ [][BoundedNext]_vars
  /\ \A p \in Syncers : WF_vars(SyncStep(p) /\ UNCHANGED chainVars /\ Bounds)
=============================================================================
