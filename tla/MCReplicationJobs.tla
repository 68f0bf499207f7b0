------------------------- MODULE MCReplicationJobs -------------------------
(* ReplicationJobs on small instances. *)
EXTENDS ReplicationJobs

CONSTANTS w1, g1
=============================================================================
