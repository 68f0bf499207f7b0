----------------------------- MODULE WorkLease -----------------------------
(***************************************************************************)
(* What a queue of work promises those who work on it.  Work that is open  *)
(* is given out on a lease, to one lease at a time and on every lease once *)
(* only.  A lease is taken back when nothing is heard of its holder, and   *)
(* the work is open again.  Work ends once: by its lease, or late, by one  *)
(* that was taken back, whoever has the work by then.                      *)
(***************************************************************************)
CONSTANTS Works, Leases, NoLease

VARIABLES
  phase,   \* [Works -> {"none", "open", "leased", "ended"}]
  lease,   \* [Works -> Leases \cup {NoLease}]
  given    \* the leases given so far

leaseVars == <<phase, lease, given>>

LeaseInit ==
  /\ phase = [w \in Works |-> "none"]
  /\ lease = [w \in Works |-> NoLease]
  /\ given = {}

Offer(w) ==
  /\ phase[w] = "none"
  /\ phase' = [phase EXCEPT ![w] = "open"]
  /\ UNCHANGED <<lease, given>>

Give(w, l) ==
  /\ phase[w] = "open"
  /\ l \notin given
  /\ phase' = [phase EXCEPT ![w] = "leased"]
  /\ lease' = [lease EXCEPT ![w] = l]
  /\ given' = given \cup {l}

TakeBack(w) ==
  /\ phase[w] = "leased"
  /\ phase' = [phase EXCEPT ![w] = "open"]
  /\ lease' = [lease EXCEPT ![w] = NoLease]
  /\ UNCHANGED given

End(w) ==
  /\ phase[w] \in {"open", "leased"}
  /\ phase' = [phase EXCEPT ![w] = "ended"]
  /\ lease' = [lease EXCEPT ![w] = NoLease]
  /\ UNCHANGED given

LeaseNext ==
  \E w \in Works : Offer(w) \/ TakeBack(w) \/ End(w) \/ \E l \in Leases : Give(w, l)

LeaseSpec == LeaseInit /\ [][LeaseNext]_leaseVars
=============================================================================
