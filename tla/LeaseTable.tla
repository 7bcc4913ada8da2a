----------------------------- MODULE LeaseTable -----------------------------
(***************************************************************************)
(* internal/store, table leases: a set of rows with at most one row for    *)
(* each (owner, dseq, gseq, oseq, provider).  Rows are added or have their *)
(* state overwritten; nothing deletes one.  first_seen and last_seen only  *)
(* order a listing and are left out.                                       *)
(***************************************************************************)
EXTENDS Vocabulary

VARIABLE leases

LeaseKey ==
  [owner: Address, dseq: Text(DSeq), goseq: GOSeq, provider: Address]

\* Poller rows carry the chain's state, rows of the API the word "verified".
LeaseState == {"active", "closed", "insufficient_funds", "verified"}

LeaseTableTypeOK == leases \subseteq [key: LeaseKey, state: LeaseState]

LeaseTableInit == leases = {}

\* Variant: ON CONFLICT DO NOTHING.
UpsertLease_doNothing(k, state) ==
  leases' = IF \E row \in leases : row.key = k
            THEN leases
            ELSE leases \cup {[key |-> k, state |-> state]}

\* INSERT .. ON CONFLICT (owner, dseq, gseq, oseq, provider) DO UPDATE.
UpsertLease(k, state) ==
  leases' = {row \in leases : row.key # k} \cup {[key |-> k, state |-> state]}

LeaseExists(k) == \E row \in leases : row.key = k
=============================================================================
