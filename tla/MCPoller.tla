------------------------------ MODULE MCPoller ------------------------------
(* Constants for the poller and what its Syncs cover: three leases of this  *)
(* provider, one more than fit on a page.                                   *)
EXTENDS SyncCoverage

L(o, d) == [owner |-> o, dseq |-> d, goseq |-> 1, provider |-> "prov"]

MCAddress == {"prov", "dep", "other"}
MCDSeq == {1, 2}
MCLeaseId == {L("dep", 1), L("dep", 2), L("other", 1)}
MCRank == [l \in MCLeaseId |-> (IF l.owner = "dep" THEN 0 ELSE 2) + l.dseq]
=============================================================================
