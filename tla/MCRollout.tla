------------------------------ MODULE MCRollout ------------------------------
(* Constants for the rollout: a lease of this provider and one of another,  *)
(* which no query may return.                                               *)
EXTENDS Rollout

L(p) == [owner |-> "dep", dseq |-> 1, goseq |-> 1, provider |-> p]

MCAddress == {"prov", "dep", "other"}
MCLeaseId == {L("prov"), L("other")}
MCRank == [l \in MCLeaseId |-> IF l.provider = "prov" THEN 1 ELSE 2]
=============================================================================
