------------------------------- MODULE MCView -------------------------------
(* Constants for the page: two addresses and a malformed one; two ratings   *)
(* of one address, one of the other, and a row whose score was edited after *)
(* it was signed, whose key was exchanged with the signature, or whose      *)
(* author is the other party.                                               *)
EXTENDS ReputationView

MCAddress == {"prov", "dep"}
MCKey == {"key of prov", "key of dep"}
MCAddressFromPubKey ==
  [k \in MCKey |-> IF k = "key of prov" THEN "prov" ELSE "dep"]
short == [chars |-> 10, bytes |-> 10, controls |-> FALSE]
MCComment == {short}

Rating(role, dseq, score) ==
  [v |-> MessageVersion, role |-> role, provider |-> "prov", deployer |-> "dep",
   dseq |-> Canonical(dseq), goseq |-> 1, score |-> score,
   comment |-> short, issued_at |-> Canonical(0)]

Row(f, key, signature) ==
  [id |-> 1, role |-> f.role, author |-> Author(f), subject |-> Subject(f),
   provider |-> f.provider, owner |-> f.deployer, dseq |-> f.dseq,
   goseq |-> f.goseq, score |-> f.score, comment |-> f.comment, issued_at |-> 0,
   pubkey |-> Encoded(key), signature |-> Encoded(signature)]

OfProv(dseq, score) ==
  LET f == Rating(RoleDeployer, dseq, score)
  IN  Row(f, "key of dep", Sign(f, "key of dep"))

OfDep ==
  LET f == Rating(RoleProvider, 1, -1)
  IN  Row(f, "key of prov", Sign(f, "key of prov"))

Edited == [OfProv(1, 1) EXCEPT !.score = -1]

Exchanged ==
  LET f == Rating(RoleDeployer, 2, 1)
  IN  Row(f, "key of prov",
          [key |-> "key of prov", doc |-> SignDoc(f, "dep")])

Misattributed ==
  LET f == Rating(RoleDeployer, 1, 1)
  IN  [Row(f, "key of prov",
           [key |-> "key of prov", doc |-> SignDoc(f, "prov")])
       EXCEPT !.author = "prov"]

MCOffered == {OfProv(1, 1), OfProv(2, -1), OfDep, Edited, Exchanged,
              Misattributed}
=============================================================================
