----------------------------- MODULE MCService -----------------------------
(* Constants for the service: two leases of one deployment from this        *)
(* provider, the keys of their two parties and of a third account, and one  *)
(* envelope for each way a rating can be in or out of order.                *)
EXTENDS ReputationService, TLC

ReqSymmetry == Permutations(Req)

MCAddress == {"prov", "dep", "other"}
MCDSeq == {1, 2}
MCGOSeq == {1, 2}
L(g) == [owner |-> "dep", dseq |-> 1, goseq |-> g, provider |-> "prov"]
OneLease == {L(1)}
TwoLeases == {L(1), L(2)}
MCRank == [l \in LeaseId |-> l.goseq]

MCKey == {"key of prov", "key of dep", "key of other"}
MCAddressFromPubKey ==
  [k \in MCKey |-> CASE k = "key of prov" -> "prov"
                     [] k = "key of dep" -> "dep"
                     [] OTHER -> "other"]

MCInstant == {0}
short == [chars |-> 10, bytes |-> 10, controls |-> FALSE]
wide == [chars |-> 400, bytes |-> 1200, controls |-> FALSE]
formFeed == [short EXCEPT !.controls = TRUE]
MCComment == {short, wide, formFeed}

At(spelling) == [value |-> 0, spelling |-> spelling]

Rating(role, provider, dseq, g, score) ==
  [v |-> MessageVersion, role |-> role, provider |-> provider,
   deployer |-> "dep", dseq |-> dseq, goseq |-> g, score |-> score,
   comment |-> short, issued_at |-> At("canonical")]

SignedBy(k, f) ==
  [feedback |-> f, pubkey |-> Encoded(k), signature |-> Encoded(Sign(f, k))]

OfProvider(dseq, g, score) == Rating(RoleDeployer, "prov", dseq, g, score)
Plain == OfProvider(Canonical(1), 1, 1)

ByDep(f) == SignedBy("key of dep", f)

up == ByDep(Plain)
down == ByDep(OfProvider(Canonical(1), 1, -1))
downOtherLease == ByDep(OfProvider(Canonical(1), 2, -1))
back == SignedBy("key of prov", Rating(RoleProvider, "prov", Canonical(1), 1, -1))
foreign == SignedBy("key of other", Rating(RoleProvider, "other", Canonical(1), 1, -1))
respelled == ByDep(OfProvider([value |-> 1, spelling |-> "alternate"], 1, 1))
redated == ByDep([Plain EXCEPT !.issued_at = At("alternate")])
withFormFeed == ByDep([Plain EXCEPT !.comment = formFeed])
brokenKey == [up EXCEPT !.pubkey.broken = TRUE]
brokenSignature == [up EXCEPT !.signature.broken = TRUE]
altered == [up EXCEPT !.feedback.score = -1]
longWide == ByDep([Plain EXCEPT !.comment = wide])
unleased == ByDep(OfProvider(Canonical(2), 1, 1))

\* Well formed: what can reach the tables, and what only a check keeps out.
Storable == {up, down, back, foreign, respelled, redated, altered,
             withFormFeed, brokenKey, brokenSignature}
\* For requests on their own, every way to be refused beside a plain rating.
Refusable == {up, back, altered, longWide, unleased, NotJSON}
Parties == {up, downOtherLease, back}
=============================================================================
