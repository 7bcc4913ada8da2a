---------------------------- MODULE MCReputeSign ----------------------------
(* Constants for the signing tool: one lease, the keys of its two parties,  *)
(* and an invocation for each way that flags and keys can be in order or    *)
(* not.                                                                     *)
EXTENDS ReputeSign, TLC

ReqSymmetry == Permutations(Req)

MCAddress == {"prov", "dep"}
MCDSeq == {1}
MCGOSeq == {1}
OneLease == [owner: {"dep"}, dseq: {1}, goseq: {1}, provider: {"prov"}]
MCRank == [l \in LeaseId |-> 1]

MCKey == {"key of prov", "key of dep"}
MCAddressFromPubKey ==
  [k \in MCKey |-> IF k = "key of prov" THEN "prov" ELSE "dep"]

MCInstant == {0, 1}
short == [chars |-> 10, bytes |-> 10, controls |-> FALSE]
long == [chars |-> 1001, bytes |-> 1001, controls |-> FALSE]
MCComment == {short, long}

\* The deployer rates the provider, with the key piped in.
up ==
  [role |-> RoleDeployer, provider |-> "prov", deployer |-> "",
   dseq |-> Canonical(1), goseq |-> 1, up |-> TRUE, down |-> FALSE,
   score |-> 0, comment |-> short, keyHex |-> "", env |-> "",
   stdin |-> "key of dep", api |-> TRUE]
overridden == [up EXCEPT !.score = -1]
back ==
  [up EXCEPT !.role = RoleProvider, !.provider = "", !.deployer = "dep",
             !.stdin = "key of prov"]
asOther == [up EXCEPT !.deployer = "prov"]
\* With two keys at hand and its own side left out, either would sign.
twoKeys == [up EXCEPT !.env = "key of prov"]
tooLong == [up EXCEPT !.comment = long]
bothFlags == [up EXCEPT !.down = TRUE]
noKey == [up EXCEPT !.keyHex = NoKey]
printed == [up EXCEPT !.api = FALSE]
unread == [up EXCEPT !.dseq = [value |-> 1, spelling |-> "unreadable"]]

MCInvocation ==
  {up, overridden, back, twoKeys, asOther, tooLong, bothFlags, noKey, printed,
   unread}

MCEnvelope ==
  {Signed(x[1], x[2]) :
     x \in {y \in MCInvocation \X MCInstant : Signable(y[1], y[2])}}
=============================================================================
