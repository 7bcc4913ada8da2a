-------------------------------- MODULE Chain --------------------------------
(***************************************************************************)
(* The Akash chain as the service sees it through the provider-services    *)
(* command (external).  A lease is opened, and ends as closed or as        *)
(* insufficient_funds; it is never removed.  Queries are answered from the *)
(* current state, page by page in a fixed order of the leases.             *)
(***************************************************************************)
EXTENDS Vocabulary, FiniteSets

CONSTANTS
  LeaseId,    \* the leases that may ever be opened
  Rank        \* the place of each lease in the order queries list them

ASSUME ChainAssumption ==
  /\ IsFiniteSet(LeaseId)
  /\ LeaseId \subseteq
       [owner: Address, dseq: DSeq, goseq: GOSeq, provider: Address]
  /\ Rank \in [LeaseId -> Nat]
  /\ \A l, m \in LeaseId : Rank[l] = Rank[m] => l = m

VARIABLE chain   \* the state of each lease

OpenStates == {"active", "closed", "insufficient_funds"}

ChainTypeOK == chain \in [LeaseId -> OpenStates \cup {"none"}]

ChainInit == chain = [l \in LeaseId |-> "none"]

OnChain(l) == chain[l] # "none"

OpenLease(l) ==
  /\ chain[l] = "none"
  /\ chain' = [chain EXCEPT ![l] = "active"]

EndLease(l) ==
  /\ chain[l] = "active"
  /\ \E end \in {"closed", "insufficient_funds"} :
       chain' = [chain EXCEPT ![l] = end]

ChainNext == \E l \in LeaseId : OpenLease(l) \/ EndLease(l)

-----------------------------------------------------------------------------
\* `query market lease list --provider P --state s`: all matching leases, and
\* the ones on a given page of it.

Matching(state) ==
  {l \in LeaseId : l.provider = Provider /\ chain[l] = state}

Page(state, page, limit) ==
  {l \in Matching(state) :
     LET before == Cardinality({m \in Matching(state) : Rank[m] < Rank[l]})
     IN  (page - 1) * limit <= before /\ before < page * limit}

\* `query market lease list --owner .. --dseq .. --gseq .. --oseq ..
\* --provider P`: the command reads dseq as a number.
SingleLease(owner, dseq, goseq) ==
  {l \in LeaseId :
     /\ OnChain(l) /\ l.provider = Provider
     /\ l.owner = owner /\ l.goseq = goseq
     /\ Readable(dseq) /\ l.dseq = dseq.value}
=============================================================================
