----------------------------- MODULE LeasePoller -----------------------------
(***************************************************************************)
(* internal/leases: the poller copies the provider's leases from the chain *)
(* into the lease table.  A Sync walks the lease states one after another  *)
(* and, for each, the pages of the listing, upserting the leases of a page *)
(* one by one; the chain moves on between any two of these steps.  The     *)
(* first error ends the Sync, and the next tick starts another from the    *)
(* beginning.                                                              *)
(***************************************************************************)
EXTENDS Chain, LeaseTable, Faults, Sequences

CONSTANT PageSize   \* Config.PageSize

ASSUME LeasePollerAssumption == PageSize \in Nat \ {0}

VARIABLES
  pollPc,     \* "waiting" in Run's select, "query" or "upsert" in Sync
  stateIx,    \* which of leaseStates Sync is at
  page,       \* the page number
  batch,      \* leases of resp.Leases still to be upserted
  full,       \* len(resp.Leases) reached PageSize
  tick        \* the ticker's channel, which holds one tick, is not empty

syncVars == <<pollPc, stateIx, page, batch, full>>
pollVars == <<syncVars, tick>>

\* Variant: the last state is forgotten.
leaseStates_forgotten == <<"active", "closed">>

leaseStates == <<"active", "closed", "insufficient_funds">>

PollerTypeOK ==
  /\ pollPc \in {"waiting", "query", "upsert"}
  /\ stateIx \in DOMAIN leaseStates
  /\ page \in Nat \ {0}
  /\ batch \subseteq LeaseId
  /\ full \in BOOLEAN
  /\ tick \in BOOLEAN

\* Run syncs at once, before it first waits for the ticker.
PollerInit ==
  /\ pollPc = "query" /\ stateIx = 1 /\ page = 1
  /\ batch = {} /\ full = FALSE
  /\ tick = FALSE

\* The row in which Sync stores a lease.
RowKey(l) ==
  [owner |-> l.owner, dseq |-> Canonical(l.dseq), goseq |-> l.goseq,
   provider |-> l.provider]

Tick ==
  /\ ~tick
  /\ tick' = TRUE
  /\ UNCHANGED <<chain, leases, syncVars, faults>>

BeginSync ==
  /\ pollPc = "waiting" /\ tick
  /\ tick' = FALSE
  /\ pollPc' = "query"
  /\ UNCHANGED <<chain, leases, stateIx, page, batch, full, faults>>

\* Variant: the listing is not filtered by state.
QueryPage_anyState ==
  /\ pollPc = "query"
  /\ batch' = UNION {Page(s, page, PageSize) : s \in OpenStates}
  /\ full' = (Cardinality(batch') >= PageSize)
  /\ pollPc' = "upsert"
  /\ UNCHANGED <<chain, leases, stateIx, page, tick, faults>>

\* Variant: a page of exactly PageSize leases counts as the last.
QueryPage_offByOne ==
  /\ pollPc = "query"
  /\ batch' = Page(leaseStates[stateIx], page, PageSize)
  /\ full' = (Cardinality(batch') > PageSize)
  /\ pollPc' = "upsert"
  /\ UNCHANGED <<chain, leases, stateIx, page, tick, faults>>

QueryPage ==
  /\ pollPc = "query"
  /\ batch' = Page(leaseStates[stateIx], page, PageSize)
  /\ full' = (Cardinality(batch') >= PageSize)
  /\ pollPc' = "upsert"
  /\ UNCHANGED <<chain, leases, stateIx, page, tick, faults>>

\* The leases of a page are upserted in the order of the listing, with the
\* state they were listed under.
IsNext(l) == l \in batch /\ \A m \in batch : Rank[l] <= Rank[m]

StoreLease(l) == UpsertLease(RowKey(l), leaseStates[stateIx])

UpsertNext ==
  /\ pollPc = "upsert"
  /\ \E l \in LeaseId : IsNext(l) /\ StoreLease(l) /\ batch' = batch \ {l}
  /\ UNCHANGED <<chain, pollPc, stateIx, page, full, tick, faults>>

\* Variant: the loop variable is left one past its last value.
SyncReturns_pastEnd ==
  /\ pollPc' = "waiting"
  /\ stateIx' = stateIx + 1 /\ page' = 1 /\ batch' = {} /\ full' = FALSE

\* Sync returns to Run and its locals are gone.
SyncReturns ==
  /\ pollPc' = "waiting"
  /\ stateIx' = 1 /\ page' = 1 /\ batch' = {} /\ full' = FALSE

\* All of the page is stored: on to the next page after a full one, to the
\* next state after a short one; the last state completes the Sync.
NextPage ==
  /\ pollPc = "upsert" /\ batch = {} /\ full
  /\ page' = page + 1 /\ pollPc' = "query"
  /\ UNCHANGED <<chain, leases, stateIx, batch, full, tick, faults>>

\* Variant: the loop variable moves on under a page that is still being stored,
\* as if storing it had been left to another goroutine.
NextState_early ==
  /\ pollPc = "upsert"
  /\ stateIx < Len(leaseStates)
  /\ stateIx' = stateIx + 1 /\ page' = 1
  /\ UNCHANGED <<chain, leases, pollPc, batch, full, tick, faults>>

NextState ==
  /\ pollPc = "upsert" /\ batch = {} /\ ~full
  /\ stateIx < Len(leaseStates)
  /\ stateIx' = stateIx + 1 /\ page' = 1 /\ pollPc' = "query"
  /\ UNCHANGED <<chain, leases, batch, full, tick, faults>>

SyncComplete ==
  /\ pollPc = "upsert" /\ batch = {} /\ ~full
  /\ stateIx = Len(leaseStates)

EndSync ==
  /\ SyncComplete
  /\ SyncReturns
  /\ UNCHANGED <<chain, leases, tick, faults>>

\* The command or its decoding, or an upsert, returns an error, and so does
\* Sync: what was stored stays, the rest of the listing is not read.  An upsert
\* that returns an error may have been committed all the same.
SyncFails ==
  /\ Fault
  /\ \/ pollPc = "query" /\ UNCHANGED leases
     \/ pollPc = "upsert" /\ batch # {} /\ UNCHANGED leases
     \/ pollPc = "upsert" /\ \E l \in LeaseId : IsNext(l) /\ StoreLease(l)
  /\ SyncReturns
  /\ UNCHANGED <<chain, tick>>

SyncStep ==
  BeginSync \/ QueryPage \/ UpsertNext \/ NextPage \/ NextState \/ EndSync

PollerNext == Tick \/ SyncStep \/ SyncFails

-----------------------------------------------------------------------------
\* The poller and the chain alone.

PollerAloneInit == ChainInit /\ LeaseTableInit /\ FaultsInit /\ PollerInit

ChainMoves == ChainNext /\ UNCHANGED <<leases, faults, pollVars>>

PollerAloneNext == ChainMoves \/ PollerNext

pollerAloneVars == <<chain, leases, faults, pollVars>>

\* The ticker keeps ticking and the poller's goroutine keeps running; nothing
\* obliges the chain to move or a call to fail.
PollerAlone ==
  /\ PollerAloneInit /\ [][PollerAloneNext]_pollerAloneVars
  /\ WF_pollerAloneVars(Tick) /\ WF_pollerAloneVars(SyncStep)

-----------------------------------------------------------------------------
\* Properties.

\* Every variable of the poller, the chain and the lease table has its type;
\* in particular a row never carries a state that no writer stores.
PollerAloneTypeOK ==
  ChainTypeOK /\ LeaseTableTypeOK /\ FaultsTypeOK /\ PollerTypeOK

IsScoped(l) == l.provider = Provider

Ended == {"closed", "insufficient_funds"}

\* A row with a state of the chain is the row of a lease of this provider
\* that has come at least that far: the cache may lag behind the chain, also
\* while a page read earlier is still being stored, but is never ahead of it.
CacheNeverAhead ==
  \A row \in leases : row.state \in OpenStates =>
    \E l \in LeaseId :
      /\ IsScoped(l) /\ RowKey(l) = row.key
      /\ chain[l] \in OpenStates
      /\ row.state \in Ended => chain[l] = row.state

\* Once the cache shows a lease as ended, no later upsert of the poller, though
\* it may carry a page read before the lease ended, shows it as active again.
EndedRowsStayEnded ==
  [][\A row \in leases : row.state \in Ended => row \in leases']_leases

\* In the end the row of every opened lease of this provider shows the state
\* the chain left it in, whatever failed or moved on the way there.
CacheConverges ==
  \A l \in LeaseId : IsScoped(l) =>
    <>[](OnChain(l) => [key |-> RowKey(l), state |-> chain[l]] \in leases)
=============================================================================
