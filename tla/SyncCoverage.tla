---------------------------- MODULE SyncCoverage ----------------------------
(***************************************************************************)
(* What a Sync that returns no error has covered.  atStart is an auxiliary *)
(* variable: the chain as it was when the current Sync began.  It          *)
(* influences no step of the poller.                                       *)
(***************************************************************************)
EXTENDS LeasePoller

VARIABLE atStart

CoverageInit == PollerAloneInit /\ atStart = chain

CoverageNext ==
  \/ BeginSync /\ atStart' = chain
  \/ PollerAloneNext /\ ~BeginSync /\ UNCHANGED atStart

CoverageSpec ==
  /\ CoverageInit /\ [][CoverageNext]_<<pollerAloneVars, atStart>>
  /\ WF_pollerAloneVars(Tick) /\ WF_pollerAloneVars(SyncStep)

\* If the chain did not move while Sync was reading it, then when Sync
\* completes the cache is an exact copy of the provider's leases: paging by
\* number over three filtered listings leaves nothing out.
QuietSyncIsExact ==
  SyncComplete /\ chain = atStart =>
    \A l \in LeaseId : IsScoped(l) /\ OnChain(l) =>
      [key |-> RowKey(l), state |-> chain[l]] \in leases

\* "Sync pulls every page of leases (across all states) for the configured
\* provider and upserts them" (internal/leases/poller.go:90): every lease
\* there was when Sync began is in the cache when it completes.
SyncPullsEveryLease ==
  SyncComplete =>
    \A l \in LeaseId : IsScoped(l) /\ atStart[l] # "none" =>
      LeaseExists(RowKey(l))
=============================================================================
