------------------------------- MODULE Rollout -------------------------------
(***************************************************************************)
(* A new image is rolled out (deploy/deployment.yaml, which leaves the     *)
(* strategy at its default): the pod of the new one is started before that *)
(* of the old one is stopped, so for a while two pollers write one lease   *)
(* table, and a page that one of them has read is stored after what the    *)
(* other has written since.                                                *)
(***************************************************************************)
EXTENDS LeasePoller

VARIABLES
  pods,   \* which of the two pods runs: "old", "both" or "new"
  newPc, newStateIx, newPage, newBatch, newFull, newTick,  \* the new poller
  calm    \* auxiliary: the new poller has begun a Sync on its own

newVars == <<newPc, newStateIx, newPage, newBatch, newFull, newTick>>
rolloutVars == <<pollerAloneVars, pods, newVars, calm>>

New ==
  INSTANCE LeasePoller WITH
    pollPc <- newPc, stateIx <- newStateIx, page <- newPage,
    batch <- newBatch, full <- newFull, tick <- newTick

RolloutTypeOK ==
  /\ PollerAloneTypeOK /\ New!PollerTypeOK /\ pods \in {"old", "both", "new"}
  /\ calm \in BOOLEAN

RolloutInit == PollerAloneInit /\ New!PollerInit /\ pods = "old" /\ calm = FALSE

OldStep(step) ==
  pods \in {"old", "both"} /\ step /\ UNCHANGED <<pods, newVars, calm>>

NewStep(step) ==
  /\ pods \in {"both", "new"} /\ step /\ UNCHANGED <<pods, pollVars>>
  /\ calm' = (calm \/ (pods = "new" /\ New!BeginSync))

Surge ==
  pods = "old" /\ pods' = "both" /\ UNCHANGED <<pollerAloneVars, newVars, calm>>

\* The old pod ends wherever it is; an upsert it had begun may still be carried
\* out, as if just before the end.
Retire ==
  pods = "both" /\ pods' = "new" /\ UNCHANGED <<pollerAloneVars, newVars, calm>>

RolloutNext ==
  \/ Surge \/ Retire \/ OldStep(PollerNext) \/ NewStep(New!PollerNext)
  \/ ChainMoves /\ UNCHANGED <<pods, newVars, calm>>

\* Nothing obliges the rollout to begin or to end.
RolloutSpec ==
  /\ RolloutInit /\ [][RolloutNext]_rolloutVars
  /\ WF_rolloutVars(OldStep(Tick)) /\ WF_rolloutVars(OldStep(SyncStep))
  /\ WF_rolloutVars(NewStep(New!Tick)) /\ WF_rolloutVars(NewStep(New!SyncStep))

-----------------------------------------------------------------------------
\* Properties.  CacheNeverAhead and CacheConverges hold of two pollers as they
\* do of one: no row is ahead of the chain, and a row that one of them wrote
\* from an old page is put right.

\* A row of an ended lease can be shown as active again by one poller from a page
\* that the other has overtaken (EndedRowsStayEnded fails then), but only in
\* the overlap: not before it, and not once it is over and the new poller has
\* begun another Sync.
RowsReopenOnlyInOverlap ==
  [][pods = "old" \/ calm =>
       \A row \in leases : row.state \in Ended => row \in leases']_rolloutVars
=============================================================================
