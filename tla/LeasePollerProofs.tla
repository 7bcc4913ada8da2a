-------------------------- MODULE LeasePollerProofs --------------------------
(***************************************************************************)
(* Theorems about the poller: types, the cache is never ahead of the chain *)
(* and ended rows stay ended.  The lemmas about PollerNext and ChainNext   *)
(* speak of steps and not of a specification, so that the proofs about the *)
(* composed service use them as well.                                      *)
(***************************************************************************)
EXTENDS SyncCoverage, CountingTheorems

USE DEF OpenStates, Ended

-----------------------------------------------------------------------------
\* Facts about the operators.

\* Leases are the records that the assumption says they are.
LEMMA LeaseShape ==
  ASSUME NEW l \in LeaseId
  PROVE  /\ l = [owner |-> l.owner, dseq |-> l.dseq, goseq |-> l.goseq,
                 provider |-> l.provider]
         /\ l.owner \in Address /\ l.dseq \in DSeq /\ l.goseq \in GOSeq
         /\ l.provider \in Address
BY ChainAssumption

\* The row of a lease has a key of the right type.
LEMMA RowKeyType ==
  ASSUME NEW l \in LeaseId
  PROVE  RowKey(l) \in LeaseKey
BY LeaseShape DEF RowKey, LeaseKey, Text, Spelling, Canonical

\* Two leases never share a row.
LEMMA RowKeyInjective ==
  ASSUME NEW l \in LeaseId, NEW m \in LeaseId, RowKey(l) = RowKey(m)
  PROVE  l = m
<1>1. /\ RowKey(l).owner = l.owner /\ RowKey(m).owner = m.owner
      /\ RowKey(l).goseq = l.goseq /\ RowKey(m).goseq = m.goseq
      /\ RowKey(l).provider = l.provider /\ RowKey(m).provider = m.provider
      /\ RowKey(l).dseq.value = l.dseq /\ RowKey(m).dseq.value = m.dseq
  BY DEF RowKey, Canonical
<1> QED
  BY <1>1, LeaseShape

\* Sync walks three states.
LEMMA StateIndices == DOMAIN leaseStates = 1..3 /\ Len(leaseStates) = 3
BY DEF leaseStates

\* A page of a listing holds leases of this provider in the listed state.
LEMMA PageFacts ==
  ASSUME NEW s, NEW p, NEW n, NEW l \in Page(s, p, n)
  PROVE  l \in LeaseId /\ IsScoped(l) /\ chain[l] = s
BY DEF Page, Matching, IsScoped

-----------------------------------------------------------------------------
\* Types.

\* Storing a lease under a state of the table keeps the table's type.
LEMMA UpsertKeepsType ==
  ASSUME LeaseTableTypeOK, NEW k \in LeaseKey, NEW s \in LeaseState,
         UpsertLease(k, s)
  PROVE  LeaseTableTypeOK'
BY DEF LeaseTableTypeOK, UpsertLease

\* A move of the chain gives a lease another state of the chain.
LEMMA ChainKeepsType == ChainTypeOK /\ ChainNext => ChainTypeOK'
BY DEF ChainTypeOK, ChainNext, OpenLease, EndLease

\* What the poller stores is a row of the table.
LEMMA StoreLeaseKeepsType ==
  ASSUME LeaseTableTypeOK, PollerTypeOK, NEW l \in LeaseId, StoreLease(l)
  PROVE  LeaseTableTypeOK'
<1>1. leaseStates[stateIx] \in LeaseState
  BY DEF PollerTypeOK, leaseStates, LeaseState
<1> QED
  BY <1>1, RowKeyType, UpsertKeepsType DEF StoreLease

\* Back in Run, the variables of Sync have their initial values.
LEMMA ReturnKeepsType ==
  ASSUME PollerTypeOK, SyncReturns, tick' = tick
  PROVE  PollerTypeOK'
<1>1. pollPc' \in {"waiting", "query", "upsert"}
  BY DEF SyncReturns
<1>2. stateIx' \in DOMAIN leaseStates
  BY StateIndices DEF SyncReturns
<1>3. page' \in Nat \ {0}
  BY DEF SyncReturns
<1>4. batch' \subseteq LeaseId
  BY DEF SyncReturns
<1>5. full' \in BOOLEAN
  BY DEF SyncReturns
<1>6. tick' \in BOOLEAN
  BY DEF PollerTypeOK
<1> QED
  BY <1>1, <1>2, <1>3, <1>4, <1>5, <1>6 DEF PollerTypeOK

\* The types survive every step of the poller; one case for each action.
LEMMA PollerKeepsTypes ==
  PollerAloneTypeOK /\ PollerNext => PollerAloneTypeOK'
<1> SUFFICES ASSUME PollerAloneTypeOK, PollerNext
             PROVE  PollerAloneTypeOK'
  OBVIOUS
<1> USE DEF PollerAloneTypeOK, ChainTypeOK, FaultsTypeOK
<1>0. ASSUME UNCHANGED leases PROVE LeaseTableTypeOK'
  BY <1>0 DEF LeaseTableTypeOK
<1>1. CASE Tick
  BY <1>0, <1>1 DEF Tick, syncVars, PollerTypeOK
<1>2. CASE BeginSync
  BY <1>0, <1>2 DEF BeginSync, PollerTypeOK
<1>3. CASE QueryPage
  <2>1. batch' \subseteq LeaseId
    BY <1>3, PageFacts DEF QueryPage
  <2> QED
    BY <1>0, <1>3, <2>1 DEF QueryPage, PollerTypeOK
<1>4. CASE UpsertNext
  <2>1. PICK l \in LeaseId : IsNext(l) /\ StoreLease(l) /\ batch' = batch \ {l}
    BY <1>4 DEF UpsertNext
  <2>2. LeaseTableTypeOK'
    BY <2>1, StoreLeaseKeepsType
  <2> QED
    BY <1>4, <2>1, <2>2 DEF UpsertNext, PollerTypeOK
<1>5. CASE NextPage
  BY <1>0, <1>5 DEF NextPage, PollerTypeOK
<1>6. CASE NextState
  BY <1>0, <1>6, StateIndices DEF NextState, PollerTypeOK
<1>7. CASE EndSync
  <2>1. PollerTypeOK'
    BY <1>7, ReturnKeepsType DEF EndSync
  <2> QED
    BY <1>0, <1>7, <2>1 DEF EndSync
<1>8. CASE SyncFails
  <2>1. LeaseTableTypeOK'
    BY <1>0, <1>8, StoreLeaseKeepsType DEF SyncFails
  <2>2. faults' \in 0..MaxFaults
    BY <1>8, FaultsAssumption DEF SyncFails, Fault
  <2>3. PollerTypeOK'
    BY <1>8, ReturnKeepsType DEF SyncFails
  <2> QED
    BY <1>8, <2>1, <2>2, <2>3 DEF SyncFails
<1> QED
  BY <1>1, <1>2, <1>3, <1>4, <1>5, <1>6, <1>7, <1>8 DEF PollerNext, SyncStep

\* The four parts of the initial state have their types.
LEMMA InitTypes ==
  /\ ChainInit => ChainTypeOK
  /\ LeaseTableInit => LeaseTableTypeOK
  /\ FaultsInit => FaultsTypeOK
  /\ PollerInit => PollerTypeOK
<1>1. ChainInit => ChainTypeOK
  BY DEF ChainInit, ChainTypeOK
<1>2. LeaseTableInit => LeaseTableTypeOK
  BY DEF LeaseTableInit, LeaseTableTypeOK
<1>3. FaultsInit => FaultsTypeOK
  BY FaultsAssumption DEF FaultsInit, FaultsTypeOK
<1>4. PollerInit => PollerTypeOK
  <2> SUFFICES ASSUME PollerInit PROVE PollerTypeOK
    OBVIOUS
  <2>1. full \in BOOLEAN /\ tick \in BOOLEAN
    BY DEF PollerInit
  <2>2. /\ pollPc \in {"waiting", "query", "upsert"} /\ batch \subseteq LeaseId
        /\ stateIx \in DOMAIN leaseStates /\ page \in Nat \ {0}
    BY StateIndices DEF PollerInit
  <2> QED
    BY <2>1, <2>2 DEF PollerTypeOK
<1> QED
  BY <1>1, <1>2, <1>3, <1>4

\* Every variable of the poller, the chain and the lease table keeps its type.
THEOREM PollerTypeCorrect == PollerAlone => []PollerAloneTypeOK
<1>1. PollerAloneInit => PollerAloneTypeOK
  BY InitTypes DEF PollerAloneInit, PollerAloneTypeOK
<1>2. PollerAloneTypeOK /\ [PollerAloneNext]_pollerAloneVars
        => PollerAloneTypeOK'
  <2> SUFFICES ASSUME PollerAloneTypeOK, [PollerAloneNext]_pollerAloneVars
               PROVE  PollerAloneTypeOK'
    OBVIOUS
  <2>1. CASE ChainMoves
    BY <2>1, ChainKeepsType
    DEF ChainMoves, PollerAloneTypeOK, LeaseTableTypeOK, FaultsTypeOK,
        PollerTypeOK, pollVars, syncVars
  <2>2. CASE PollerNext
    BY <2>2, PollerKeepsTypes
  <2>3. CASE UNCHANGED pollerAloneVars
    BY <2>3
    DEF pollerAloneVars, PollerAloneTypeOK, ChainTypeOK, LeaseTableTypeOK,
        FaultsTypeOK, PollerTypeOK, pollVars, syncVars
  <2> QED
    BY <2>1, <2>2, <2>3 DEF PollerAloneNext
<1> QED
  BY <1>1, <1>2, PTL DEF PollerAlone

-----------------------------------------------------------------------------
\* The cache is never ahead of the chain.  By itself this is not inductive: a
\* page that was read must still be true of the chain while it is being stored.

Reached(l, s) == chain[l] \in OpenStates /\ (s \in Ended => chain[l] = s)

BatchSound ==
  \A l \in batch : IsScoped(l) /\ Reached(l, leaseStates[stateIx])

\* The chain never takes back what it has said of a lease.
LEMMA ReachedForGood ==
  ASSUME ChainTypeOK, ChainNext, NEW l \in LeaseId, NEW s, Reached(l, s)
  PROVE  Reached(l, s)'
<1>1. CASE \E m \in LeaseId : OpenLease(m)
  BY <1>1 DEF OpenLease, Reached, ChainTypeOK
<1>2. CASE \E m \in LeaseId : EndLease(m)
  BY <1>2 DEF EndLease, Reached, ChainTypeOK
<1> QED
  BY <1>1, <1>2 DEF ChainNext

\* While the chain moves, rows and the page in hand stay true of it.
LEMMA ChainKeepsCache ==
  ASSUME ChainTypeOK, PollerTypeOK, CacheNeverAhead, BatchSound,
         ChainNext, UNCHANGED <<leases, batch, stateIx>>
  PROVE  CacheNeverAhead' /\ BatchSound'
<1>1. CacheNeverAhead'
  <2> SUFFICES ASSUME NEW row \in leases, row.state \in OpenStates
               PROVE  \E l \in LeaseId :
                        IsScoped(l) /\ RowKey(l) = row.key
                        /\ Reached(l, row.state)'
    BY DEF CacheNeverAhead, Reached
  <2>1. PICK l \in LeaseId : /\ IsScoped(l) /\ RowKey(l) = row.key
                             /\ Reached(l, row.state)
    BY DEF CacheNeverAhead, Reached
  <2> QED
    BY <2>1, ReachedForGood
<1>2. BatchSound'
  <2> SUFFICES ASSUME NEW l \in batch
               PROVE  IsScoped(l) /\ Reached(l, leaseStates[stateIx])'
    BY DEF BatchSound, IsScoped
  <2>1. l \in LeaseId /\ IsScoped(l) /\ Reached(l, leaseStates[stateIx])
    BY DEF BatchSound, PollerTypeOK
  <2>2. Reached(l, leaseStates[stateIx])'
    BY <2>1, ReachedForGood DEF Reached
  <2> QED
    BY <2>1, <2>2
<1> QED
  BY <1>1, <1>2

\* Storing a lease of a sound batch.
LEMMA StoreKeepsCache ==
  ASSUME PollerTypeOK, CacheNeverAhead, BatchSound,
         NEW l \in batch, StoreLease(l), chain' = chain
  PROVE  CacheNeverAhead'
<1> DEFINE s == leaseStates[stateIx]
<1>1. l \in LeaseId /\ IsScoped(l) /\ Reached(l, s)
  BY DEF BatchSound, PollerTypeOK
<1> SUFFICES ASSUME NEW row \in leases', row.state \in OpenStates
             PROVE  \E m \in LeaseId :
                      IsScoped(m) /\ RowKey(m) = row.key
                      /\ Reached(m, row.state)
  BY DEF CacheNeverAhead, Reached
<1>2. CASE row \in leases
  BY <1>2 DEF CacheNeverAhead, Reached
<1>3. CASE row = [key |-> RowKey(l), state |-> s]
  BY <1>1, <1>3
<1> QED
  BY <1>2, <1>3 DEF StoreLease, UpsertLease

\* So they do in every step of the poller.
LEMMA PollerKeepsCache ==
  ASSUME PollerAloneTypeOK, CacheNeverAhead, BatchSound, PollerNext
  PROVE  CacheNeverAhead' /\ BatchSound'
<1> USE DEF PollerAloneTypeOK
<1>0. ASSUME UNCHANGED <<chain, leases>> PROVE CacheNeverAhead'
  BY <1>0 DEF CacheNeverAhead
<1>1. ASSUME UNCHANGED <<chain, batch, stateIx>> PROVE BatchSound'
  BY <1>1 DEF BatchSound, IsScoped, Reached
<1>2. ASSUME batch' = {} PROVE BatchSound'
  BY <1>2 DEF BatchSound
<1>3. CASE Tick
  BY <1>0, <1>1, <1>3 DEF Tick, syncVars
<1>4. CASE BeginSync
  BY <1>0, <1>1, <1>4 DEF BeginSync
<1>5. CASE QueryPage
  <2>1. leaseStates[stateIx] \in OpenStates
    BY DEF PollerTypeOK, leaseStates
  <2>2. \A l \in batch' : IsScoped(l) /\ Reached(l, leaseStates[stateIx])
    BY <1>5, <2>1, PageFacts DEF QueryPage, Reached
  <2>3. BatchSound'
    BY <1>5, <2>2 DEF QueryPage, BatchSound, IsScoped, Reached
  <2> QED
    BY <1>0, <1>5, <2>3 DEF QueryPage
<1>6. CASE UpsertNext
  <2>1. PICK l \in batch : StoreLease(l) /\ batch' = batch \ {l}
    BY <1>6 DEF UpsertNext, IsNext
  <2>2. CacheNeverAhead'
    BY <1>6, <2>1, StoreKeepsCache DEF UpsertNext
  <2>3. BatchSound'
    BY <1>6, <2>1 DEF UpsertNext, BatchSound, IsScoped, Reached
  <2> QED
    BY <2>2, <2>3
<1>7. CASE NextPage
  BY <1>0, <1>1, <1>7 DEF NextPage
<1>8. CASE NextState
  BY <1>0, <1>2, <1>8 DEF NextState
<1>9. CASE EndSync
  BY <1>0, <1>2, <1>9 DEF EndSync, SyncReturns
<1>10. CASE SyncFails
  <2>1. BatchSound'
    BY <1>2, <1>10 DEF SyncFails, SyncReturns
  <2>2. CacheNeverAhead'
    BY <1>0, <1>10, StoreKeepsCache DEF SyncFails, IsNext
  <2> QED
    BY <2>1, <2>2
<1> QED
  BY <1>3, <1>4, <1>5, <1>6, <1>7, <1>8, <1>9, <1>10 DEF PollerNext, SyncStep

\* The poller never puts a lease into the cache that the chain does not have,
\* nor shows one as ended that has not, however long a page is in the making.
THEOREM PollerNeverAhead == PollerAlone => []CacheNeverAhead
<1> DEFINE Inv == CacheNeverAhead /\ BatchSound
<1>1. PollerAloneInit => Inv
  BY DEF PollerAloneInit, LeaseTableInit, PollerInit, CacheNeverAhead, BatchSound
<1>2. PollerAloneTypeOK /\ Inv /\ [PollerAloneNext]_pollerAloneVars => Inv'
  <2> SUFFICES ASSUME PollerAloneTypeOK, Inv,
                      [PollerAloneNext]_pollerAloneVars
               PROVE  Inv'
    OBVIOUS
  <2>1. CASE ChainMoves
    BY <2>1, ChainKeepsCache
    DEF ChainMoves, pollVars, syncVars, PollerAloneTypeOK
  <2>2. CASE PollerNext
    BY <2>2, PollerKeepsCache
  <2>3. CASE UNCHANGED pollerAloneVars
    BY <2>3 DEF pollerAloneVars, pollVars, syncVars, CacheNeverAhead,
                BatchSound, Reached, IsScoped
  <2> QED
    BY <2>1, <2>2, <2>3 DEF PollerAloneNext
<1> QED
  BY <1>1, <1>2, PollerTypeCorrect, PTL DEF PollerAlone

-----------------------------------------------------------------------------
\* Ended rows stay ended.  A page of active leases may be older than their
\* end, so besides the invariants above this needs that no row of a lease in
\* such a page has ended since; only the poller itself writes such rows.

NoStaleReopen ==
  leaseStates[stateIx] = "active" =>
    \A l \in batch : \A row \in leases :
      row.key = RowKey(l) => row.state \notin Ended

\* No step of the poller puts an ended row under a page of active leases.
LEMMA PollerKeepsOrder ==
  ASSUME PollerAloneTypeOK, CacheNeverAhead, NoStaleReopen, PollerNext
  PROVE  NoStaleReopen'
<1> USE DEF PollerAloneTypeOK
<1>1. ASSUME UNCHANGED <<leases, batch, stateIx>> PROVE NoStaleReopen'
  BY <1>1 DEF NoStaleReopen, RowKey, Canonical
<1>2. ASSUME batch' = {} PROVE NoStaleReopen'
  BY <1>2 DEF NoStaleReopen
<1>3. CASE Tick
  BY <1>1, <1>3 DEF Tick, syncVars
<1>4. CASE BeginSync
  BY <1>1, <1>4 DEF BeginSync
<1>5. CASE QueryPage
  <2> SUFFICES ASSUME leaseStates[stateIx] = "active",
                      NEW l \in batch', NEW row \in leases,
                      row.key = RowKey(l), row.state \in Ended
               PROVE  FALSE
    BY <1>5 DEF QueryPage, NoStaleReopen, RowKey, Canonical
  <2>1. l \in LeaseId /\ chain[l] = "active"
    BY <1>5, PageFacts DEF QueryPage
  <2>2. PICK m \in LeaseId : RowKey(m) = row.key /\ chain[m] = row.state
    BY DEF CacheNeverAhead
  <2>3. l = m
    BY <2>1, <2>2, RowKeyInjective
  <2> QED
    BY <2>1, <2>2, <2>3
<1>6. CASE UpsertNext
  <2>1. PICK m \in batch : StoreLease(m) /\ batch' = batch \ {m}
    BY <1>6 DEF UpsertNext, IsNext
  <2> SUFFICES ASSUME leaseStates[stateIx] = "active",
                      NEW l \in batch, NEW row \in leases',
                      row.key = RowKey(l), row.state \in Ended
               PROVE  FALSE
    BY <1>6, <2>1 DEF UpsertNext, NoStaleReopen, RowKey, Canonical
  <2>2. row \in leases
    BY <2>1 DEF StoreLease, UpsertLease
  <2> QED
    BY <2>2 DEF NoStaleReopen
<1>7. CASE NextPage
  BY <1>2, <1>7 DEF NextPage
<1>8. CASE NextState
  BY <1>2, <1>8 DEF NextState
<1>9. CASE EndSync
  BY <1>2, <1>9 DEF EndSync, SyncReturns
<1>10. CASE SyncFails
  BY <1>2, <1>10 DEF SyncFails, SyncReturns
<1> QED
  BY <1>3, <1>4, <1>5, <1>6, <1>7, <1>8, <1>9, <1>10 DEF PollerNext, SyncStep

\* What storing one lease does to an ended row.
LEMMA StoreKeepsEnded ==
  ASSUME PollerTypeOK, CacheNeverAhead, BatchSound, NoStaleReopen,
         NEW l \in batch, StoreLease(l),
         NEW row \in leases, row.state \in Ended,
         LeaseTableTypeOK
  PROVE  row \in leases'
<1> DEFINE s == leaseStates[stateIx]
<1>1. CASE row.key # RowKey(l)
  BY <1>1 DEF StoreLease, UpsertLease
<1>2. CASE row.key = RowKey(l)
  <2>1. s \in Ended
    <3>1. s \in OpenStates
      BY DEF PollerTypeOK, leaseStates
    <3>2. s # "active"
      BY <1>2 DEF NoStaleReopen
    <3> QED
      BY <3>1, <3>2
  <2>2. l \in LeaseId /\ chain[l] = s
    BY <2>1 DEF BatchSound, Reached, PollerTypeOK
  <2>3. PICK m \in LeaseId : RowKey(m) = row.key /\ chain[m] = row.state
    BY DEF CacheNeverAhead
  <2>4. row = [key |-> RowKey(l), state |-> s]
    <3>1. l = m
      BY <1>2, <2>2, <2>3, RowKeyInjective
    <3> QED
      BY <1>2, <2>2, <2>3, <3>1 DEF LeaseTableTypeOK
  <2> QED
    BY <2>4 DEF StoreLease, UpsertLease
<1> QED
  BY <1>1, <1>2

\* So no step of a poller whose page is in order takes an ended row away.
LEMMA PollerKeepsEnded ==
  ASSUME PollerAloneTypeOK, CacheNeverAhead, BatchSound, NoStaleReopen,
         PollerNext, NEW row \in leases, row.state \in Ended
  PROVE  row \in leases'
<1>1. CASE leases' # leases
  <2>1. PICK l \in batch : StoreLease(l)
    <3>1. UpsertNext \/ SyncFails
      BY <1>1 DEF PollerNext, SyncStep, Tick, BeginSync, QueryPage, NextPage,
                  NextState, EndSync
    <3> QED
      BY <1>1, <3>1 DEF UpsertNext, SyncFails, IsNext
  <2> QED
    BY <2>1, StoreKeepsEnded DEF PollerAloneTypeOK
<1> QED
  BY <1>1

\* A row once seen as ended is never shown as active again: an older page that
\* is still being stored cannot overtake a newer one.
THEOREM PollerNeverReopens == PollerAlone => EndedRowsStayEnded
<1> DEFINE Inv == CacheNeverAhead /\ BatchSound /\ NoStaleReopen
           Step == \A row \in leases : row.state \in Ended => row \in leases'
<1>1. PollerAloneInit => Inv
  BY DEF PollerAloneInit, LeaseTableInit, PollerInit, CacheNeverAhead,
         BatchSound, NoStaleReopen
<1>2. PollerAloneTypeOK /\ Inv /\ [PollerAloneNext]_pollerAloneVars => Inv'
  <2> SUFFICES ASSUME PollerAloneTypeOK, Inv,
                      [PollerAloneNext]_pollerAloneVars
               PROVE  Inv'
    OBVIOUS
  <2>1. CASE ChainMoves
    <3>1. CacheNeverAhead' /\ BatchSound'
      BY <2>1, ChainKeepsCache
      DEF ChainMoves, pollVars, syncVars, PollerAloneTypeOK
    <3>2. NoStaleReopen'
      BY <2>1 DEF ChainMoves, pollVars, syncVars, NoStaleReopen, RowKey, Canonical
    <3> QED
      BY <3>1, <3>2
  <2>2. CASE PollerNext
    BY <2>2, PollerKeepsCache, PollerKeepsOrder
  <2>3. CASE UNCHANGED pollerAloneVars
    BY <2>3 DEF pollerAloneVars, pollVars, syncVars, CacheNeverAhead,
                BatchSound, NoStaleReopen, Reached, IsScoped, RowKey, Canonical
  <2> QED
    BY <2>1, <2>2, <2>3 DEF PollerAloneNext
<1>3. PollerAloneTypeOK /\ Inv /\ [PollerAloneNext]_pollerAloneVars
        => [Step]_leases
  <2> SUFFICES ASSUME PollerAloneTypeOK, Inv, PollerAloneNext,
                      leases' # leases,
                      NEW row \in leases, row.state \in Ended
               PROVE  row \in leases'
    BY DEF pollerAloneVars
  <2>1. PollerNext
    BY DEF PollerAloneNext, ChainMoves
  <2> QED
    BY <2>1, PollerKeepsEnded
<1> QED
  BY <1>1, <1>2, <1>3, PollerTypeCorrect, PTL
  DEF PollerAlone, EndedRowsStayEnded

-----------------------------------------------------------------------------
\* A Sync that nothing disturbs copies exactly.  The auxiliary atStart changes
\* nothing of what the poller does.

coverageVars == <<pollerAloneVars, atStart>>

\* With atStart the poller is the poller.
THEOREM CoverageIsThePoller == CoverageSpec => PollerAlone
<1>1. CoverageInit => PollerAloneInit
  BY DEF CoverageInit
<1>2. [CoverageNext]_coverageVars => [PollerAloneNext]_pollerAloneVars
  BY DEF CoverageNext, coverageVars, PollerAloneNext, PollerNext, SyncStep
<1> QED
  BY <1>1, <1>2, PTL DEF CoverageSpec, PollerAlone, coverageVars

\* The chain has come from atStart, and it never goes back: a chain that is as
\* it was when Sync began has not moved since.
Behind ==
  \A l \in LeaseId :
    /\ chain[l] = "none" => atStart[l] = "none"
    /\ chain[l] = "active" => atStart[l] \in {"none", "active"}

\* Between two Syncs the poller is at the beginning.
AtRest == pollPc = "waiting" => stateIx = 1 /\ page = 1

Stored(l) == [key |-> RowKey(l), state |-> chain[l]] \in leases

Here == Matching(leaseStates[stateIx])

\* What a Sync has stored when the chain has stood still: all leases of the
\* states before this one, those of the pages before this one, and those of
\* this page that are no longer in the batch.
Covered ==
  chain = atStart /\ pollPc # "waiting" =>
    /\ \A k \in 1..(stateIx - 1) : \A l \in Matching(leaseStates[k]) : Stored(l)
    /\ \A l \in Here : Place(Here, Rank, l) < (page - 1) * PageSize => Stored(l)
    /\ pollPc = "upsert" =>
         LET onPage == Page(leaseStates[stateIx], page, PageSize)
         IN  /\ batch \subseteq onPage
             /\ \A l \in onPage \ batch : Stored(l)
             /\ full <=> Cardinality(onPage) >= PageSize

CoverageInv == Behind /\ AtRest /\ Covered

\* The leases that match a state are finitely many, in an order without ties.
LEMMA MatchingIsOrdered ==
  ASSUME NEW s
  PROVE  /\ IsFiniteSet(Matching(s))
         /\ \A l \in Matching(s) : l \in LeaseId /\ Rank[l] \in Int
         /\ \A l, m \in Matching(s) : Rank[l] = Rank[m] => l = m
<1>1. Matching(s) \in SUBSET LeaseId
  BY DEF Matching
<1> QED
  BY <1>1, ChainAssumption, FS_Subset

\* A page of the listing, by the places of its leases.
LEMMA PageByPlaces ==
  ASSUME NEW s, NEW p
  PROVE  Page(s, p, PageSize) =
           PageOf(Matching(s), Rank, (p - 1) * PageSize, p * PageSize)
BY DEF Page, PageOf, Place

\* The bounds of a page, and those of the next one.
LEMMA PageBounds ==
  ASSUME NEW p \in Nat \ {0}
  PROVE  /\ (p - 1) * PageSize \in Nat /\ p * PageSize \in Nat
         /\ (p - 1) * PageSize <= p * PageSize
         /\ p * PageSize - (p - 1) * PageSize = PageSize
         /\ ((p + 1) - 1) * PageSize = p * PageSize
         /\ (1 - 1) * PageSize = 0
<1>1. PageSize \in Nat
  BY LeasePollerAssumption
<1>2. PICK k \in Nat : p = k + 1
  <2>1. p - 1 \in Nat /\ p = (p - 1) + 1
    OBVIOUS
  <2> QED
    BY <2>1
<1>3. /\ p - 1 = k /\ (p + 1) - 1 = p
      /\ p * PageSize = k * PageSize + PageSize /\ k * PageSize \in Nat
  BY <1>1, <1>2
<1> QED
  BY <1>1, <1>3

\* When all of a page is stored, so are all leases up to its end.
LEMMA StoredToTheEnd ==
  ASSUME PollerTypeOK, Covered, chain = atStart, pollPc = "upsert", batch = {},
         NEW l \in Here, Place(Here, Rank, l) < page * PageSize
  PROVE  Stored(l)
<1>1. Place(Here, Rank, l) \in Nat
  BY MatchingIsOrdered, PlacesAreTaken, FS_CardinalityType DEF Here
<1>2. CASE Place(Here, Rank, l) < (page - 1) * PageSize
  BY <1>2 DEF Covered
<1>3. CASE ~(Place(Here, Rank, l) < (page - 1) * PageSize)
  <2>1. page \in Nat \ {0}
    BY DEF PollerTypeOK
  <2>2. (page - 1) * PageSize <= Place(Here, Rank, l)
    BY <1>1, <1>3, <2>1, PageBounds
  <2>3. l \in Page(leaseStates[stateIx], page, PageSize)
    BY <2>2, PageByPlaces DEF PageOf, Here
  <2> QED
    BY <2>3 DEF Covered
<1> QED
  BY <1>2, <1>3

\* After a short page there is nothing left of its state.
LEMMA ShortPageCompletes ==
  ASSUME PollerTypeOK, Covered, chain = atStart, pollPc = "upsert", batch = {},
         ~full, NEW l \in Here
  PROVE  Stored(l)
<1> DEFINE lo == (page - 1) * PageSize
           hi == page * PageSize
<1>1. page \in Nat \ {0}
  BY DEF PollerTypeOK
<1>2. /\ lo \in Nat /\ hi \in Nat /\ lo <= hi /\ hi - lo = PageSize
  BY <1>1, PageBounds
<1>3. ~(Cardinality(PageOf(Here, Rank, lo, hi)) >= PageSize)
  BY PageByPlaces DEF Covered, Here
<1> HIDE DEF lo, hi
<1>4. /\ IsFiniteSet(Here) /\ \A m \in Here : Rank[m] \in Int
      /\ \A m, n \in Here : Rank[m] = Rank[n] => m = n
  BY MatchingIsOrdered DEF Here
<1>5. Cardinality(PageOf(Here, Rank, lo, hi)) < hi - lo
  <2>1. Cardinality(PageOf(Here, Rank, lo, hi)) \in Nat
    BY <1>2, <1>4, PageIsBounded
  <2> QED
    BY <1>2, <1>3, <2>1, LeasePollerAssumption
<1>6. Place(Here, Rank, l) < hi
  BY <1>2, <1>4, <1>5, ShortPageIsLast
<1> QED
  BY <1>6, StoredToTheEnd DEF hi

\* At the beginning of a listing there is no page before.
LEMMA NoPlaceBelowZero ==
  ASSUME NEW s, NEW l \in Matching(s)
  PROVE  ~(Place(Matching(s), Rank, l) < (1 - 1) * PageSize)
<1>1. Place(Matching(s), Rank, l) \in Nat
  BY MatchingIsOrdered, PlacesAreTaken, FS_CardinalityType
<1> QED
  BY <1>1, PageBounds

\* Storing one lease of the page under its state leaves the others stored.
LEMMA StoreKeepsStored ==
  ASSUME NEW l \in LeaseId, StoreLease(l), chain' = chain,
         chain[l] = leaseStates[stateIx]
  PROVE  Stored(l)' /\ \A m \in LeaseId : Stored(m) => Stored(m)'
<1>1. Stored(l)'
  BY DEF StoreLease, UpsertLease, Stored, RowKey, Canonical
<1>2. ASSUME NEW m \in LeaseId, Stored(m) PROVE Stored(m)'
  <2>1. CASE m = l
    BY <1>1, <2>1
  <2>2. CASE m # l
    <3>1. RowKey(m) # RowKey(l)
      BY <2>2, RowKeyInjective
    <3>2. [key |-> RowKey(m), state |-> chain[m]] \in leases'
      BY <1>2, <3>1 DEF Stored, StoreLease, UpsertLease
    <3> QED
      BY <3>2 DEF Stored, RowKey, Canonical
  <2> QED
    BY <2>1, <2>2
<1> QED
  BY <1>1, <1>2

\* The chain cannot move and be as it was when Sync began.
LEMMA ChainLeavesStart ==
  ASSUME ChainTypeOK, Behind, ChainNext, atStart' = atStart
  PROVE  Behind' /\ chain' # atStart'
<1>1. CASE \E l \in LeaseId : OpenLease(l)
  <2>1. PICK l \in LeaseId : OpenLease(l)
    BY <1>1
  <2>2. chain'[l] = "active" /\ atStart[l] = "none"
    BY <2>1 DEF OpenLease, ChainTypeOK, Behind
  <2>3. Behind'
    BY <2>1 DEF OpenLease, ChainTypeOK, Behind
  <2> QED
    BY <2>2, <2>3
<1>2. CASE \E l \in LeaseId : EndLease(l)
  <2>1. PICK l \in LeaseId : EndLease(l)
    BY <1>2
  <2>2. chain'[l] \in Ended /\ atStart[l] \in {"none", "active"}
    BY <2>1 DEF EndLease, ChainTypeOK, Behind
  <2>3. Behind'
    BY <2>1 DEF EndLease, ChainTypeOK, Behind
  <2> QED
    BY <2>2, <2>3
<1> QED
  BY <1>1, <1>2 DEF ChainNext

\* While the chain stands still, what is read of it stays the same.
LEMMA StillChain ==
  ASSUME chain' = chain
  PROVE  /\ \A s : Matching(s)' = Matching(s)
         /\ \A s, p : Page(s, p, PageSize)' = Page(s, p, PageSize)
         /\ leases' = leases => \A l : Stored(l)' = Stored(l)
BY DEF Matching, Page, Stored, RowKey, Canonical

\* One case for each step of the poller.
LEMMA PollerKeepsCovered ==
  ASSUME PollerAloneTypeOK, AtRest, Covered, PollerNext, ~BeginSync,
         atStart' = atStart
  PROVE  Covered'
<1> USE DEF PollerAloneTypeOK
<1>0. chain' = chain
  BY DEF PollerNext, SyncStep, Tick, QueryPage, UpsertNext, NextPage, NextState,
         EndSync, SyncFails
<1> SUFFICES ASSUME chain = atStart, pollPc' # "waiting"
             PROVE  Covered'
  BY <1>0 DEF Covered
<1>1. ASSUME UNCHANGED <<leases, syncVars>> PROVE Covered'
  BY <1>0, <1>1, StillChain DEF Covered, Here, Place, syncVars
<1>2. CASE Tick
  BY <1>1, <1>2 DEF Tick
<1>3. CASE QueryPage
  BY <1>0, <1>3, StillChain DEF QueryPage, Covered, Here, Place
<1>4. CASE UpsertNext
  <2>1. PICK l \in batch : StoreLease(l) /\ batch' = batch \ {l}
    BY <1>4 DEF UpsertNext, IsNext
  <2>2. l \in LeaseId /\ chain[l] = leaseStates[stateIx]
    BY <1>4, <2>1, PageFacts DEF UpsertNext, Covered
  <2>3. Stored(l)' /\ \A m \in LeaseId : Stored(m) => Stored(m)'
    BY <1>0, <2>1, <2>2, StoreKeepsStored
  <2>4. \A s : \A m \in Matching(s) : m \in LeaseId
    BY DEF Matching
  <2>5. \A m \in Page(leaseStates[stateIx], page, PageSize) : m \in LeaseId
    BY DEF Page, Matching
  <2> QED
    BY <1>0, <1>4, <2>1, <2>3, <2>4, <2>5, StillChain
    DEF UpsertNext, Covered, Here, Place
<1>5. CASE NextPage
  <2>1. \A l \in Here : Place(Here, Rank, l) < page * PageSize => Stored(l)
    BY <1>5, StoredToTheEnd DEF NextPage
  <2>2. (page' - 1) * PageSize = page * PageSize
    BY <1>5, PageBounds DEF NextPage, PollerTypeOK
  <2> QED
    BY <1>0, <1>5, <2>1, <2>2, StillChain DEF NextPage, Covered, Here, Place
<1>6. CASE NextState
  <2>1. \A l \in Matching(leaseStates[stateIx]) : Stored(l)
    BY <1>6, ShortPageCompletes DEF NextState, Here
  <2>2. stateIx \in Nat /\ stateIx' = stateIx + 1 /\ page' = 1
    BY <1>6, StateIndices DEF NextState, PollerTypeOK
  <2>3. \A k \in 1..(stateIx' - 1) : k \in 1..(stateIx - 1) \/ k = stateIx
    BY <2>2
  <2>4. \A k \in 1..(stateIx' - 1) : \A l \in Matching(leaseStates[k]) : Stored(l)
    BY <1>6, <2>1, <2>3 DEF Covered, NextState
  <2>5. \A l \in Matching(leaseStates[stateIx']) :
          ~(Place(Matching(leaseStates[stateIx']), Rank, l) < (page' - 1) * PageSize)
    BY <2>2, NoPlaceBelowZero
  <2> QED
    BY <1>0, <1>6, <2>4, <2>5, StillChain DEF NextState, Covered, Here, Place
<1>7. CASE EndSync \/ SyncFails
  BY <1>7 DEF EndSync, SyncFails, SyncReturns
<1> QED
  BY <1>2, <1>3, <1>4, <1>5, <1>6, <1>7 DEF PollerNext, SyncStep

\* A Sync that begins has covered nothing, and takes note of the chain.
LEMMA BeginCoversNothing ==
  ASSUME PollerAloneTypeOK, AtRest, BeginSync, atStart' = chain
  PROVE  CoverageInv'
<1>1. /\ chain' = chain /\ stateIx' = 1 /\ page' = 1 /\ pollPc' = "query"
      /\ atStart' = chain'
  BY DEF BeginSync, AtRest
<1>2. Behind' /\ AtRest'
  BY <1>1 DEF Behind, AtRest, PollerAloneTypeOK, ChainTypeOK
<1>3. Covered'
  BY <1>1, NoPlaceBelowZero, StillChain DEF Covered, Here, Place
<1> QED
  BY <1>2, <1>3 DEF CoverageInv

\* The invariant survives every step.
LEMMA StepKeepsCoverage ==
  PollerAloneTypeOK /\ CoverageInv /\ [CoverageNext]_coverageVars => CoverageInv'
<1> SUFFICES ASSUME PollerAloneTypeOK, CoverageInv, [CoverageNext]_coverageVars
             PROVE  CoverageInv'
  OBVIOUS
<1>1. CASE BeginSync /\ atStart' = chain
  BY <1>1, BeginCoversNothing DEF CoverageInv
<1>2. CASE ChainMoves /\ atStart' = atStart
  <2>1. Behind' /\ chain' # atStart'
    BY <1>2, ChainLeavesStart DEF ChainMoves, PollerAloneTypeOK, CoverageInv
  <2> QED
    BY <1>2, <2>1 DEF ChainMoves, pollVars, syncVars, CoverageInv, AtRest, Covered
<1>3. CASE PollerNext /\ ~BeginSync /\ atStart' = atStart
  <2>1. Covered'
    BY <1>3, PollerKeepsCovered DEF CoverageInv
  <2>2. Behind'
    BY <1>3 DEF PollerNext, SyncStep, Tick, QueryPage, UpsertNext, NextPage,
                NextState, EndSync, SyncFails, CoverageInv, Behind
  <2>3. AtRest'
    BY <1>3 DEF PollerNext, SyncStep, Tick, QueryPage, UpsertNext, NextPage,
                NextState, EndSync, SyncFails, SyncReturns, CoverageInv, AtRest,
                syncVars
  <2> QED
    BY <2>1, <2>2, <2>3 DEF CoverageInv
<1>4. CASE UNCHANGED coverageVars
  BY <1>4, StillChain
  DEF coverageVars, pollerAloneVars, pollVars, syncVars, CoverageInv, Behind,
      AtRest, Covered, Here, Place
<1> QED
  BY <1>1, <1>2, <1>3, <1>4 DEF CoverageNext, PollerAloneNext

\* If the chain did not move while Sync was reading it, the cache is an exact
\* copy of the provider's leases when Sync completes, for any number of leases
\* and any size of the page: no lease falls between two pages
\* (internal/leases/poller.go:92-125).
THEOREM SyncCopiesExactly == CoverageSpec => []QuietSyncIsExact
<1>1. CoverageInit => CoverageInv
  <2> SUFFICES ASSUME CoverageInit PROVE CoverageInv
    OBVIOUS
  <2>1. /\ chain = atStart /\ stateIx = 1 /\ page = 1 /\ pollPc = "query"
        /\ ChainTypeOK
    BY InitTypes DEF CoverageInit, PollerAloneInit, PollerInit
  <2> QED
    BY <2>1, NoPlaceBelowZero
    DEF CoverageInv, Behind, AtRest, Covered, Here, ChainTypeOK
<1>2. PollerAloneTypeOK /\ CoverageInv => QuietSyncIsExact
  <2> SUFFICES ASSUME PollerAloneTypeOK, CoverageInv, SyncComplete,
                      chain = atStart, NEW l \in LeaseId, IsScoped(l), OnChain(l)
               PROVE  Stored(l)
    BY DEF QuietSyncIsExact, Stored
  <2>1. PICK k \in 1..3 : chain[l] = leaseStates[k]
    BY DEF PollerAloneTypeOK, ChainTypeOK, OnChain, leaseStates
  <2>2. l \in Matching(leaseStates[k])
    BY <2>1 DEF Matching, IsScoped
  <2>3. stateIx = 3
    BY StateIndices DEF SyncComplete
  <2>4. CASE k = 3
    BY <2>2, <2>3, <2>4, ShortPageCompletes
    DEF SyncComplete, CoverageInv, PollerAloneTypeOK, Here
  <2>5. CASE k # 3
    <3>1. k \in 1..(stateIx - 1)
      BY <2>3, <2>5
    <3> QED
      BY <2>2, <3>1 DEF SyncComplete, CoverageInv, Covered
  <2> QED
    BY <2>4, <2>5
<1>3. PollerAloneTypeOK /\ CoverageInv /\ [CoverageNext]_coverageVars
        => CoverageInv'
  BY StepKeepsCoverage
<1> QED
  BY <1>1, <1>2, <1>3, CoverageIsThePoller, PollerTypeCorrect, PTL
  DEF CoverageSpec, coverageVars
=============================================================================
