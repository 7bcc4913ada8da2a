----------------------- MODULE ReputationServiceProofs -----------------------
(***************************************************************************)
(* Theorems about the composed service: types, and that every rating which *)
(* names the provider of this instance was earned by a lease; and about    *)
(* the rollout, in which the pollers of two such services share a table.   *)
(***************************************************************************)
EXTENDS ReputationService, LeasePollerProofs, Rollout

\* A request past the checks that read no shared state.
Checked ==
  \A q \in Req : InFlight(q) => WellFormed(body[q]) /\ Attributed(body[q])

-----------------------------------------------------------------------------
\* What the checks establish about a message and the rows made from it.

\* The fields of a message that passed the checks are of the right kind.
LEMMA CheckedMessage ==
  ASSUME ApiTypeOK, NEW q \in Req, WellFormed(body[q]), Attributed(body[q])
  PROVE  /\ body[q].pubkey \in Base64(Key)
         /\ body[q].signature \in Base64(Signature)
         /\ Sent(q) \in Feedback
         /\ Sent(q).role \in {RoleProvider, RoleDeployer}
         /\ Sent(q).provider \in Address /\ Sent(q).deployer \in Address
         /\ Sent(q).dseq \in Text(DSeq) /\ Sent(q).goseq \in GOSeq
         /\ Sent(q).score \in {1, -1} /\ Sent(q).comment \in Comment
         /\ Sent(q).issued_at.value \in Instant
<1>1. body[q] \in [feedback: Feedback, pubkey: Base64(Key) \cup {NotBase64},
                   signature: Base64(Signature) \cup {NotBase64}]
  BY FeedbackApiAssumption DEF ApiTypeOK, WellFormed
<1>2. Sent(q) \in Feedback
  BY <1>1 DEF Sent
<1>3. Validate(Sent(q))
  BY DEF WellFormed, Sent
<1>4. /\ Sent(q).provider \in Address /\ Sent(q).deployer \in Address
      /\ Sent(q).role \in {RoleProvider, RoleDeployer}
      /\ Sent(q).score \in {1, -1} /\ Sent(q).goseq # 0
  BY <1>3 DEF Validate, DecodesAsAddress
<1>5. /\ Sent(q).dseq \in Text(DSeq) /\ Sent(q).goseq \in GOSeq \cup {0}
      /\ Sent(q).comment \in Comment /\ Sent(q).issued_at \in Text(Instant)
  BY <1>2 DEF Feedback
<1>6. body[q].pubkey \in Base64(Key) /\ body[q].signature \in Base64(Signature)
  BY <1>1 DEF WellFormed
<1> QED
  BY <1>2, <1>4, <1>5, <1>6 DEF Text

\* Such a message names a row of the lease table,
LEMMA CheckedKey ==
  ASSUME ApiTypeOK, NEW q \in Req, WellFormed(body[q]), Attributed(body[q])
  PROVE  LeaseOf(Sent(q)) \in LeaseKey
BY CheckedMessage DEF LeaseOf, LeaseKey

\* and makes a row of the feedback table.
LEMMA CheckedRecord ==
  ASSUME ApiTypeOK, FeedbackTableTypeOK,
         NEW q \in Req, WellFormed(body[q]), Attributed(body[q])
  PROVE  Record(q) \in FeedbackRow
<1>1. Author(Sent(q)) \in Address /\ Subject(Sent(q)) \in Address
  BY CheckedMessage DEF Author, Subject
<1> QED
  BY <1>1, CheckedMessage DEF Record, FeedbackRow, FeedbackTableTypeOK

\* An insert, done or in conflict, keeps the type of the feedback table.
LEMMA InsertKeepsType ==
  ASSUME FeedbackTableTypeOK, NEW rec \in FeedbackRow, InsertFeedback(rec)
  PROVE  FeedbackTableTypeOK'
BY DEF FeedbackTableTypeOK, InsertFeedback

-----------------------------------------------------------------------------
\* Types, together with Checked.

\* An answered request keeps its type.
LEMMA AnswerKeepsType ==
  ASSUME ApiTypeOK, NEW q \in Req, NEW s \in Status, NEW id \in Nat,
         Answer(q, s, id), body' = body
  PROVE  ApiTypeOK'
BY DEF ApiTypeOK, Answer, ReqPc

\* A request that goes on to a next call keeps its type.
LEMMA GotoKeepsType ==
  ASSUME ApiTypeOK, NEW q \in Req, NEW pc \in ReqPc, Goto(q, pc)
  PROVE  ApiTypeOK'
BY DEF ApiTypeOK, Goto

\* An answered request is no longer in flight.
LEMMA AnswerKeepsChecked ==
  ASSUME ApiTypeOK, Checked, NEW q \in Req, NEW s, NEW id, Answer(q, s, id),
         body' = body
  PROVE  Checked'
BY DEF ApiTypeOK, Checked, Answer, InFlight, WellFormed, Attributed

\* A request in flight that goes on has passed the checks before.
LEMMA GotoKeepsChecked ==
  ASSUME ApiTypeOK, Checked, NEW q \in Req, InFlight(q), NEW pc, Goto(q, pc)
  PROVE  Checked'
BY DEF ApiTypeOK, Checked, Goto, InFlight, WellFormed, Attributed

\* Receive lets a request go on only if it passes the checks.
LEMMA ReceiveKeepsTypes ==
  ASSUME ApiTypeOK, Checked, NEW q \in Req, NEW env \in Envelope, Receive(q, env)
  PROVE  ApiTypeOK' /\ Checked'
<1>1. body' \in [Req -> Envelope \cup {NotJSON}]
  BY DEF Receive, ApiTypeOK
<1>2. ASSUME NEW p \in Req \ {q} PROVE body'[p] = body[p] /\ reqPc'[p] = reqPc[p]
  BY <1>2 DEF Receive, ApiTypeOK, Answer
<1>3. body'[q] = env
  BY DEF Receive, ApiTypeOK
<1>4. /\ reqPc' \in [Req -> ReqPc]
      /\ answer' \in [Req -> [status: Status \cup {0}, id: Nat]]
      /\ \/ reqPc'[q] = "answered"
         \/ WellFormed(env) /\ Attributed(env)
  BY DEF Receive, ApiTypeOK, Answer, ReqPc, Status
<1>5. Checked'
  <2> SUFFICES ASSUME NEW p \in Req, InFlight(p)'
               PROVE  WellFormed(body'[p]) /\ Attributed(body'[p])
    BY DEF Checked, WellFormed, Attributed
  <2>1. CASE p = q
    BY <1>3, <1>4, <2>1 DEF InFlight
  <2>2. CASE p # q
    BY <1>2, <2>2 DEF InFlight, Checked
  <2> QED
    BY <2>1, <2>2
<1> QED
  BY <1>1, <1>4, <1>5 DEF ApiTypeOK

\* What the handlers keep in type, whoever their clients are.
HandlerTypeOK ==
  LeaseTableTypeOK /\ FeedbackTableTypeOK /\ FaultsTypeOK /\ ApiTypeOK

\* The lookup of the lease and its error.
LEMMA LookupKeepsTypes ==
  ASSUME HandlerTypeOK, Checked, NEW q \in Req, LookupLease(q) \/ LookupFails(q)
  PROVE  ApiTypeOK' /\ Checked'
<1>1. CASE LookupLease(q)
  <2>1. PICK pc \in {"insert", "live"} : Goto(q, pc)
    BY <1>1 DEF LookupLease
  <2> QED
    BY <1>1, <2>1, GotoKeepsType, GotoKeepsChecked
    DEF HandlerTypeOK, LookupLease, InFlight, ReqPc
<1>2. CASE LookupFails(q)
  BY <1>2, AnswerKeepsType, AnswerKeepsChecked DEF HandlerTypeOK, LookupFails, Status
<1> QED
  BY <1>1, <1>2

\* The query of the chain and its error.
LEMMA LiveKeepsTypes ==
  ASSUME HandlerTypeOK, Checked, NEW q \in Req, VerifyLive(q) \/ VerifyLiveFails(q)
  PROVE  ApiTypeOK' /\ Checked'
<1>1. InFlight(q)
  BY DEF VerifyLive, VerifyLiveFails, InFlight
<1>2. CASE Goto(q, "cache")
  BY <1>1, <1>2, GotoKeepsType, GotoKeepsChecked DEF HandlerTypeOK, ReqPc
<1>3. CASE Answer(q, 422, 0) /\ UNCHANGED body
  BY <1>3, AnswerKeepsType, AnswerKeepsChecked DEF HandlerTypeOK, Status
<1> QED
  BY <1>2, <1>3 DEF VerifyLive, VerifyLiveFails

\* The upsert of a verified lease and its error.
LEMMA CacheKeepsTypes ==
  ASSUME HandlerTypeOK, Checked, NEW q \in Req, CacheLease(q) \/ CacheLeaseFails(q)
  PROVE  ApiTypeOK' /\ Checked' /\ LeaseTableTypeOK'
<1>1. InFlight(q) /\ Goto(q, "insert")
  BY DEF CacheLease, CacheLeaseFails, InFlight
<1>2. ApiTypeOK' /\ Checked'
  BY <1>1, GotoKeepsType, GotoKeepsChecked DEF HandlerTypeOK, ReqPc
<1>3. LeaseTableTypeOK'
  <2>1. LeaseOf(Sent(q)) \in LeaseKey /\ "verified" \in LeaseState
    BY <1>1, CheckedKey DEF HandlerTypeOK, Checked, LeaseState
  <2>2. CASE CacheLease(q)
    BY <2>1, <2>2, UpsertKeepsType DEF CacheLease, HandlerTypeOK
  <2>3. CASE CacheLeaseFails(q)
    BY <2>3 DEF CacheLeaseFails, HandlerTypeOK, LeaseTableTypeOK
  <2> QED
    BY <2>2, <2>3
<1> QED
  BY <1>2, <1>3

\* The insert of a rating, its conflict and its error.
LEMMA StoreKeepsTypes ==
  ASSUME HandlerTypeOK, Checked, NEW q \in Req, StoreRating(q) \/ StoreRatingFails(q)
  PROVE  ApiTypeOK' /\ Checked' /\ FeedbackTableTypeOK'
<1>1. InFlight(q)
  BY DEF StoreRating, StoreRatingFails, InFlight
<1>2. PICK s \in Status, id \in Nat : Answer(q, s, id) /\ UNCHANGED body
  BY DEF StoreRating, StoreRatingFails, Status, HandlerTypeOK, FeedbackTableTypeOK
<1>3. ApiTypeOK' /\ Checked'
  BY <1>2, AnswerKeepsType, AnswerKeepsChecked DEF HandlerTypeOK
<1>4. Record(q) \in FeedbackRow
  BY <1>1, CheckedRecord DEF HandlerTypeOK, Checked
<1>5. FeedbackTableTypeOK'
  <2>1. CASE InsertFeedback(Record(q))
    BY <1>4, <2>1, InsertKeepsType DEF HandlerTypeOK
  <2>2. CASE UNCHANGED <<feedback, nextId>>
    BY <2>2 DEF HandlerTypeOK, FeedbackTableTypeOK
  <2> QED
    BY <2>1, <2>2 DEF StoreRating, StoreRatingFails
<1> QED
  BY <1>3, <1>5

\* The budget of failures is never exceeded.
LEMMA FaultKeepsType == FaultsTypeOK /\ Fault => FaultsTypeOK'
BY FaultsAssumption DEF FaultsTypeOK, Fault

\* A step of the API; each case names the variables it can change.
LEMMA ApiKeepsTypes ==
  ASSUME HandlerTypeOK, Checked, ApiNext
  PROVE  HandlerTypeOK' /\ Checked' /\ chain' = chain
<1> DEFINE ApiFacts == ApiTypeOK' /\ Checked'
           SameTables == UNCHANGED <<leases, feedback, nextId>>
<1>1. chain' = chain
  BY DEF ApiNext, Receive, HandlerStep, HandlerFails, LookupLease, LookupFails,
         VerifyLive, VerifyLiveFails, CacheLease, CacheLeaseFails, StoreRating,
         StoreRatingFails
<1>2. FaultsTypeOK'
  <2>1. faults' = faults \/ Fault
    BY DEF ApiNext, Receive, HandlerStep, HandlerFails, LookupLease,
           LookupFails, VerifyLive, VerifyLiveFails, CacheLease,
           CacheLeaseFails, StoreRating, StoreRatingFails
  <2> QED
    BY <2>1, FaultKeepsType DEF HandlerTypeOK, FaultsTypeOK
<1>3. ASSUME SameTables PROVE LeaseTableTypeOK' /\ FeedbackTableTypeOK'
  BY <1>3 DEF HandlerTypeOK, LeaseTableTypeOK, FeedbackTableTypeOK
<1>4. PICK q \in Req :
        (\E env \in Envelope : Receive(q, env)) \/ HandlerStep(q) \/ HandlerFails(q)
  BY DEF ApiNext
<1>5. CASE \E env \in Envelope : Receive(q, env)
  <2>1. ApiFacts
    BY <1>5, ReceiveKeepsTypes DEF HandlerTypeOK
  <2>2. SameTables
    BY <1>5 DEF Receive
  <2> QED
    BY <1>1, <1>2, <1>3, <2>1, <2>2 DEF HandlerTypeOK
<1>6. CASE LookupLease(q) \/ LookupFails(q)
  <2>1. ApiFacts
    BY <1>6, LookupKeepsTypes
  <2>2. SameTables
    BY <1>6 DEF LookupLease, LookupFails
  <2> QED
    BY <1>1, <1>2, <1>3, <2>1, <2>2 DEF HandlerTypeOK
<1>7. CASE VerifyLive(q) \/ VerifyLiveFails(q)
  <2>1. ApiFacts
    BY <1>7, LiveKeepsTypes
  <2>2. SameTables
    BY <1>7 DEF VerifyLive, VerifyLiveFails
  <2> QED
    BY <1>1, <1>2, <1>3, <2>1, <2>2 DEF HandlerTypeOK
<1>8. CASE CacheLease(q) \/ CacheLeaseFails(q)
  <2>1. ApiFacts /\ LeaseTableTypeOK'
    BY <1>8, CacheKeepsTypes
  <2>2. UNCHANGED <<feedback, nextId>>
    BY <1>8 DEF CacheLease, CacheLeaseFails
  <2>3. FeedbackTableTypeOK'
    BY <2>2 DEF HandlerTypeOK, FeedbackTableTypeOK
  <2> QED
    BY <1>1, <1>2, <2>1, <2>3 DEF HandlerTypeOK
<1>9. CASE StoreRating(q) \/ StoreRatingFails(q)
  <2>1. ApiFacts /\ FeedbackTableTypeOK'
    BY <1>9, StoreKeepsTypes
  <2>2. UNCHANGED leases
    BY <1>9 DEF StoreRating, StoreRatingFails
  <2>3. LeaseTableTypeOK'
    BY <2>2 DEF HandlerTypeOK, LeaseTableTypeOK
  <2> QED
    BY <1>1, <1>2, <2>1, <2>3 DEF HandlerTypeOK
<1> QED
  BY <1>4, <1>5, <1>6, <1>7, <1>8, <1>9 DEF HandlerStep, HandlerFails

\* A restart, with or without a last insert.
LEMMA RestartKeepsTypes ==
  ASSUME TypeOK, Checked, Restart
  PROVE  TypeOK' /\ Checked'
<1>1. ApiTypeOK'
  BY DEF TypeOK, ApiTypeOK, Restart, ReqPc
<1>2. Checked'
  BY DEF Checked, TypeOK, ApiTypeOK, Restart, InFlight, WellFormed, Attributed
<1>3. PollerTypeOK'
  <2>1. full' \in BOOLEAN /\ tick' \in BOOLEAN
    BY DEF Restart
  <2>2. /\ pollPc' \in {"waiting", "query", "upsert"} /\ batch' \subseteq LeaseId
        /\ stateIx' \in DOMAIN leaseStates /\ page' \in Nat \ {0}
    BY StateIndices DEF Restart
  <2> QED
    BY <2>1, <2>2 DEF PollerTypeOK
<1>4. FeedbackTableTypeOK'
  <2>1. CASE UNCHANGED <<feedback, nextId>>
    BY <2>1 DEF TypeOK, FeedbackTableTypeOK
  <2>2. CASE \E q \in Req : reqPc[q] = "insert" /\ InsertFeedback(Record(q))
    <3>1. PICK q \in Req : reqPc[q] = "insert" /\ InsertFeedback(Record(q))
      BY <2>2
    <3>2. Record(q) \in FeedbackRow
      BY <3>1, CheckedRecord DEF TypeOK, Checked, InFlight
    <3> QED
      BY <3>1, <3>2, InsertKeepsType DEF TypeOK
  <2> QED
    BY <2>1, <2>2 DEF Restart
<1>5. ChainTypeOK' /\ LeaseTableTypeOK' /\ FaultsTypeOK'
  BY FaultKeepsType DEF TypeOK, Restart, ChainTypeOK, LeaseTableTypeOK
<1> QED
  BY <1>1, <1>2, <1>3, <1>4, <1>5 DEF TypeOK

\* Everything has its type at first, and no request is in flight.
LEMMA InitKeepsTypes == Init => TypeOK /\ Checked
<1> SUFFICES ASSUME Init PROVE TypeOK /\ Checked
  OBVIOUS
<1>1. ApiTypeOK /\ Checked
  BY DEF Init, ApiInit, ApiTypeOK, Checked, InFlight, ReqPc, NoAnswer
<1>2. FeedbackTableTypeOK
  BY DEF Init, FeedbackTableInit, FeedbackTableTypeOK
<1> QED
  BY <1>1, <1>2, InitTypes DEF Init, TypeOK

\* Types and Checked together are inductive.
LEMMA StepKeepsTypes == TypeOK /\ Checked /\ [Next]_vars => TypeOK' /\ Checked'
<1> SUFFICES ASSUME TypeOK, Checked, [Next]_vars PROVE TypeOK' /\ Checked'
  OBVIOUS
<1>1. CASE ChainStep
  <2>1. ChainTypeOK'
    BY <1>1, ChainKeepsType DEF ChainStep, TypeOK
  <2> QED
    BY <1>1, <2>1
    DEF ChainStep, TypeOK, LeaseTableTypeOK, FeedbackTableTypeOK, FaultsTypeOK,
        PollerTypeOK, ApiTypeOK, tableVars, pollVars, syncVars, apiVars,
        Checked, InFlight, WellFormed, Attributed
<1>2. CASE PollerStep
  <2>1. PollerAloneTypeOK'
    BY <1>2, PollerKeepsTypes DEF PollerStep, TypeOK, PollerAloneTypeOK
  <2> QED
    BY <1>2, <2>1
    DEF PollerStep, PollerAloneTypeOK, TypeOK, FeedbackTableTypeOK, ApiTypeOK,
        apiVars, Checked, InFlight, WellFormed, Attributed
<1>3. CASE ApiStep
  <2>1. HandlerTypeOK' /\ Checked' /\ chain' = chain
    BY <1>3, ApiKeepsTypes DEF ApiStep, TypeOK, HandlerTypeOK
  <2>2. ChainTypeOK' /\ PollerTypeOK'
    BY <1>3, <2>1 DEF ApiStep, TypeOK, ChainTypeOK, PollerTypeOK, pollVars, syncVars
  <2> QED
    BY <2>1, <2>2 DEF TypeOK, HandlerTypeOK
<1>4. CASE Restart
  BY <1>4, RestartKeepsTypes
<1>5. CASE UNCHANGED vars
  BY <1>5
  DEF vars, TypeOK, ChainTypeOK, LeaseTableTypeOK, FeedbackTableTypeOK,
      FaultsTypeOK, PollerTypeOK, ApiTypeOK, tableVars, pollVars, syncVars,
      apiVars, Checked, InFlight, WellFormed, Attributed
<1> QED
  BY <1>1, <1>2, <1>3, <1>4, <1>5 DEF Next

\* Types, together with what a request has passed.
THEOREM ServiceChecked == Spec => [](TypeOK /\ Checked)
<1>1. TypeOK /\ Checked /\ [Next]_vars => (TypeOK /\ Checked)'
  BY StepKeepsTypes
<1> QED
  BY <1>1, InitKeepsTypes, PTL DEF Spec

\* Every variable of the process and every column of both tables has its type:
\* nothing that a client sends gets past the checks into a column that could
\* not hold it.  This needs that a request keeps what the checks found.
THEOREM ServiceTypeCorrect == Spec => []TypeOK
BY ServiceChecked, PTL

-----------------------------------------------------------------------------
\* Ratings are earned.  A stored rating is, because the request that stored it
\* had found its lease; that request had, because it found a row of the cache
\* or a lease on the chain; and a row that names this provider is the row of a
\* lease on the chain, whoever wrote it.

\* k: a key of the lease table, or a row of the feedback table.
Backed(k) == k.provider = Provider => \E l \in LeaseId : EarnedBy(k, l)

RowsBacked == \A row \in leases : Backed(row.key)

RequestsBacked ==
  \A q \in Req : reqPc[q] \in {"cache", "insert"} => Backed(LeaseOf(Sent(q)))

CacheInv == CacheNeverAhead /\ BatchSound

EarnedInv == CacheInv /\ RowsBacked /\ RequestsBacked /\ EarnedHere

\* A lease that the chain has stays on it.
LEMMA OnChainForGood ==
  ASSUME ChainTypeOK, ChainNext, NEW l \in LeaseId, OnChain(l)
  PROVE  OnChain(l)'
BY DEF ChainTypeOK, ChainNext, OpenLease, EndLease, OnChain

\* The row of a lease that Sync stores is backed by that lease.
LEMMA StoredIsBacked ==
  ASSUME NEW l \in LeaseId, OnChain(l)
  PROVE  Backed(RowKey(l))
BY DEF Backed, EarnedBy, RowKey, Canonical, Readable

\* What the query of the chain finds is a lease of this provider.
LEMMA LiveIsBacked ==
  ASSUME NEW f, VerifyLeaseLive(f)
  PROVE  Backed(LeaseOf(f))
BY DEF VerifyLeaseLive, SingleLease, Backed, EarnedBy, LeaseOf, OnChain

\* Moves of the chain take no lease away from a row, a request or a rating.
LEMMA ChainKeepsEarned ==
  ASSUME TypeOK, EarnedInv, ChainStep
  PROVE  EarnedInv'
<1>1. CacheInv'
  BY ChainKeepsCache DEF ChainStep, tableVars, pollVars, syncVars, TypeOK,
                         EarnedInv, CacheInv
<1>2. ASSUME NEW k, Backed(k) PROVE Backed(k)'
  <2>1. CASE k.provider # Provider
    BY <2>1 DEF Backed
  <2>2. CASE \E l \in LeaseId : EarnedBy(k, l)
    <3>1. PICK l \in LeaseId : EarnedBy(k, l)
      BY <2>2
    <3>2. OnChain(l)'
      BY <3>1, OnChainForGood DEF EarnedBy, ChainStep, TypeOK
    <3> QED
      BY <3>1, <3>2 DEF EarnedBy, Backed
  <2> QED
    BY <1>2, <2>1, <2>2 DEF Backed
<1>3. RowsBacked'
  <2> SUFFICES ASSUME NEW row \in leases PROVE Backed(row.key)'
    BY DEF ChainStep, tableVars, RowsBacked, Backed, EarnedBy
  <2> QED
    BY <1>2 DEF EarnedInv, RowsBacked
<1>4. RequestsBacked'
  <2> SUFFICES ASSUME NEW q \in Req, reqPc[q] \in {"cache", "insert"}
               PROVE  Backed(LeaseOf(Sent(q)))'
    BY DEF ChainStep, apiVars, RequestsBacked
  <2>1. UNCHANGED <<body[q], LeaseOf(Sent(q))>>
    BY DEF ChainStep, apiVars, LeaseOf, Sent
  <2> QED
    BY <1>2, <2>1 DEF EarnedInv, RequestsBacked, Backed, EarnedBy, OnChain
<1>5. EarnedHere'
  <2> SUFFICES ASSUME NEW r \in feedback, IsHere(r)
               PROVE  \E l \in LeaseId : EarnedBy(r, l)'
    BY DEF ChainStep, tableVars, EarnedHere, IsHere, EarnedBy
  <2>1. Backed(r)'
    BY <1>2 DEF EarnedInv, EarnedHere, Backed, IsHere
  <2> QED
    BY <2>1 DEF Backed, IsHere
<1> QED
  BY <1>1, <1>3, <1>4, <1>5 DEF EarnedInv

\* The poller adds rows of leases that are on the chain.
LEMMA PollerKeepsEarned ==
  ASSUME TypeOK, EarnedInv, PollerStep
  PROVE  EarnedInv'
<1>1. CacheInv'
  BY PollerKeepsCache
  DEF PollerStep, TypeOK, PollerAloneTypeOK, EarnedInv, CacheInv
<1>2. chain' = chain
  BY DEF PollerStep, PollerNext, SyncStep, Tick, BeginSync, QueryPage,
         UpsertNext, NextPage, NextState, EndSync, SyncFails
<1>3. RowsBacked'
  <2>1. leases' = leases \/ \E l \in batch : StoreLease(l)
    BY DEF PollerStep, PollerNext, SyncStep, Tick, BeginSync, QueryPage,
           UpsertNext, NextPage, NextState, EndSync, SyncFails, IsNext
  <2>2. CASE leases' = leases
    BY <1>2, <2>2 DEF EarnedInv, RowsBacked, Backed, EarnedBy, OnChain
  <2>3. CASE \E l \in batch : StoreLease(l)
    <3>1. PICK l \in batch : StoreLease(l)
      BY <2>3
    <3>2. l \in LeaseId /\ chain[l] \in OpenStates
      BY <3>1 DEF EarnedInv, CacheInv, BatchSound, Reached, TypeOK, PollerTypeOK
    <3>3. OnChain(l)
      BY <3>2 DEF OnChain, OpenStates
    <3>4. \A row \in leases' : row \in leases \/ row.key = RowKey(l)
      BY <3>1 DEF StoreLease, UpsertLease
    <3>5. \A row \in leases' : Backed(row.key)
      BY <3>2, <3>3, <3>4, StoredIsBacked DEF EarnedInv, RowsBacked
    <3> QED
      BY <1>2, <3>5 DEF RowsBacked, Backed, EarnedBy, OnChain
  <2> QED
    BY <2>1, <2>2, <2>3
<1>4. RequestsBacked' /\ EarnedHere'
  BY <1>2 DEF PollerStep, apiVars, EarnedInv, RequestsBacked, EarnedHere, IsHere,
              Backed, EarnedBy, OnChain, LeaseOf, Sent
<1> QED
  BY <1>1, <1>3, <1>4 DEF EarnedInv

\* An insert under a backed key.
LEMMA InsertKeepsEarned ==
  ASSUME EarnedHere, NEW q \in Req, Backed(LeaseOf(Sent(q))),
         InsertFeedback(Record(q)), chain' = chain
  PROVE  EarnedHere'
<1> SUFFICES ASSUME NEW r \in feedback', IsHere(r)
             PROVE  \E l \in LeaseId : EarnedBy(r, l)
  BY DEF EarnedHere, IsHere, EarnedBy, OnChain
<1>1. CASE r \in feedback
  BY <1>1 DEF EarnedHere
<1>2. CASE r = Record(q)
  BY <1>2 DEF Backed, LeaseOf, Record, EarnedBy, IsHere
<1> QED
  BY <1>1, <1>2 DEF InsertFeedback

\* A step of a request other than its upsert and its insert.
LEMMA QuietKeepsEarned ==
  ASSUME TypeOK, EarnedInv, NEW q \in Req,
         UNCHANGED <<chain, leases, feedback, pollVars>>,
         \A p \in Req \ {q} : reqPc'[p] = reqPc[p] /\ body'[p] = body[p],
         \/ reqPc'[q] \notin {"cache", "insert"}
         \/ body'[q] = body[q] /\ Backed(LeaseOf(Sent(q)))
  PROVE  EarnedInv'
<1>1. CacheInv'
  BY DEF EarnedInv, CacheInv, CacheNeverAhead, BatchSound, Reached, IsScoped,
         pollVars, syncVars
<1>2. RowsBacked' /\ EarnedHere'
  BY DEF EarnedInv, RowsBacked, EarnedHere, IsHere, Backed, EarnedBy, OnChain
<1>3. RequestsBacked'
  <2> SUFFICES ASSUME NEW p \in Req, reqPc'[p] \in {"cache", "insert"}
               PROVE  body'[p] = body[p] /\ Backed(LeaseOf(Sent(p)))
    BY DEF RequestsBacked, Backed, EarnedBy, OnChain, LeaseOf, Sent
  <2> QED
    BY DEF EarnedInv, RequestsBacked
<1> QED
  BY <1>1, <1>2, <1>3 DEF EarnedInv

\* A request passes on only what one of the two lease checks has backed.
LEMMA ApiKeepsEarned ==
  ASSUME TypeOK, Checked, EarnedInv, ApiStep
  PROVE  EarnedInv'
<1> DEFINE Others(q) ==
             \A p \in Req \ {q} : reqPc'[p] = reqPc[p] /\ body'[p] = body[p]
<1>1. PICK q \in Req :
        (\E env \in Envelope : Receive(q, env)) \/ HandlerStep(q) \/ HandlerFails(q)
  BY DEF ApiStep, ApiNext
<1>2. UNCHANGED pollVars
  BY DEF ApiStep
<1>3. ASSUME NEW pc, Goto(q, pc)
      PROVE  Others(q) /\ body'[q] = body[q] /\ reqPc'[q] = pc
  BY <1>3 DEF Goto, TypeOK, ApiTypeOK
<1>4. ASSUME NEW s, NEW id, Answer(q, s, id), body' = body
      PROVE  Others(q) /\ reqPc'[q] = "answered"
  BY <1>4 DEF Answer, TypeOK, ApiTypeOK
<1>5. CASE \E env \in Envelope : Receive(q, env)
  <2>1. Others(q) /\ reqPc'[q] \in {"answered", "lookup"}
    BY <1>5 DEF Receive, Answer, TypeOK, ApiTypeOK
  <2> QED
    BY <1>2, <1>5, <2>1, QuietKeepsEarned DEF Receive
<1>6. CASE LookupLease(q)
  <2>1. CASE LeaseExists(LeaseOf(Sent(q)))
    <3>1. Backed(LeaseOf(Sent(q)))
      BY <2>1 DEF LeaseExists, EarnedInv, RowsBacked
    <3> QED
      BY <1>2, <1>3, <1>6, <2>1, <3>1, QuietKeepsEarned DEF LookupLease
  <2>2. CASE ~LeaseExists(LeaseOf(Sent(q)))
    BY <1>2, <1>3, <1>6, <2>2, QuietKeepsEarned DEF LookupLease
  <2> QED
    BY <2>1, <2>2
<1>7. CASE LookupFails(q)
  BY <1>2, <1>4, <1>7, QuietKeepsEarned DEF LookupFails
<1>8. CASE VerifyLive(q)
  <2>1. CASE VerifyLeaseLive(Sent(q)) /\ Goto(q, "cache")
    <3>1. Backed(LeaseOf(Sent(q)))
      BY <2>1, LiveIsBacked
    <3> QED
      BY <1>2, <1>3, <1>8, <2>1, <3>1, QuietKeepsEarned DEF VerifyLive
  <2>2. CASE Answer(q, 422, 0) /\ UNCHANGED body
    BY <1>2, <1>4, <1>8, <2>2, QuietKeepsEarned DEF VerifyLive
  <2> QED
    BY <1>8, <2>1, <2>2 DEF VerifyLive
<1>9. CASE VerifyLiveFails(q)
  BY <1>2, <1>4, <1>9, QuietKeepsEarned DEF VerifyLiveFails
<1>10. CASE CacheLease(q)
  <2>1. Backed(LeaseOf(Sent(q)))
    BY <1>10 DEF CacheLease, EarnedInv, RequestsBacked
  <2>2. UNCHANGED <<chain, feedback>> /\ Others(q) /\ body'[q] = body[q]
    BY <1>3, <1>10 DEF CacheLease
  <2>3. \A row \in leases' :
          row \in leases \/ row = [key |-> LeaseOf(Sent(q)), state |-> "verified"]
    BY <1>10 DEF CacheLease, UpsertLease
  <2>4. CacheInv'
    <3>1. CacheNeverAhead'
      BY <2>2, <2>3 DEF EarnedInv, CacheInv, CacheNeverAhead, OpenStates, IsScoped
    <3>2. BatchSound'
      BY <1>2, <2>2 DEF EarnedInv, CacheInv, BatchSound, Reached, IsScoped,
                        pollVars, syncVars
    <3> QED
      BY <3>1, <3>2 DEF CacheInv
  <2>5. RowsBacked'
    <3>1. \A row \in leases' : Backed(row.key)
      BY <2>1, <2>3 DEF EarnedInv, RowsBacked
    <3> QED
      BY <2>2, <3>1 DEF RowsBacked, Backed, EarnedBy, OnChain
  <2>6. RequestsBacked'
    <3> SUFFICES ASSUME NEW p \in Req, reqPc'[p] \in {"cache", "insert"}
                 PROVE  body'[p] = body[p] /\ Backed(LeaseOf(Sent(p)))
      BY <2>2 DEF RequestsBacked, Backed, EarnedBy, OnChain, LeaseOf, Sent
    <3> QED
      BY <2>1, <2>2 DEF EarnedInv, RequestsBacked
  <2>7. EarnedHere'
    BY <2>2 DEF EarnedInv, EarnedHere, IsHere, EarnedBy, OnChain
  <2> QED
    BY <2>4, <2>5, <2>6, <2>7 DEF EarnedInv
<1>11. CASE CacheLeaseFails(q)
  <2>1. Backed(LeaseOf(Sent(q)))
    BY <1>11 DEF CacheLeaseFails, EarnedInv, RequestsBacked
  <2> QED
    BY <1>2, <1>3, <1>11, <2>1, QuietKeepsEarned DEF CacheLeaseFails
<1>12. CASE StoreRating(q) \/ StoreRatingFails(q)
  <2>1. Backed(LeaseOf(Sent(q)))
    BY <1>12 DEF StoreRating, StoreRatingFails, EarnedInv, RequestsBacked
  <2>2. UNCHANGED <<chain, leases, body>>
    BY <1>12 DEF StoreRating, StoreRatingFails
  <2>3. Others(q) /\ reqPc'[q] = "answered"
    BY <1>4, <1>12, <2>2 DEF StoreRating, StoreRatingFails
  <2>4. EarnedHere'
    <3>1. CASE InsertFeedback(Record(q))
      BY <2>1, <2>2, <3>1, InsertKeepsEarned DEF EarnedInv
    <3>2. CASE feedback' = feedback
      BY <2>2, <3>2 DEF EarnedInv, EarnedHere, IsHere, EarnedBy, OnChain
    <3> QED
      BY <1>12, <3>1, <3>2 DEF StoreRating, StoreRatingFails
  <2>5. CacheInv' /\ RowsBacked'
    BY <1>2, <2>2
    DEF EarnedInv, CacheInv, CacheNeverAhead, BatchSound, Reached, IsScoped,
        RowsBacked, Backed, EarnedBy, OnChain, pollVars, syncVars
  <2>6. RequestsBacked'
    <3> SUFFICES ASSUME NEW p \in Req, reqPc'[p] \in {"cache", "insert"}
                 PROVE  Backed(LeaseOf(Sent(p)))
      BY <2>2 DEF RequestsBacked, Backed, EarnedBy, OnChain, LeaseOf, Sent
    <3> QED
      BY <2>3 DEF EarnedInv, RequestsBacked
  <2> QED
    BY <2>4, <2>5, <2>6 DEF EarnedInv
<1> QED
  BY <1>1, <1>5, <1>6, <1>7, <1>8, <1>9, <1>10, <1>11, <1>12
  DEF HandlerStep, HandlerFails

\* After a restart nothing is in flight, and a last insert was backed too.
LEMMA RestartKeepsEarned ==
  ASSUME TypeOK, EarnedInv, Restart
  PROVE  EarnedInv'
<1>1. CacheInv'
  BY DEF Restart, EarnedInv, CacheInv, CacheNeverAhead, BatchSound, IsScoped
<1>2. RowsBacked'
  BY DEF Restart, EarnedInv, RowsBacked, Backed, EarnedBy, OnChain
<1>3. RequestsBacked'
  <2> SUFFICES ASSUME NEW q \in Req, reqPc'[q] \in {"cache", "insert"}
               PROVE  FALSE
    BY DEF RequestsBacked
  <2> QED
    BY DEF Restart, InFlight
<1>4. EarnedHere'
  <2>1. CASE feedback' = feedback
    BY <2>1 DEF Restart, EarnedInv, EarnedHere, IsHere, EarnedBy, OnChain
  <2>2. CASE \E q \in Req : reqPc[q] = "insert" /\ InsertFeedback(Record(q))
    <3>1. PICK q \in Req : reqPc[q] = "insert" /\ InsertFeedback(Record(q))
      BY <2>2
    <3>2. Backed(LeaseOf(Sent(q)))
      BY <3>1 DEF EarnedInv, RequestsBacked
    <3> QED
      BY <3>1, <3>2, InsertKeepsEarned DEF Restart, EarnedInv
  <2> QED
    BY <2>1, <2>2 DEF Restart
<1> QED
  BY <1>1, <1>2, <1>3, <1>4 DEF EarnedInv

\* At first there are no rows, requests or ratings to back.
LEMMA InitIsEarned == Init => EarnedInv
BY DEF Init, LeaseTableInit, FeedbackTableInit, PollerInit, ApiInit, EarnedInv,
       CacheInv, CacheNeverAhead, BatchSound, RowsBacked, RequestsBacked,
       EarnedHere

\* EarnedInv is inductive relative to the types.
LEMMA StepKeepsEarned == TypeOK /\ Checked /\ EarnedInv /\ [Next]_vars => EarnedInv'
<1> SUFFICES ASSUME TypeOK, Checked, EarnedInv, [Next]_vars PROVE EarnedInv'
  OBVIOUS
<1>1. CASE UNCHANGED vars
  BY <1>1
  DEF vars, tableVars, pollVars, syncVars, apiVars, EarnedInv, CacheInv,
      CacheNeverAhead, BatchSound, Reached, IsScoped, RowsBacked,
      RequestsBacked, EarnedHere, IsHere, Backed, EarnedBy, OnChain, LeaseOf,
      Sent
<1> QED
  BY <1>1, ChainKeepsEarned, PollerKeepsEarned, ApiKeepsEarned,
     RestartKeepsEarned DEF Next

\* At every time each cached row, each request that passed the lease check and
\* each rating that names this provider is backed by a lease on the chain.
THEOREM ServiceEarnedInv == Spec => []EarnedInv
<1>1. (TypeOK /\ Checked) /\ EarnedInv /\ [Next]_vars => EarnedInv'
  BY StepKeepsEarned
<1> QED
  BY <1>1, InitIsEarned, ServiceChecked, PTL DEF Spec

\* Every stored rating that names the provider of this instance was earned by
\* a lease that the chain has, for any number of requests, failures and restarts.
THEOREM RatingsHereAreEarned == Spec => []EarnedHere
<1>1. EarnedInv => EarnedHere
  BY DEF EarnedInv
<1> QED
  BY <1>1, ServiceEarnedInv, PTL

\* The cache is never ahead of the chain in the composed service either: what
\* the API writes into it carries no state of the chain.
THEOREM ServiceCacheNeverAhead == Spec => []CacheNeverAhead
<1>1. EarnedInv => CacheNeverAhead
  BY DEF EarnedInv, CacheInv
<1> QED
  BY <1>1, ServiceEarnedInv, PTL
-----------------------------------------------------------------------------
\* The rollout: two pollers on one lease table.  What the lemmas say of a step
\* of the poller they say of one of the new poller.

NewProofs ==
  INSTANCE LeasePollerProofs WITH
    pollPc <- newPc, stateIx <- newStateIx, page <- newPage,
    batch <- newBatch, full <- newFull, tick <- newTick, atStart <- chain

\* The two instances speak of the same poller.
LEMMA SameNewPoller ==
  /\ New!PollerNext <=> NewProofs!PollerNext
  /\ New!PollerInit <=> NewProofs!PollerInit
  /\ New!PollerTypeOK <=> NewProofs!PollerTypeOK
<1>1. \A S : New!Cardinality(S) = NewProofs!Cardinality(S)
  BY DEF New!Cardinality, NewProofs!Cardinality
<1>2. \A s : New!Matching(s) = NewProofs!Matching(s)
  BY DEF New!Matching, NewProofs!Matching
<1>3. New!leaseStates = NewProofs!leaseStates
  BY DEF New!leaseStates, NewProofs!leaseStates
<1>4. \A s, p, n : New!Page(s, p, n) = NewProofs!Page(s, p, n)
  BY <1>1, <1>2 DEF New!Page, NewProofs!Page
<1>5. New!QueryPage <=> NewProofs!QueryPage
  BY <1>1, <1>3, <1>4 DEF New!QueryPage, NewProofs!QueryPage
<1>6. \A l : New!IsNext(l) <=> NewProofs!IsNext(l)
  BY DEF New!IsNext, NewProofs!IsNext
<1>7. \A l : New!StoreLease(l) <=> NewProofs!StoreLease(l)
  BY <1>3 DEF New!StoreLease, NewProofs!StoreLease, New!UpsertLease,
     NewProofs!UpsertLease, New!RowKey, NewProofs!RowKey, New!Canonical,
     NewProofs!Canonical
<1>8. New!UpsertNext <=> NewProofs!UpsertNext
  BY <1>6, <1>7 DEF New!UpsertNext, NewProofs!UpsertNext
<1>9. New!SyncFails <=> NewProofs!SyncFails
  BY <1>6, <1>7 DEF New!SyncFails, NewProofs!SyncFails, New!Fault,
     NewProofs!Fault, New!SyncReturns, NewProofs!SyncReturns
<1>10. /\ New!Tick <=> NewProofs!Tick
       /\ New!BeginSync <=> NewProofs!BeginSync
       /\ New!NextPage <=> NewProofs!NextPage
  BY DEF New!Tick, NewProofs!Tick, New!syncVars, NewProofs!syncVars,
     New!BeginSync, NewProofs!BeginSync, New!NextPage, NewProofs!NextPage
<1>11. New!NextState <=> NewProofs!NextState
  BY <1>3 DEF New!NextState, NewProofs!NextState
<1>12. New!EndSync <=> NewProofs!EndSync
  BY <1>3 DEF New!EndSync, NewProofs!EndSync, New!SyncReturns,
     NewProofs!SyncReturns, New!SyncComplete, NewProofs!SyncComplete
<1>13. New!PollerNext <=> NewProofs!PollerNext
  BY <1>5, <1>8, <1>9, <1>10, <1>11, <1>12
  DEF New!PollerNext, NewProofs!PollerNext, New!SyncStep, NewProofs!SyncStep
<1>14. New!PollerInit <=> NewProofs!PollerInit
  BY DEF New!PollerInit, NewProofs!PollerInit
<1>15. New!PollerTypeOK <=> NewProofs!PollerTypeOK
  BY <1>3 DEF New!PollerTypeOK, NewProofs!PollerTypeOK
<1> QED
  BY <1>13, <1>14, <1>15

\* The lemmas about a step of a poller, for the new one (an instance of a lemma
\* carries the assumptions on the constants with it): it keeps the types,
LEMMA NewKeepsTypes ==
  ASSUME NewProofs!PollerAloneTypeOK, NewProofs!PollerNext
  PROVE  NewProofs!PollerAloneTypeOK'
BY NewProofs!PollerKeepsTypes, VocabularyAssumption, ChainAssumption, FaultsAssumption,
   LeasePollerAssumption
DEF IsFiniteSet, NewProofs!IsFiniteSet

\* what it stores is no news to the chain,
LEMMA NewKeepsCache ==
  ASSUME NewProofs!PollerAloneTypeOK, NewProofs!CacheNeverAhead,
         NewProofs!BatchSound, NewProofs!PollerNext
  PROVE  NewProofs!CacheNeverAhead' /\ NewProofs!BatchSound'
BY NewProofs!PollerKeepsCache, VocabularyAssumption, ChainAssumption, FaultsAssumption,
   LeasePollerAssumption
DEF IsFiniteSet, NewProofs!IsFiniteSet

\* it puts no ended row under a page of active leases,
LEMMA NewKeepsOrder ==
  ASSUME NewProofs!PollerAloneTypeOK, NewProofs!CacheNeverAhead,
         NewProofs!NoStaleReopen, NewProofs!PollerNext
  PROVE  NewProofs!NoStaleReopen'
BY NewProofs!PollerKeepsOrder, VocabularyAssumption, ChainAssumption, FaultsAssumption,
   LeasePollerAssumption
DEF IsFiniteSet, NewProofs!IsFiniteSet

\* takes no ended row away while its own page is in order,
LEMMA NewKeepsEnded ==
  ASSUME NewProofs!PollerAloneTypeOK, NewProofs!CacheNeverAhead,
         NewProofs!BatchSound, NewProofs!NoStaleReopen, NewProofs!PollerNext,
         NEW row \in leases, row.state \in Ended
  PROVE  row \in leases'
BY NewProofs!PollerKeepsEnded, VocabularyAssumption, ChainAssumption, FaultsAssumption,
   LeasePollerAssumption
DEF IsFiniteSet, NewProofs!IsFiniteSet, NewProofs!Ended, Ended

\* and its page stays true while the chain moves.
LEMMA ChainKeepsNewPage ==
  ASSUME NewProofs!ChainTypeOK, NewProofs!PollerTypeOK, NewProofs!CacheNeverAhead,
         NewProofs!BatchSound, NewProofs!ChainNext,
         UNCHANGED <<leases, newBatch, newStateIx>>
  PROVE  NewProofs!BatchSound'
BY NewProofs!ChainKeepsCache, VocabularyAssumption, ChainAssumption, FaultsAssumption,
   LeasePollerAssumption
DEF IsFiniteSet, NewProofs!IsFiniteSet

\* The chain and the table are the same for both.
LEMMA SharedFacts ==
  /\ NewProofs!PollerAloneTypeOK <=>
       ChainTypeOK /\ LeaseTableTypeOK /\ FaultsTypeOK /\ New!PollerTypeOK
  /\ NewProofs!CacheNeverAhead <=> CacheNeverAhead
  /\ NewProofs!ChainTypeOK <=> ChainTypeOK
  /\ NewProofs!ChainNext <=> ChainNext
<1>1. NewProofs!ChainTypeOK <=> ChainTypeOK
  BY DEF NewProofs!ChainTypeOK, ChainTypeOK, NewProofs!OpenStates, OpenStates
<1>2. NewProofs!LeaseTableTypeOK <=> LeaseTableTypeOK
  BY DEF NewProofs!LeaseTableTypeOK, LeaseTableTypeOK, NewProofs!LeaseKey,
     LeaseKey, NewProofs!LeaseState, LeaseState, NewProofs!Text, Text,
     NewProofs!Spelling, Spelling
<1>3. NewProofs!FaultsTypeOK <=> FaultsTypeOK
  BY DEF NewProofs!FaultsTypeOK, FaultsTypeOK
<1>4. NewProofs!CacheNeverAhead <=> CacheNeverAhead
  BY DEF NewProofs!CacheNeverAhead, CacheNeverAhead, NewProofs!IsScoped,
     IsScoped, NewProofs!RowKey, RowKey, NewProofs!Canonical, Canonical,
     NewProofs!OpenStates, OpenStates, NewProofs!Ended, Ended
<1>5. NewProofs!ChainNext <=> ChainNext
  BY DEF NewProofs!ChainNext, ChainNext, NewProofs!OpenLease, OpenLease,
     NewProofs!EndLease, EndLease
<1> QED
  BY <1>1, <1>2, <1>3, <1>4, <1>5, SameNewPoller DEF NewProofs!PollerAloneTypeOK

\* Neither poller moves the chain.
LEMMA PollersLeaveChain ==
  /\ PollerNext => chain' = chain
  /\ NewProofs!PollerNext => chain' = chain
<1>1. PollerNext => chain' = chain
  BY DEF PollerNext, Tick, SyncStep, BeginSync, QueryPage, UpsertNext, NextPage,
     NextState, EndSync, SyncFails
<1>2. NewProofs!PollerNext => chain' = chain
  BY DEF NewProofs!PollerNext, NewProofs!Tick, NewProofs!SyncStep,
     NewProofs!BeginSync, NewProofs!QueryPage, NewProofs!UpsertNext,
     NewProofs!NextPage, NewProofs!NextState, NewProofs!EndSync,
     NewProofs!SyncFails
<1> QED
  BY <1>1, <1>2

\* Both pages in hand are true of the chain.  The one of the only poller there
\* is reopens no row: the old one's before the overlap, and the new one's after
\* it, but only once it has begun another Sync.
RolloutInv ==
  /\ RolloutTypeOK
  /\ CacheNeverAhead /\ BatchSound /\ NewProofs!BatchSound
  /\ pods = "old" => NoStaleReopen
  /\ calm => pods = "new" /\ NewProofs!NoStaleReopen
  /\ newPc # "upsert" => newBatch = {}

\* A step of the old poller, which the new one may overlap.
LEMMA OldKeepsRollout ==
  ASSUME RolloutInv, OldStep(PollerNext)
  PROVE  RolloutInv'
<1>1. /\ pods \in {"old", "both"} /\ PollerNext /\ pods' = pods /\ calm' = calm
      /\ newPc' = newPc /\ newBatch' = newBatch /\ newStateIx' = newStateIx
      /\ UNCHANGED newVars /\ chain' = chain
  BY PollersLeaveChain DEF OldStep, newVars
<1>2. PollerAloneTypeOK
  BY DEF RolloutInv, RolloutTypeOK
<1>3. PollerAloneTypeOK' /\ CacheNeverAhead' /\ BatchSound'
  BY <1>1, <1>2, PollerKeepsTypes, PollerKeepsCache DEF RolloutInv
<1>4. New!PollerTypeOK'
  BY <1>1 DEF RolloutInv, RolloutTypeOK, New!PollerTypeOK, newVars, New!leaseStates
<1>5. NewProofs!BatchSound'
  BY <1>1 DEF RolloutInv, NewProofs!BatchSound, NewProofs!Reached,
     NewProofs!IsScoped, NewProofs!leaseStates
<1>6. pods = "old" => NoStaleReopen'
  BY <1>1, <1>2, PollerKeepsOrder DEF RolloutInv
<1>7. ~calm
  BY <1>1 DEF RolloutInv
<1>8. RolloutTypeOK'
  BY <1>1, <1>3, <1>4 DEF RolloutInv, RolloutTypeOK
<1> QED
  BY <1>1, <1>3, <1>5, <1>6, <1>7, <1>8 DEF RolloutInv

\* The new poller holds a page only while it stores it.
LEMMA NewPageInHand ==
  ASSUME newPc # "upsert" => newBatch = {}, NewProofs!PollerNext
  PROVE  (newPc # "upsert" => newBatch = {})'
BY DEF NewProofs!PollerNext, NewProofs!Tick, NewProofs!SyncStep,
   NewProofs!BeginSync, NewProofs!QueryPage, NewProofs!UpsertNext,
   NewProofs!NextPage, NewProofs!NextState, NewProofs!EndSync,
   NewProofs!SyncFails, NewProofs!SyncReturns, NewProofs!SyncComplete,
   NewProofs!syncVars

\* A step of the new poller, in the overlap or alone.
LEMMA NewKeepsRollout ==
  ASSUME RolloutInv, NewStep(New!PollerNext)
  PROVE  RolloutInv'
<1>1. /\ pods \in {"both", "new"} /\ NewProofs!PollerNext /\ pods' = pods
      /\ batch' = batch /\ stateIx' = stateIx
      /\ UNCHANGED pollVars /\ chain' = chain
  BY SameNewPoller, PollersLeaveChain DEF NewStep, pollVars, syncVars
<1>2. NewProofs!PollerAloneTypeOK /\ NewProofs!CacheNeverAhead
  BY SharedFacts DEF RolloutInv, RolloutTypeOK, PollerAloneTypeOK
<1>3. NewProofs!PollerAloneTypeOK'
  BY <1>1, <1>2, NewKeepsTypes
<1>4. NewProofs!CacheNeverAhead' /\ NewProofs!BatchSound'
  BY <1>1, <1>2, NewKeepsCache DEF RolloutInv
<1>5. CacheNeverAhead'
  BY <1>4 DEF CacheNeverAhead, NewProofs!CacheNeverAhead, NewProofs!IsScoped,
     IsScoped, NewProofs!RowKey, RowKey, NewProofs!Canonical, Canonical,
     NewProofs!OpenStates, OpenStates, NewProofs!Ended, Ended
<1>6. BatchSound'
  BY <1>1 DEF RolloutInv, BatchSound, Reached, IsScoped
<1>7. calm' \in BOOLEAN /\ (calm' => pods = "new" /\ (calm \/ NewProofs!BeginSync))
  BY SameNewPoller DEF RolloutInv, RolloutTypeOK, NewStep, New!BeginSync, NewProofs!BeginSync
<1>8. calm' => NewProofs!NoStaleReopen'
  <2>1. CASE calm
    BY <1>1, <1>2, <2>1, NewKeepsOrder DEF RolloutInv
  <2>2. CASE NewProofs!BeginSync
    <3>1. newBatch' = {}
      BY <2>2 DEF NewProofs!BeginSync, RolloutInv
    <3> QED
      BY <3>1 DEF NewProofs!NoStaleReopen
  <2> QED
    BY <1>7, <2>1, <2>2
<1>9. (newPc # "upsert" => newBatch = {})'
  BY <1>1, NewPageInHand DEF RolloutInv
<1>10. RolloutTypeOK'
  <2>1. ChainTypeOK' /\ LeaseTableTypeOK' /\ FaultsTypeOK'
    BY <1>3 DEF NewProofs!PollerAloneTypeOK, NewProofs!ChainTypeOK, ChainTypeOK,
       NewProofs!LeaseTableTypeOK, LeaseTableTypeOK, NewProofs!LeaseKey,
       LeaseKey, NewProofs!LeaseState, LeaseState, NewProofs!Text, Text,
       NewProofs!Spelling, Spelling, NewProofs!FaultsTypeOK, FaultsTypeOK,
       NewProofs!OpenStates, OpenStates
  <2>2. New!PollerTypeOK'
    BY <1>3 DEF NewProofs!PollerAloneTypeOK, NewProofs!PollerTypeOK,
       New!PollerTypeOK, NewProofs!leaseStates, New!leaseStates
  <2>3. PollerTypeOK'
    BY <1>1 DEF RolloutInv, RolloutTypeOK, PollerAloneTypeOK, PollerTypeOK,
       pollVars, syncVars, leaseStates
  <2> QED
    BY <1>1, <1>7, <2>1, <2>2, <2>3
    DEF RolloutInv, RolloutTypeOK, PollerAloneTypeOK
<1> QED
  BY <1>1, <1>4, <1>5, <1>6, <1>7, <1>8, <1>9, <1>10 DEF RolloutInv

\* The chain moves under the pages of both.
LEMMA ChainKeepsRollout ==
  ASSUME RolloutInv, ChainMoves, UNCHANGED <<pods, newVars, calm>>
  PROVE  RolloutInv'
<1>1. /\ ChainNext /\ leases' = leases /\ faults' = faults
      /\ pods' = pods /\ calm' = calm
      /\ UNCHANGED <<leases, batch, stateIx>>
      /\ UNCHANGED <<leases, newBatch, newStateIx>>
      /\ newPc' = newPc /\ newPage' = newPage /\ newFull' = newFull
      /\ newTick' = newTick /\ UNCHANGED pollVars
  BY DEF ChainMoves, pollVars, syncVars, newVars
<1>2. ChainTypeOK /\ PollerTypeOK /\ New!PollerTypeOK
  BY DEF RolloutInv, RolloutTypeOK, PollerAloneTypeOK
<1>3. CacheNeverAhead' /\ BatchSound'
  BY <1>1, <1>2, ChainKeepsCache DEF RolloutInv
<1>4. NewProofs!BatchSound'
  BY <1>1, <1>2, ChainKeepsNewPage, SharedFacts, SameNewPoller DEF RolloutInv
<1>5. RolloutTypeOK'
  BY <1>1, <1>2, ChainKeepsType
  DEF RolloutInv, RolloutTypeOK, PollerAloneTypeOK, LeaseTableTypeOK,
      FaultsTypeOK, PollerTypeOK, pollVars, syncVars, leaseStates,
      New!PollerTypeOK, New!leaseStates
<1>6. NoStaleReopen => NoStaleReopen'
  BY <1>1 DEF NoStaleReopen, RowKey, Canonical
<1>7. NewProofs!NoStaleReopen => NewProofs!NoStaleReopen'
  BY <1>1 DEF NewProofs!NoStaleReopen, NewProofs!RowKey, NewProofs!Canonical,
     NewProofs!leaseStates
<1> QED
  BY <1>1, <1>3, <1>4, <1>5, <1>6, <1>7 DEF RolloutInv

\* Pods come and go, or nothing happens.
LEMMA PodsKeepRollout ==
  ASSUME RolloutInv, Surge \/ Retire \/ UNCHANGED rolloutVars
  PROVE  RolloutInv'
<1>1. /\ chain' = chain /\ leases' = leases /\ faults' = faults /\ calm' = calm
      /\ pollPc' = pollPc /\ stateIx' = stateIx /\ page' = page
      /\ batch' = batch /\ full' = full /\ tick' = tick
      /\ newPc' = newPc /\ newStateIx' = newStateIx /\ newPage' = newPage
      /\ newBatch' = newBatch /\ newFull' = newFull /\ newTick' = newTick
  BY DEF Surge, Retire, rolloutVars, pollerAloneVars, pollVars, syncVars, newVars
<1>2. /\ pods' \in {"old", "both", "new"} /\ (pods' = "old" => pods = "old")
      /\ pods = "new" => pods' = "new"
  BY DEF Surge, Retire, rolloutVars, RolloutInv, RolloutTypeOK
<1>3. RolloutTypeOK'
  BY <1>1, <1>2
  DEF RolloutInv, RolloutTypeOK, PollerAloneTypeOK, ChainTypeOK,
      LeaseTableTypeOK, FaultsTypeOK, PollerTypeOK, leaseStates,
      New!PollerTypeOK, New!leaseStates
<1>4. CacheNeverAhead' /\ BatchSound'
  BY <1>1 DEF RolloutInv, CacheNeverAhead, BatchSound, Reached, IsScoped
<1>5. NewProofs!BatchSound'
  BY <1>1 DEF RolloutInv, NewProofs!BatchSound, NewProofs!Reached,
     NewProofs!IsScoped, NewProofs!leaseStates
<1>6. NoStaleReopen => NoStaleReopen'
  BY <1>1 DEF NoStaleReopen, RowKey, Canonical
<1>7. NewProofs!NoStaleReopen => NewProofs!NoStaleReopen'
  BY <1>1 DEF NewProofs!NoStaleReopen, NewProofs!RowKey, NewProofs!Canonical,
     NewProofs!leaseStates
<1> QED
  BY <1>1, <1>2, <1>3, <1>4, <1>5, <1>6, <1>7 DEF RolloutInv

\* Before the rollout there is one poller, and it has not begun.
LEMMA InitKeepsRollout == RolloutInit => RolloutInv
<1> SUFFICES ASSUME RolloutInit PROVE RolloutInv
  OBVIOUS
<1>1. leases = {} /\ batch = {} /\ newBatch = {} /\ pods = "old" /\ calm = FALSE
  BY DEF RolloutInit, PollerAloneInit, LeaseTableInit, PollerInit, New!PollerInit
<1>2. New!PollerTypeOK
  <2>1. DOMAIN New!leaseStates = 1..3
    BY DEF New!leaseStates
  <2>2. newFull \in BOOLEAN /\ newTick \in BOOLEAN
    BY DEF RolloutInit, New!PollerInit
  <2>3. /\ newPc \in {"waiting", "query", "upsert"} /\ newBatch \subseteq LeaseId
        /\ newStateIx \in DOMAIN New!leaseStates /\ newPage \in Nat \ {0}
    BY <2>1 DEF RolloutInit, New!PollerInit
  <2> QED
    BY <2>2, <2>3 DEF New!PollerTypeOK
<1>3. RolloutTypeOK
  BY <1>1, <1>2, InitTypes
  DEF RolloutInit, PollerAloneInit, RolloutTypeOK, PollerAloneTypeOK
<1> QED
  BY <1>1, <1>3 DEF RolloutInv, CacheNeverAhead, BatchSound, NoStaleReopen,
     NewProofs!BatchSound

\* The inductive invariant of the rollout.
LEMMA RolloutInvHolds == RolloutSpec => []RolloutInv
<1>1. RolloutInv /\ [RolloutNext]_rolloutVars => RolloutInv'
  BY OldKeepsRollout, NewKeepsRollout, ChainKeepsRollout, PodsKeepRollout
  DEF RolloutNext
<1> QED
  BY <1>1, InitKeepsRollout, PTL DEF RolloutSpec

\* Everything keeps its type while the image is rolled out.
THEOREM RolloutTypeCorrect == RolloutSpec => []RolloutTypeOK
<1>1. RolloutInv => RolloutTypeOK
  BY DEF RolloutInv
<1> QED
  BY <1>1, RolloutInvHolds, PTL

\* No row is ahead of the chain, though two pollers write the table, each from a
\* page that the other knows nothing of (deploy/deployment.yaml).
THEOREM RolloutNeverAhead == RolloutSpec => []CacheNeverAhead
<1>1. RolloutInv => CacheNeverAhead
  BY DEF RolloutInv
<1> QED
  BY <1>1, RolloutInvHolds, PTL

\* A row of an ended lease is not shown as active again, but in the overlap and
\* until the new poller has begun another Sync.
THEOREM RolloutReopensOnlyInOverlap == RolloutSpec => RowsReopenOnlyInOverlap
<1> DEFINE Step == pods = "old" \/ calm =>
                     \A row \in leases : row.state \in Ended => row \in leases'
<1>1. RolloutInv /\ [RolloutNext]_rolloutVars => [Step]_rolloutVars
  <2> SUFFICES ASSUME RolloutInv, RolloutNext, pods = "old" \/ calm,
                      NEW row \in leases, row.state \in Ended
               PROVE  row \in leases'
    OBVIOUS
  <2>1. CASE OldStep(PollerNext)
    <3>1. PollerNext /\ pods = "old"
      BY <2>1 DEF OldStep, RolloutInv
    <3> QED
      BY <3>1, PollerKeepsEnded DEF RolloutInv, RolloutTypeOK
  <2>2. CASE NewStep(New!PollerNext)
    <3>1. NewProofs!PollerNext /\ calm
      BY <2>2, SameNewPoller DEF NewStep
    <3>2. NewProofs!PollerAloneTypeOK /\ NewProofs!CacheNeverAhead
      BY SharedFacts DEF RolloutInv, RolloutTypeOK, PollerAloneTypeOK
    <3> QED
      BY <3>1, <3>2, NewKeepsEnded DEF RolloutInv
  <2>3. CASE Surge \/ Retire \/ ChainMoves
    BY <2>3 DEF Surge, Retire, ChainMoves, pollerAloneVars
  <2> QED
    BY <2>1, <2>2, <2>3 DEF RolloutNext
<1> QED
  BY <1>1, RolloutInvHolds, PTL DEF RolloutSpec, RowsReopenOnlyInOverlap
=============================================================================
