# A verification of akash-reputation in TLA+

akash-reputation keeps ratings between an Akash provider and the deployers that
lease from it. A rating is a message signed with the rater's wallet key; the
service stores it if the signature is the rater's and the two parties have a
lease. This directory holds TLA+ models of the service, of its command line
client and of its web pages, the TLC configurations that check them on small
instances, and theorems proved with TLAPS. Paths below are relative to the root
of the repository.

Contents: 1 the system, 2 the modules, 3 the runs, 4 bounds and fairness,
5 proofs, 6 what the code does that its documents do not say, 7 what is assumed
and left out, 8 the plan, 9 running it.

## 1. The system

One Go process (`cmd/reputation`) runs two activities over one PostgreSQL
database, for one provider (`PROVIDER_ADDR`): a poller that copies the
provider's leases from the chain, and an HTTP API. The chain is reached only
through the `provider-services` command. Clients are the `repute-sign` command
and a web application; both sign, only the web application also re-verifies.

| Component | Source | State | Operations | Talks to |
|---|---|---|---|---|
| messages and signatures | `internal/adr036`, `web/src/adr036.ts` | none | Validate, Author, Subject, SignDoc, Sign, Verify, DecodeAddress; verifyRecord in the browser | used by all |
| store | `internal/store` | tables `leases`, `feedback`, the id sequence | Open, UpsertLease, LeaseExists, ListLeasesByOwner, InsertFeedback, Reputation, ListFeedback, Ping, Close | poller, API |
| lease poller | `internal/leases` | position in a Sync, the page in hand, the ticker | Run, Sync, VerifyLeaseLive | chain, store, API |
| HTTP API | `internal/api` | one goroutine per request | POST /feedback; GET /reputation, /feedback, /leases, /healthz | store, poller |
| service process | `cmd/reputation` | the two above, signal context | start with retries, run, shut down | all |
| signing command | `cmd/repute-sign` | one run | find the key, build, sign, print or post | API |
| web application | `web/src` | per view: the address shown, what was loaded, the wallet | look up, rate, dashboard | API, wallet |
| manifests | `deploy`, `Dockerfile` | none | one replica, rolling update, volumes, probes | |

**How they interact.** The poller and the API write the same lease table and
never coordinate. A request of the API first looks into the table; on a miss it
asks the chain itself and then writes the row that it missed, with state
`verified`. Between any two calls of a request, other requests, the poller and
the chain move. The database outlives the process, and during a rolling update
two processes share it.

**What is hard.**

- A Sync is not atomic: three listings (one per lease state) of several pages
  each, over a chain that moves between the pages, and a page is stored row by
  row after it was read.
- A request is a chain of up to four calls, each of which may fail, and the code
  answers each failure differently: 500, 422, or not at all (`api.go:122`
  discards the error).
- A call that returns an error may still have been committed, and a client that
  saw a 500 or lost its connection retries.
- The same value is compared as text in one place and as a number or an instant
  in another (`dseq`, `issued_at`), and two encoders written by hand in two
  languages have to agree on every byte of a comment.
- Commands run without a deadline; a signal drains the requests but not the
  poller, and the pool is closed under it.
- Views of the web application await answers, approvals and signatures that may
  arrive out of order; one effect is cancelled, others are not.

**What makes each component correct.**

- *Messages*: a rating is stored for its author only and says what was signed,
  and it verifies in the browser if it was plainly written, and only then
  (`RowsAreSigned`); a badge is only for its author (`BadgesAreEarned`); the server
  makes the bytes that the tool signed (`ToolSignaturesVerify`), and the browser
  those of the server but for two characters (`PortAgrees`).
- *Store*: one rating per author and deployment, decided by the unique index
  alone; the reputation counts each rating once (`ImplementsLedger`, `Balanced`).
- *Poller*: the cache may lag behind the chain but is never ahead of it
  (`CacheNeverAhead`), never reopens an ended lease (`EndedRowsStayEnded`), gets
  everything if the chain is quiet (`QuietSyncIsExact`) and gets there in the end
  (`CacheConverges`); a second poller spoils no more than a row, for a while
  (`RowsReopenOnlyInOverlap`).
- *API*: what is stored was earned by a lease (`EarnedHere`), the answer says
  what the table holds (`AnswersTruthful`), and a stale cache costs nobody a
  rating (`LeasedRatingsAreTaken`, `OnlyAFailureHidesALease`).
- *Process*: no accepted request is lost to an orderly end (`GracefulEnd`), a
  signal does end it (`EndsWhenCancelled`), it serves once its database stays up
  (`EventuallyServes`), and only an absurd interval makes it panic
  (`OnlyBadIntervalsPanic`).
- *repute-sign*: exit code 0 means stored (`SuccessMeansStored`), what is stored is
  what the flags asked for (`StoredAsAsked`), the server refuses nothing that the
  tool found in order but a long comment (`ToolAndServerAgree`), and who repeats a
  run finds out what became of the first (`RepeatsAreTold`).
- *Web pages*: what is shown under an address belongs to it
  (`ShowsWhatWasLookedUp`, `ListsTheirLeasesUnlessRaced`), the numbers agree with
  the ratings (`NumbersAgreeWithRatings`), every rating gets the badge it deserves
  (`BadgesAreEarned`, `EveryRatingJudged`), and one signs as oneself
  (`SignedAsOneself`).

`PROJECT.json` lists the hazards of the code, each at its line and with the
properties that would show it going wrong.

## 2. The modules

```
Vocabulary   texts and their spellings; addresses, dseq, (gseq, oseq)
Faults       the shared budget of failures
  Chain          (external) leases on the chain and the queries of them
  LeaseTable     table leases               } LeasePoller -> SyncCoverage
                                                          -> Rollout (two of them)
  Adr036         messages and signatures      \
  FeedbackTable  table feedback                FeedbackApi -> ReputeSign (clients)
        LeasePoller + FeedbackApi  =  ReputationService  implements  RatingLedger
        FeedbackTable -> Listings  -> ReputationView     implements  AddressedView

ServiceLifecycle    the process and what surrounds it
RatingPages         wallets, lists of leases and the form
CanonicalText       two encoders, character by character
```

| Module | Models | Correspondence |
|---|---|---|
| `Vocabulary` | the values that are exchanged | A `dseq` or a date is a record of what it denotes and of its spelling: `canonical` (what the program or the chain would write), `alternate` (reads as the same value), `unreadable`, `empty`. `gseq` and `oseq` travel together and are one number. A text in base64 is what it decodes to and whether it is broken into lines. |
| `Faults` | command and database errors, crashes, broken connections | one counter, bounded by `MaxFaults` |
| `Adr036` | `internal/adr036`; `verifyRecord` of `web/src/adr036.ts` | One operator per function. The canonical JSON is injective on the fields of the message, so the sign document is a record of the message, the signer, and how a backspace or a form feed in the comment is escaped: `SignDoc` (Go) and `BuildSignDoc` (TypeScript) differ in that, as `CanonicalText` shows of the encoders themselves. A signature is a record of the key and the document. |
| `Chain` | external | Leases open, and end as `closed` or `insufficient_funds`. `Matching` and `Page` are the listing that Sync reads, `SingleLease` the query of `VerifyLeaseLive`. |
| `LeaseTable` | table `leases` | `UpsertLease`, `LeaseExists` |
| `LeasePoller` | `internal/leases` | `BeginSync`, `QueryPage`, `UpsertNext`, `NextPage`, `NextState`, `EndSync` are the statements of Run and Sync between which others may act; `SyncFails` is every error return of Sync; `stateIx`, `page`, `batch`, `full` are its locals. `Tick` fills the one place of the ticker's channel. |
| `SyncCoverage` | no code of its own | remembers the chain as it was when the current Sync began |
| `Rollout` | `deploy/deployment.yaml`: the default strategy | two instances of `LeasePoller`, the old pod's and the new one's, on one table; `Surge` and `Retire` are the kubelet's. `calm` is auxiliary. |
| `FeedbackTable` | table `feedback` | `InsertFeedback` with the unique index and the id that a conflict uses up; `ReputationIn` is the aggregate query; `Listed` is a row as GET /feedback writes it |
| `FeedbackApi` | `handlePostFeedback` | `reqPc[q]` is the call that request q is at. `Receive` decodes and does the checks that touch nothing shared (400, 401). `LookupLease`, `VerifyLive`, `CacheLease`, `StoreRating` are the four calls, each with its failure (`...Fails`). A client that retries sends the same body in another request. |
| `Listings` | `handleReputation`, `handleListFeedback`, the queries behind them | operators only: they change nothing. `ListLimit` is the 500 of the query. |
| `ReputationService` | `cmd/reputation` | poller and API over one database; `Restart` is a crash at any point followed by a start: requests in flight get no answer, the poller begins with a Sync |
| `RatingLedger` | abstract | What the service promises: parties of a leased deployment rate each other at most once each, and a running account per party. It has no cache, requests, failures or polls. |
| `ServiceLifecycle` | `main`, `openStoreWithRetry`, `resolveDSN`, `envDuration`; `Run` and the requests by the call they are in | `proc` is the process: its phase, the attempts to open the store, whether the context is cancelled, the listener, the pool, where the poller is, and the exit code. `Signal`, `Kill`, `StartAgain` are the kubelet's; `DbChanges` the database's. Commands may hang. |
| `ReputeSign` | `cmd/repute-sign` | A run is `Invoke` (flags to envelope; `LoadKey`, `ResolveScore`, `Message`, `Signable` are its functions), `Deliver`, `Answered` or `PostFails`, against the handler of `FeedbackApi`. Run r posts as request r. |
| `AddressedView` | abstract | What a page that loads data for an address promises: what it shows is about the address it shows, and choosing clears. |
| `ReputationView` | `Lookup.tsx`, `ReputationView.tsx` | `effects` are the effects in the order they began, cancelled ones included. Two answers in either order, `Loaded`, `LoadFails`, `Verified`. |
| `RatingPages` | `App.tsx`, `WalletButton.tsx`, `RateForm.tsx`, `ProviderDashboard.tsx`, `Rate.tsx` | `Render` says what React keeps and what it mounts anew; `pending`, `loads`, `signing` are what is awaited from wallets and from the service. `loads` is a set: two unanswered requests for one account are one, since both answers list the leases of that account. `due` is an effect that is still to run; `raced` is auxiliary. |
| `CanonicalText` | the encoders of `internal/adr036` and `web/src/adr036.ts` | A text is a sequence of characters told apart by how an encoder treats them; signed bytes are a sequence of units. `CanonicalBytes` marshals twice, as the code does. |

`ReputationService` is shown to implement `RatingLedger` by an `INSTANCE` whose
`WITH` clause is the refinement mapping: deployments leased are those with a lease
on the chain, ratings are the rows of this provider with a plain dseq, the
account is `Reputation` of these rows. Rows outside that mapping are exactly what
the runs `earned` and `one_rating` are about. `ReputationView` implements
`AddressedView` with the addresses that the numbers and the ratings on the page
are about as `about`.

`MCPoller`, `MCService`, `MCLifecycle`, `MCReputeSign`, `MCView`, `MCPages` and
`MCRollout` only give the constants values. `*Proofs` hold the theorems:

| Module | Proves about |
|---|---|
| `CountingTheorems` | finite sets: sums, numbers of pairs, places in a listing; used by the others |
| `LeasePollerProofs` | `LeasePoller`, `SyncCoverage` |
| `ReputationServiceProofs` | `ReputationService`; `Rollout`, whose two pollers need the same lemmas twice |
| `RatingsProofs` | `ReputationService` on ratings and answers, its refinement of `RatingLedger`; `ReputeSign`, which calls the same handler |
| `RatingLedgerProofs` | `RatingLedger` |
| `ServiceLifecycleProofs` | `ServiceLifecycle` |
| `ReputationViewProofs` | `ReputationView` and its refinement of `AddressedView`; `CanonicalText`, the other half of what the browser does |
| `RatingPagesProofs` | `RatingPages` |

`Rollout`, `ReputeSign` and `CanonicalText` name their initial states, steps and
specifications after themselves (`RolloutSpec`, `RunsSpec`, `TextSpec`), since they
are proved about beside another specification.

Some definitions have a *variant* beside them, named after them with a suffix
(`QueryPage_offByOne`). A variant is the definition with a plausible mistake in
it. No specification uses one; `PROJECT.json` says which property notices which
mistake when the variant stands in for the original.

## 3. The runs

| Run | Module, cfg | What it shows |
|---|---|---|
| `poller` | MCPoller, `poller.cfg` | The poller beside a moving chain, with three leases, pages of two and a failing call. The cache is never ahead, ended rows stay ended, a Sync during which the chain stands still leaves an exact copy, and in the end every row shows the state in which the chain left its lease. |
| `service` | MCService, `service.cfg` | Two requests, each with any of ten bodies that pass decoding (up, down, the other party's, one that names another provider, one with a respelled dseq, one with a respelled date, one with a form feed in its comment, one with a key and one with a signature broken into lines, one altered after signing), race each other, the poller, the chain, and two failures or restarts. |
| `ledger` | MCService, `ledger.cfg` | Every such behaviour is one of the ledger, for two leases of one deployment rated from both sides, and its accounts balance. |
| `answered` | MCService, `answered.cfg` | With fair scheduling, a rating of a lease on the chain ends as 201 or 409 unless something failed, and rows that the API writes as `verified` are overwritten by the chain's state in the end. |
| `lifecycle` | MCLifecycle, `lifecycle.cfg` | The process through any number of starts and ends, with two requests, a database that comes and goes, commands that hang, signals, kills, and every kind of interval. |
| `signer` | MCReputeSign, `signer.cfg` | Two runs of the tool, the second of which may repeat the first, in every way that flags and keys can be in order or not, against the handler and the tables, with a connection that breaks. |
| `lookup` | MCView, `lookup.cfg` | Two lookups whose answers arrive in any order or fail, while others store ratings, also edited and misattributed ones. |
| `pages` | MCPages, `pages.cfg` | Wallets come and go while lists of leases load and signatures are pending. |
| `canonical` | CanonicalText, `canonical.cfg` | Every text of up to three characters of all classes, from either signer, through the server to the browser. |
| `rollout` | MCRollout, `rollout.cfg` | Two pollers overlap, in every interleaving of their pages. |
| `earned`, `one_rating` | MCService | Violations; see section 6. |

`EndedRowsStayEnded` is a property of the single poller alone: in the composed
service the API may overwrite an ended row with `verified` (it looks the lease up,
misses, and writes after the poller has stored the row), and in a rollout one
poller may store a page that the other has overtaken. `CacheConverges`, checked
in `answered` and `rollout` too, says that this heals, and
`RowsReopenOnlyInOverlap` that the second cause ends with the overlap.

## 4. Bounds and fairness

- **Two requests, two runs of the tool.** The request handler shares nothing with
  another request but the two tables, and the properties speak of one rating or
  a pair of them. A third request adds no new kind of conflict to the insert,
  which is one statement. The proofs of section 5 are for any number.
- **Leases.** Poller: three of this provider at page size 2, the smallest instance
  with both a full and a short page in one listing and a listing whose length is
  a multiple of the page size. Service: one lease (two, under one deployment, in
  `ledger`), with a second dseq that nobody leased. Rollout: one of this provider
  and one of another, page size 1; the property is about single rows.
- **`MaxFaults`** is 1, or 2 where a failure of one request and a restart, or
  the failures of both requests, may coincide (`service`). It is a guard of every
  failing action. `CacheConverges` is a claim about what follows the last failure,
  so a finite budget is what it needs; `LeasedRatingsAreTaken` and
  `OnlyAFailureHidesALease` excuse a request once something has failed, since a
  failing call may end it with 422 or 500.
- **Lifecycle.** Three attempts stand for thirty. A duration has four bits and a
  second is three, so that a number of seconds may fit, wrap to a negative
  duration, or wrap to a positive one. The database changes without bound, and
  so do signals while it is down; kills, other signals and a port that cannot
  be opened share the one fault.
- **Lookup.** `MaxLookups` is 2: one that is cancelled and one that is not.
  `ListLimit` is 2 where the code has 500, and three ratings of one address may
  be stored, so that a list can be full and can be cut. **Pages.**
  The provider's account and two deployers; `MaxPending` and `MaxLoads` are 2,
  the least number with a race.
- **Canonical.** Both encoders work on each character by itself, so three
  characters show any effect of a neighbour that there could be; the theorems
  are for every length.
- **Symmetry** in the requests is used in `service`, `ledger` and `signer`, which
  have no liveness property. Requests enter no expression other than as
  arguments of functions on `Req`.
- Constants over which a run says nothing are single values (`Instant`), and the
  unbounded counters (`page`, `nextId`) are bounded by the leases and by the
  requests, so they carry no bound of their own; in `lookup`, `nextId` is bounded
  by the unique index, since only a rating that is new is stored.

**Fairness.**

- `PollerAlone` and `FairSpec` of the service assume weak fairness of `Tick` (a Go
  ticker), of `SyncStep` (the goroutine of Run is scheduled and its calls return)
  and, in `FairSpec`, of each request's `HandlerStep`. Weak fairness is enough:
  nothing but the process itself disables these steps. Nothing obliges the chain
  to move, a client to send, or a call to fail.
- That calls return is an assumption about the environment and not something the
  code enforces: the commands run with no deadline (`poller.go:135`).
  `ServiceLifecycle` drops it for commands: there neither `CommandReturns` nor
  `LiveReturns` is fair, and still a signal ends the process and the service
  serves. What remains fair are the goroutines, the calls of the database (which
  return with a result or an error), the listener, and the kubelet's restart.
- `ReputationView` assumes that each effect goes on, that is that its answers
  arrive or fail; `fetch` settles in the end.
- `Rollout` is fair to the pollers of the pods that run and obliges the rollout
  neither to begin nor to end.

Deadlock is checked but in `signer`, `lookup` and `canonical`, whose behaviours end
(both runs are over, the lookups are used up, the rating is at its end).

## 5. Proofs

All theorems hold for every value of the constants that satisfies the named
assumptions of the modules (`VocabularyAssumption`, `FaultsAssumption`,
`ChainAssumption`, `LeasePollerAssumption`, `Adr036Assumption`,
`FeedbackApiAssumption`, `SentinelAssumption`, `ReputeSignAssumption`,
`EnvelopeAssumption`, `LifecycleAssumption`, `ListingsAssumption`,
`ReputationViewAssumption`, `RatingPagesAssumption`, `CanonicalTextAssumption`): any
finite set of leases in any order, any page size, any number of requests, bodies,
command lines, lookups, failures and restarts. The assumptions are types and
distinctness of placeholders, and two that carry content: `ChainAssumption` says
that a listing has a fixed order without ties, and `EnvelopeAssumption` that what the
tool can sign is among the bodies that requests may have. The ledger assumes nothing.

| Module | Theorem | States |
|---|---|---|
| `LeasePollerProofs` | `PollerTypeCorrect` | `PollerAlone => []PollerAloneTypeOK` |
| | `PollerNeverAhead` | `PollerAlone => []CacheNeverAhead` |
| | `PollerNeverReopens` | `PollerAlone => EndedRowsStayEnded` |
| | `CoverageIsThePoller` | `CoverageSpec => PollerAlone`: the auxiliary variable changes nothing |
| | `SyncCopiesExactly` | `CoverageSpec => []QuietSyncIsExact` |
| `ReputationServiceProofs` | `ServiceTypeCorrect` | `Spec => []TypeOK` for the composed service |
| | `RatingsHereAreEarned` | `Spec => []EarnedHere` |
| | `ServiceCacheNeverAhead` | `Spec => []CacheNeverAhead` for the composed service |
| | `RolloutTypeCorrect` | `RolloutSpec => []RolloutTypeOK` |
| | `RolloutNeverAhead` | `RolloutSpec => []CacheNeverAhead`, for two pollers |
| | `RolloutReopensOnlyInOverlap` | `RolloutSpec => RowsReopenOnlyInOverlap` |
| `RatingsProofs` | `RatingsAreSigned` | `Spec => []RowsAreSigned` |
| | `AnswersAreTrue` | `Spec => []AnswersTruthful` |
| | `NothingElseHidesALease` | `Spec => OnlyAFailureHidesALease` |
| | `ServiceImplementsLedger` | `Spec => ImplementsLedger`: the service implements `RatingLedger` |
| | `SumsAreBalanced` | `Spec => []Balanced` for the composed service |
| | `RunsTypeCorrect` | `RunsSpec => []RunsTypeOK` |
| | `SuccessIsStored` | `RunsSpec => []SuccessMeansStored` |
| | `ToolPassesTheServer` | `RunsSpec => []ToolAndServerAgree` |
| | `RatingsAreAsAsked` | `RunsSpec => []StoredAsAsked` |
| | `ConflictsAreToldTruly` | `RunsSpec => []RepeatsAreTold` |
| `RatingLedgerProofs` | `LedgerTypeCorrect`, `LedgerBalanced` | types and `Balanced` on the ledger |
| `ServiceLifecycleProofs` | `LifecycleTypeCorrect` | `Spec => []TypeOK` for the process |
| | `IntervalsPanicOnlyIfBad` | `Spec => []OnlyBadIntervalsPanic` |
| | `EndsAreGraceful` | `Spec => GracefulEnd` |
| `ReputationViewProofs` | `BadgesEarned` | `Spec => []BadgesAreEarned` |
| | `PageIsAddressed` | `Spec => ShowsWhatWasLookedUp`: the page implements `AddressedView` |
| | `ViewTypeCorrect` | `Spec => []TypeOK` for the page |
| | `NumbersAgree` | `Spec => []NumbersAgreeWithRatings` |
| | `ToolTextsVerify` | `TextSpec => []ToolSignaturesVerify` |
| | `PortAgreesOnTexts` | `TextSpec => []PortAgrees` |
| | `TextTypeCorrect` | `TextSpec => []TextTypeOK` |
| `RatingPagesProofs` | `PagesTypeCorrect` | `Spec => []TypeOK` for the pages |
| | `PagesSignAsOneself` | `Spec => []SignedAsOneself` |
| | `PagesListTheirLeases` | `Spec => []ListsTheirLeasesUnlessRaced` |

**Counting.** Three things in the code count: `Reputation` sums scores and counts
pairs, the poller stops at a page that is not full, and the page shows numbers
beside a list. `CountingTheorems` does the induction that this needs over sets: a
set of subsets that has the empty one and grows by every element has them all
(`SubsetInduction`), and likewise for the naturals (`SetInduction`). No operator is
a parameter, so the provers can use them. From these: the fold that defines the
sum is a function that adds a row at a time, and so, for scores of 1 and -1, the
difference of two cardinalities (`ScoresAddUp`); adding a row adds one to the right
number (`OneMoreCounts`); every row of a finite listing has a place, no two the same
(`PlacesAreTaken`); and a page with fewer rows than its limit is the last
(`ShortPageIsLast`).

**The poller.** `CacheNeverAhead` is not inductive: it says nothing of a page that
was read and is not stored yet. `BatchSound` adds that every lease of the page in
hand is this provider's and has reached the state it was listed under. It holds
when the page is read, and the chain only moves forward (`ReachedForGood`).
`EndedRowsStayEnded` needs more, because a page of active leases may be stored
long after one of them ended: `NoStaleReopen` says that no row of a lease in such
a page shows an end, which holds because only a later listing of the same,
single poller could have stored it. This is where the order of the states in
`leaseStates` and the absence of a second poller enter.

`QuietSyncIsExact` speaks of the end of a Sync; `Covered` says how far it has come:
all leases of the earlier states, of the earlier pages and of this page, but for
the batch, are stored, as long as the chain is what it was when the Sync began.
That this survives a move of the chain is the point of `Behind`: the chain has come
from `atStart` and never goes back, so a chain that equals `atStart` has not moved
in between. `NextState` needs `ShortPageIsLast`. The invariant holds for every page
size and order.

**The rollout.** `RolloutInv` has `BatchSound` once for each poller, and
`NoStaleReopen` only for the one that is alone: for the old one until the overlap
begins, for the new one once it has begun another Sync (`calm`), when it holds no
page. In the overlap `NoStaleReopen` is false of both, which is why the property has
its exception. The lemmas about a poller's step are those of the single poller,
instantiated for the new one.

**The service.** Types need `Checked`: a request past its checks keeps the
message that passed them, so what it writes into the tables fits their columns.
`EarnedHere` needs `RowsBacked` (a row naming this provider is the row of a lease
on the chain, whoever wrote it) and `RequestsBacked` (a request about to write
has found such a row or such a lease). The condition on the provider cannot be
dropped: without it `RowsBacked` is false, and the run `earned` shows how. The
lemmas about the poller are stated for its steps and not for `PollerAlone`, so
the proof for the service reuses them.

**Ratings and answers.** `AnswersTruthful` speaks of rows by their ids, and an
insert gives a new id, so its invariant adds `IdsDrawn`: every id in the table
and in an answer was drawn from the sequence. Then an answer stays true
because rows are only added, and no second answer can carry an id that is still
to be drawn. `RowsAreSigned` rests on `Checked`: the row is written from the
message whose signature was verified three calls earlier. Its last conjunct is an
equivalence. That a plainly written row passes needs the whole message back as it
was signed, field by field; that any other row fails, that each of the three ways
shows: the date comes back in another spelling, the two documents differ in their
escapes, or the text does not decode (`CheckedRowIsSigned`).
`OnlyAFailureHidesALease` is about the one step that answers 422: without a
failure the query was answered by the chain, and a lease is never removed there.

**The signing tool.** The lemmas about the handler are stated for `ApiNext` and the
variables it touches (`HandlerTypeOK`), so they hold for whatever sends the
requests. To them `RunsInv` adds, for each run, that what was posted is what its
command line signs, and that exit code 0 was an answer 201 (`RunAsked`); for
each answer 400 or 401 that the body deserved it (`Refused`); and for each row the
run that it was stored for, told 201 or 500 (`StoredFor`). A run that is told 409
can then not be the one whose rating is there. That the tool's checks imply the
server's is `SignedIsWellFormed` and `SignedIsAttributed`.

**The ledger.** `ServiceImplementsLedger` shows every step of the service to be one
of the ledger or to leave it alone. A row is added by an insert alone, and
`RowsAreNew` has what is known then: no row under its index key, and a lease that a
check has seen (from `EarnedHere`'s invariant). If the row is this provider's and
plain, this is the ledger's `Rate`: the accounts change by one credit for the
subject (`RowIsCredited`), because its deployment was not yet among those the subject
was rated of. `TableInv` (finite, and author and subject the two parties by role) is
what that needs. `SumsAreBalanced` follows with `LedgerBalanced`.

`LedgerBalanced` needs that the set of deployments of which a
party was rated is finite, to count it, and that a new rating is of a deployment
not yet in that set (`RateIsOfAnother`): the subject and the deployment determine
the author, who rates only once. With the operator as its own deployer the two
roles coincide, and the argument still holds.

**The process.** That an interval does not panic is arithmetic:
`WrapOfWhatFits` (a product that fits is not changed) and `UsableIsPositive`; the
run has four bits, the theorem any width. For `GracefulEnd`, `PhaseInv` ties the
phase to the listener and the pool: the pool is open for as long as the
process serves or drains, and when the drain ended in time no request is left
that a closed pool or the end could hit, nor can one come in any more.

**The pages.** In `ReputationView` at most the last effect is not cancelled, and
it is the one of the address on the page; each effect's answers are about the
effect's own address (`LoadedInv`, `ShownInv`). So what an effect that is not
cancelled shows is about the address shown, which is the step of `AddressedView`.
`NumbersAgree` has to relate two answers that were given at different times:
`Counted` says of each effect that, while the ratings of its address are those of
its beginning, an answer it has is of exactly these; `PageCounted` that a steady page
shows the sums and the list of one and the same set of rows. That these agree
is `ScoresAddUp` once more, and that the list has every row unless it is at its
limit.
`BadgesEarned` needs that a badge is of a row as it was listed (ids are unique),
and assumes nothing of the rows of the table: they may have been edited. In
`RatingPages`, `PagesInv` says that a form signs for the connected account, that
what is pending was signed in the role of its signer (`OfOneself`), and that
while a list is the only one asked for it is the one wanted (`ListsInv`).

**The encoders.** `SignedInv` says what was signed and what the text has become at
each stage; what is left are facts about single characters, over any sequence.

**Only model-checked.** Liveness (`CacheConverges`, `LeasedRatingsAreTaken`,
`EndsWhenCancelled`, `EventuallyServes`, `EveryRatingJudged`) is outside what TLAPS
proves. Every invariant and every action property of a passing run has a theorem.
That each part of a refinement or an invariant could be violated by a mistake in the
code is shown by the runs with the variants, not by the proofs.

## 6. What the code does that its documents do not say

Two disagreements are runs: the property is the sentence of the document, and TLC
refutes it. `PROJECT.json` has the quotes and lines.

1. `earned`: the live check asks for a lease of *this* provider
   (`internal/leases/poller.go:163`) and is not told which provider the message
   names, so a rating that names another provider is stored on the strength of
   somebody's lease here, with a `verified` row under the other provider.
   `EarnedHere` is what does hold.
2. `one_rating`: the index compares `dseq` as text and the chain reads it as a
   number. Two spellings of a dseq give one author two ratings of a deployment.

For the others there is a configuration that gives TLC's counterexample, and a
passing property that says what does hold, with the exception in it.

| Configuration | Module, property | The document | The code | What holds |
|---|---|---|---|---|
| `reverify.cfg` | MCService, `Reverifiable` | `README.md:11-12`: "anyone can re-verify a stored rating" | the listed rating no longer verifies in the browser if its date was accepted in another RFC 3339 spelling (`issued_at` is stored as an instant and listed re-rendered), if its comment has a backspace or a form feed, or if its base64 has line breaks (Go's decoder skips them, the text is stored as sent, and the browser's decoder throws) | `RowsAreSigned`: nothing else makes it fail, and what `repute-sign` writes is safe but for the two characters |
| `no_lease.cfg` | MCService, `UnprocessableMeansNoLease` | `docs/USAGE.md:222`: 422 means "No lease between you and the other party" | the answer is 422 also when the query of the chain fails | `OnlyAFailureHidesALease` |
| `long_comment.cfg` | MCService, `CommentsUpTo1000CharactersAreTaken` | `docs/USAGE.md:165`: "max 1000 characters" | 1000 bytes | `ToolAndServerAgree` |
| `sync_skips.cfg` | MCPoller, `SyncPullsEveryLease` | `internal/leases/poller.go:90`: "Sync pulls every page of leases" | pages are fetched by number; a lease that leaves the listed state between two pages moves the following ones forward, and one is skipped | `QuietSyncIsExact`, `CacheConverges`, `LeasedRatingsAreTaken` |
| `sync_hangs.cfg` | MCLifecycle, `SyncsOnInterval` | `internal/leases/poller.go:48`: "Run syncs immediately, then on Interval until ctx is cancelled" | a command that hangs stops all later Syncs | `EndsWhenCancelled`, `EventuallyServes` |
| `long_list.cfg` | MCView, `EveryRatingIsShown` | `docs/USAGE.md:251-252`: "you'll see the aggregate score and every rating" | the list stops at 500 ratings | `NumbersAgreeWithRatings` |
| `search_race.cfg` | MCPages, `LeasesWithThem` | `web/src/pages/ProviderDashboard.tsx:30-31`: "Enter a deployer address to see your leases with them" | the answer to an earlier search may arrive last | `ListsTheirLeasesUnlessRaced` |
| `wallet_race.cfg` | MCPages, `YourDeployments` | `docs/USAGE.md:258-260`: "the app finds your deployments automatically" | the answer for the wallet connected before may arrive last | `ListsTheirLeasesUnlessRaced`, `SignedAsOneself` |
| `form_feed.cfg` | CanonicalText, `ByteIdentical` | `web/src/adr036.ts:1-4`: "byte-identical canonical message" | backspace and form feed are `\b` and `\f` in Go and `\u0008`, `\u000c` in the port | `PortAgrees`: no other character differs |

## 7. Assumed and left out

Assumed of the environment:

- One process at a time, except in `Rollout` (`deploy/deployment.yaml` asks for one
  replica and leaves the strategy at its default).
- The `provider-services` command reads `--dseq` as a number, and a listing has a
  fixed order. `VerifyLeaseLive` trusts that a non-empty answer is about the lease
  it asked for (`poller.go:176` does not compare); that is modelled as true of
  every query that reaches the command.
- Addresses have one spelling. An upper-case bech32 text also decodes and would
  be a second name for one account; `Address` is the set of texts, and the model
  uses one per account.
- A stored instant is rendered in UTC with second precision when it was given so.
- Signatures cannot be forged: hashing, secp256k1 and bech32 are symbolic.
- Go's encoder is that of Go 1.22 and later, which has the short escapes for
  backspace and form feed.

A badge stands for what `BadgesAreEarned` says and no more: the browser compares
the key with the author and the signed bytes with the row, but not the subject
with the other party, nor the author with the role (`web/src/adr036.ts:90-106`).
For rows that the service wrote, `RowsAreSigned` has the rest.

Left out: `first_seen` and `last_seen`, which only order a listing; logging and
metrics; parsing of flags; the UI's layout and the texts of its errors. A client
that disconnects cancels its request's context, which shows as an error of the
call in progress and is covered by the failing actions.

Not modelled, or in part:

- GET /leases changes nothing and is abstracted to whose leases it answers with
  (`RatingPages`); GET /info returns two constants. The page's request for /info
  happens once at the start.
- What Keplr and Leap do inside; a wallet approves, signs or refuses.
- A comment with a NUL passes the checks and PostgreSQL refuses the text: the
  client gets 500 for a request that can never succeed. `CanonicalText` has that
  outcome; no document promises otherwise, so no property is about it.
- The chain is external and modelled as the queries show it. The database's
  stateful set, the web server and the image are configuration.

## 8. The plan

All modules of the plan are written, in this order:

1. `Vocabulary`, `Faults`, `Chain`, `LeaseTable`, `LeasePoller`, `SyncCoverage`
2. `Adr036`, `FeedbackTable`, `FeedbackApi`
3. `RatingLedger`, and `ReputationService` composing 1 and 2 and implementing it
4. `ServiceLifecycle`
5. `Listings`, `AddressedView`, `ReputationView` implementing it; `RatingPages`
6. `ReputeSign` as a client of `FeedbackApi`; `CanonicalText`
7. `Rollout`
8. the proofs of section 5, module by module

What is left to prove is not about the code as it is: lemmas that would state
what the properties leave to their exceptions, as that a list at its limit holds
the newest ratings, or how many rows one overlap can reopen.

## 9. Running it

```
tlc -workers 2 -config service.cfg MCService
tlc -workers 2 -config wallet_race.cfg MCPages
tlapm ReputationServiceProofs.tla
```

The longest runs are `ledger` (about 1.2 million distinct states, two minutes),
`lookup` and `service`; the others take less than a minute each. The
configurations of section 6 end with a counterexample.
