-------------------------- MODULE ReputationService --------------------------
(***************************************************************************)
(* The service as cmd/reputation assembles it: one process with the poller *)
(* and the API server on one database, which outlives the process, beside  *)
(* the chain.  The two write the lease table without any coordination.     *)
(***************************************************************************)
EXTENDS LeasePoller, FeedbackApi

tableVars == <<leases, feedback, nextId>>
vars == <<chain, tableVars, faults, pollVars, apiVars>>

Init ==
  /\ ChainInit /\ LeaseTableInit /\ FeedbackTableInit /\ FaultsInit
  /\ PollerInit /\ ApiInit

ChainStep == ChainNext /\ UNCHANGED <<tableVars, faults, pollVars, apiVars>>

PollerStep == PollerNext /\ UNCHANGED <<feedback, nextId, apiVars>>

ApiStep == ApiNext /\ UNCHANGED pollVars

InFlight(q) == reqPc[q] \notin {"unsent", "answered", "lost"}

\* The process dies and is started again: its requests are gone without an
\* answer, the poller begins with a Sync, and the database has what was written.
\* An insert that was under way may be among it (an upsert that was is the same
\* as one just before the end).
Restart ==
  /\ Fault
  /\ reqPc' = [q \in Req |-> IF InFlight(q) THEN "lost" ELSE reqPc[q]]
  /\ pollPc' = "query" /\ stateIx' = 1 /\ page' = 1
  /\ batch' = {} /\ full' = FALSE /\ tick' = FALSE
  /\ \/ UNCHANGED <<feedback, nextId>>
     \/ \E q \in Req : reqPc[q] = "insert" /\ InsertFeedback(Record(q))
  /\ UNCHANGED <<chain, leases, body, answer>>

Next == ChainStep \/ PollerStep \/ ApiStep \/ Restart

\* The goroutines of the process keep running, and the calls that they wait
\* for return; clients need not send anything.
Fairness ==
  /\ WF_vars(Tick /\ UNCHANGED <<feedback, nextId, apiVars>>)
  /\ WF_vars(SyncStep /\ UNCHANGED <<feedback, nextId, apiVars>>)
  /\ \A q \in Req : WF_vars(HandlerStep(q) /\ UNCHANGED pollVars)

Spec == Init /\ [][Next]_vars

FairSpec == Spec /\ Fairness

-----------------------------------------------------------------------------
\* Properties.

\* Every variable of the process and every column of both tables has its type.
TypeOK ==
  /\ ChainTypeOK /\ LeaseTableTypeOK /\ FeedbackTableTypeOK /\ FaultsTypeOK
  /\ PollerTypeOK /\ ApiTypeOK

\* A lease on the chain between the parties of a rating, under its numbers.
EarnedBy(r, l) ==
  /\ OnChain(l) /\ l.owner = r.owner /\ l.provider = r.provider
  /\ Readable(r.dseq) /\ l.dseq = r.dseq.value /\ l.goseq = r.goseq

IsHere(r) == r.provider = Provider

\* A stored rating that names the provider of this instance is about a lease
\* that the chain has, whichever of the two lease checks let it through
\* (internal/api/api.go:108-132), and whatever rows other requests put into
\* the cache meanwhile.
EarnedHere ==
  \A r \in feedback : IsHere(r) => \E l \in LeaseId : EarnedBy(r, l)

\* README.md:13-15: "a rating is rejected unless a lease (deployer, dseq,
\* gseq, oseq, provider) is known .. You can't rate someone you never
\* transacted with", for every stored rating.
Earned == \A r \in feedback : \E l \in LeaseId : EarnedBy(r, l)

\* What the response says is what the table holds: a 201 carries the id of the
\* row with this message and this signature, no two requests are given the same
\* row, and a 409 means that a rating by this author of this deployment is
\* stored, also when it was stored by a request that had no answer.
AnswersTruthful ==
  \A q \in Req : reqPc[q] = "answered" =>
    /\ answer[q].status = 201 =>
         \E r \in feedback :
           /\ r.id = answer[q].id
           /\ r.signature = body[q].signature
           /\ \A p \in Req \ {q} : answer[p].id # r.id
    /\ answer[q].status = 409 =>
         \E r \in feedback :
           /\ r.author = Author(Sent(q)) /\ r.owner = Sent(q).deployer
           /\ r.dseq = Sent(q).dseq

\* Its date is written as the service writes dates, its comment has neither a
\* backspace nor a form feed, and its base64 is in one piece.
PlainlyWritten(r) ==
  LET f == r.signature.bytes.doc.data
  IN  /\ f.issued_at.spelling = "canonical" /\ ~f.comment.controls
      /\ ~r.pubkey.broken /\ ~r.signature.broken

\* A row belongs to the message that its author signed, though it is written
\* three calls after the signature was verified: it names the author, the other
\* party as the subject, and the score and the deployment of that message
\* (internal/api/api.go:101-106, 134-149).  As it is listed it passes the check
\* of the browser (web/src/adr036.ts:93-106) exactly if it was plainly written:
\* the three kinds of text that the service accepts and that it, or the browser,
\* writes otherwise (internal/api/api.go:84, 90, 95; web/src/adr036.ts:27) hide a
\* signature, and nothing else does.
RowsAreSigned ==
  \A r \in feedback :
    LET f == r.signature.bytes.doc.data
    IN  /\ r.author = Author(f) /\ r.subject = Subject(f)
        /\ r.score = f.score /\ r.owner = f.deployer /\ r.dseq = f.dseq
        /\ VerifyRecord(Listed(r)) <=> PlainlyWritten(r)

\* README.md:11-12: "anyone can re-verify a stored rating from its pubkey +
\* signature".
Reverifiable == \A r \in feedback : VerifyRecord(Listed(r))

\* README.md:16-17: "One per deployment -- a unique index on (author,
\* deployer, dseq) blocks duplicate/spam ratings": no two rows rate the same
\* numbered deployment by the same author.
OneRatingPerDeployment ==
  \A r, s \in feedback :
    r.author = s.author /\ r.owner = s.owner /\ r.dseq.value = s.dseq.value
      => r = s

\* docs/USAGE.md:222: 422 means "No lease between you and the other party for
\* that dseq/gseq/oseq": at the step that answers 422 the chain has none.
UnprocessableMeansNoLease ==
  [][\A q \in Req :
       answer'[q].status = 422 /\ answer[q].status # 422 =>
         ~\E l \in LeaseId : EarnedBy(Record(q), l)]_vars

\* A rating is turned away with 422 while the chain has its lease from this
\* provider only at a step at which a call fails (internal/api/api.go:116-132):
\* neither a cache that is behind, nor the end of the lease, nor another request
\* hides it.
OnlyAFailureHidesALease ==
  [][\A q \in Req :
       answer'[q].status = 422 /\ answer[q].status # 422 =>
         \/ faults' # faults
         \/ ~\E l \in LeaseId : IsScoped(l) /\ EarnedBy(Record(q), l)]_vars

\* docs/USAGE.md:165: "--comment is optional (max 1000 characters)": a rating
\* with a comment of that many is not refused as malformed if the rest of it is
\* in order.
CommentsUpTo1000CharactersAreTaken ==
  \A q \in Req :
    reqPc[q] = "answered" /\ body[q] # NotJSON =>
      LET f == Sent(q)
      IN  answer[q].status = 400 =>
            \/ ~Validate(f) \/ ~Readable(f.issued_at)
            \/ f.comment.chars > 1000
            \/ body[q].pubkey = NotBase64 \/ body[q].signature = NotBase64

\* A rating by a party to a lease from this provider that is on the chain when
\* the check of it begins ends as stored, or as rated before, or a failure got
\* in the way: the fallback makes up for a cache that is behind, in every
\* interleaving.
LeasedRatingsAreTaken ==
  \A q \in Req :
    (reqPc[q] = "lookup" /\ \E l \in LeaseId :
                              IsScoped(l) /\ EarnedBy(Record(q), l))
      ~> (answer[q].status \in {201, 409} \/ faults > 0)

\* What a rating left behind.  While an instance with PROVIDER_ADDR has rows of
\* other providers or of an oddly spelled dseq, these are not accounted for.
PlainRows == {r \in feedback : IsHere(r) /\ r.dseq.spelling = "canonical"}

DeploymentOf(r) == [owner |-> r.owner, dseq |-> r.dseq.value]

Ledger ==
  INSTANCE RatingLedger WITH
    Party <- Address, Operator <- Provider,
    Deployment <- [owner: Address, dseq: DSeq],
    leased <- {[owner |-> l.owner, dseq |-> l.dseq] :
                 l \in {m \in LeaseId : OnChain(m) /\ IsScoped(m)}},
    rated <- {[author |-> r.author, deployment |-> DeploymentOf(r)] :
                r \in PlainRows},
    account <- [a \in Address |-> ReputationIn(PlainRows, a)]

\* What GET /reputation/{address} says of the ratings of this provider's
\* deployments adds up (internal/store/store.go:186-197): every deployment
\* counts once for the party that is rated, net is the difference of the counts,
\* and nothing counts that was not leased.
Balanced == Ledger!Balanced

\* Requests, poller, chain and restarts together do nothing to the ratings of
\* this provider's deployments that the ledger does not allow.
ImplementsLedger == Ledger!Spec
=============================================================================
