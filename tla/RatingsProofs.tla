---------------------------- MODULE RatingsProofs ----------------------------
(***************************************************************************)
(* Theorems about the ratings that the composed service stores and about   *)
(* the answers it gives: every row is the message that its author signed,  *)
(* every answer is true of the table, only a failure hides a lease, and    *)
(* the whole is the ledger of RatingLedger; and about the runs of          *)
(* ReputeSign against the same handlers, whose specification leaves the    *)
(* poller out.                                                             *)
(***************************************************************************)
EXTENDS ReputationServiceProofs, CountingTheorems, ReputeSign

-----------------------------------------------------------------------------
\* Rows are signed.

\* What the property says of one row.
SignedRow(r) ==
  LET f == r.signature.bytes.doc.data
  IN  /\ r.author = Author(f) /\ r.subject = Subject(f)
      /\ r.score = f.score /\ r.owner = f.deployer /\ r.dseq = f.dseq
      /\ VerifyRecord(Listed(r)) <=> PlainlyWritten(r)

\* A message is the record of its fields.
LEMMA MessageOfItsFields ==
  ASSUME NEW f \in Feedback
  PROVE  f = [v |-> f.v, role |-> f.role, provider |-> f.provider,
              deployer |-> f.deployer, dseq |-> f.dseq, goseq |-> f.goseq,
              score |-> f.score, comment |-> f.comment,
              issued_at |-> f.issued_at]
  BY DEF Feedback

\* The row of a checked request, field by field.
LEMMA CheckedRowIsSigned ==
  ASSUME ApiTypeOK, FeedbackTableTypeOK, NEW q \in Req,
         WellFormed(body[q]), Attributed(body[q])
  PROVE  SignedRow(Record(q))
<1> DEFINE f == Sent(q)
           r == Record(q)
           s == Listed(r)
           g == FeedbackFromRecord(s)
<1>1. /\ r.author = Author(f) /\ r.subject = Subject(f)
      /\ r.provider = f.provider /\ r.role = f.role
      /\ r.score = f.score /\ r.owner = f.deployer /\ r.dseq = f.dseq
      /\ r.goseq = f.goseq /\ r.comment = f.comment
      /\ r.issued_at = f.issued_at.value
      /\ r.pubkey = body[q].pubkey /\ r.signature = body[q].signature
  BY DEF Record
<1>2. /\ AddressFromPubKey[r.pubkey.bytes] = Author(f)
      /\ r.signature.bytes = [key |-> r.pubkey.bytes, doc |-> SignDoc(f, Author(f))]
  BY <1>1 DEF Attributed, Verify, Sent
<1>3. r.signature.bytes.doc.data = f
  BY <1>2 DEF SignDoc
<1>4. r \in FeedbackRow
  BY CheckedRecord
<1>5. f \in Feedback /\ f.v = MessageVersion
  BY CheckedMessage DEF WellFormed, Validate, Sent
<1>6. /\ s.author = r.author /\ s.pubkey = r.pubkey
      /\ s.signature = r.signature /\ s.role = r.role
      /\ s.provider = r.provider /\ s.owner = r.owner /\ s.dseq = r.dseq
      /\ s.goseq = r.goseq /\ s.score = r.score /\ s.comment = r.comment
      /\ s.issued_at = Canonical(r.issued_at)
  BY <1>4 DEF Listed, FeedbackRow
<1>7. /\ g.issued_at = Canonical(f.issued_at.value)
      /\ g.comment = f.comment
  BY <1>1, <1>6 DEF FeedbackFromRecord
\* The message is back as it was signed if its date is written as before.
<1>8. g = f <=> f.issued_at.spelling = "canonical"
  <2>1. f.issued_at \in Text(Instant)
    BY <1>5 DEF Feedback
  <2>2. Canonical(f.issued_at.value) = f.issued_at
          <=> f.issued_at.spelling = "canonical"
    BY <2>1 DEF Canonical, Text
  <2>3. ASSUME g.issued_at = f.issued_at PROVE g = f
    <3>1. g = [v |-> f.v, role |-> f.role, provider |-> f.provider,
               deployer |-> f.deployer, dseq |-> f.dseq, goseq |-> f.goseq,
               score |-> f.score, comment |-> f.comment,
               issued_at |-> f.issued_at]
      BY <1>1, <1>5, <1>6, <2>3 DEF FeedbackFromRecord
    <3> QED
      BY <1>5, <3>1, MessageOfItsFields
  <2> QED
    BY <1>7, <2>2, <2>3
\* The two encoders write one document if there is nothing to escape.
<1>9. BuildSignDoc(g, r.author) = SignDoc(f, Author(f))
        <=> g = f /\ ~f.comment.controls
  <2>1. ASSUME g = f, ~f.comment.controls
        PROVE  BuildSignDoc(g, r.author) = SignDoc(f, Author(f))
    BY <1>1, <2>1 DEF BuildSignDoc, SignDoc, Escapes
  <2>2. ASSUME BuildSignDoc(g, r.author) = SignDoc(f, Author(f))
        PROVE  g = f /\ ~f.comment.controls
    <3>1. g = f
      BY <2>2 DEF BuildSignDoc, SignDoc
    <3>2. Escapes(g, "unicode") = Escapes(f, "short")
      BY <2>2 DEF BuildSignDoc, SignDoc
    <3> QED
      BY <1>7, <3>1, <3>2 DEF Escapes
  <2> QED
    BY <2>1, <2>2
<1>10. VerifyRecord(s) <=> /\ ~r.pubkey.broken /\ ~r.signature.broken
                          /\ BuildSignDoc(g, r.author) = SignDoc(f, Author(f))
  <2> HIDE DEF f, r, g, s
  <2>1. \A d, e : [key |-> r.pubkey.bytes, doc |-> d] =
                   [key |-> r.pubkey.bytes, doc |-> e] <=> d = e
    OBVIOUS
  <2> QED
    BY <1>1, <1>2, <1>6, <2>1 DEF VerifyRecord, g
<1>11. VerifyRecord(s) <=> PlainlyWritten(r)
  BY <1>3, <1>8, <1>9, <1>10 DEF PlainlyWritten
<1> QED
  BY <1>1, <1>3, <1>11 DEF SignedRow

\* The steps that can write a row, each for a request in flight.
LEMMA RowsComeFromRequests ==
  ASSUME [Next]_vars
  PROVE  \/ feedback' = feedback
         \/ \E q \in Req : InFlight(q) /\ feedback' = feedback \cup {Record(q)}
<1>1. ASSUME NEW q \in Req, reqPc[q] = "insert", InsertFeedback(Record(q))
      PROVE  \/ feedback' = feedback
             \/ InFlight(q) /\ feedback' = feedback \cup {Record(q)}
  BY <1>1 DEF InsertFeedback, InFlight
<1>2. CASE ApiStep
  <2>1. PICK q \in Req :
          (\E env \in Envelope : Receive(q, env)) \/ HandlerStep(q) \/ HandlerFails(q)
    BY <1>2 DEF ApiStep, ApiNext
  <2> QED
    BY <1>1, <2>1
    DEF Receive, HandlerStep, HandlerFails, LookupLease, LookupFails, VerifyLive,
        VerifyLiveFails, CacheLease, CacheLeaseFails, StoreRating,
        StoreRatingFails
<1>3. CASE Restart
  BY <1>1, <1>3 DEF Restart
<1>4. CASE ChainStep \/ PollerStep \/ UNCHANGED vars
  BY <1>4 DEF ChainStep, PollerStep, vars, tableVars
<1> QED
  BY <1>2, <1>3, <1>4 DEF Next

\* A row belongs to the message that its author signed, for every body that a
\* request may carry, and is found valid when it is listed exactly if its date,
\* its comment and its base64 were plainly written (internal/api/api.go:84-106,
\* 134-149; web/src/adr036.ts:13-35, 93-106).
THEOREM RatingsAreSigned == Spec => []RowsAreSigned
<1>1. Init => RowsAreSigned
  BY DEF Init, FeedbackTableInit, RowsAreSigned
<1>2. (TypeOK /\ Checked) /\ RowsAreSigned /\ [Next]_vars => RowsAreSigned'
  <2> SUFFICES ASSUME TypeOK, Checked, \A r \in feedback : SignedRow(r), [Next]_vars,
                      NEW r \in feedback'
               PROVE  SignedRow(r)
    BY DEF RowsAreSigned, SignedRow
  <2>1. CASE r \in feedback
    BY <2>1
  <2>2. CASE r \notin feedback
    <3>1. PICK q \in Req : InFlight(q) /\ r = Record(q)
      BY <2>2, RowsComeFromRequests
    <3> QED
      BY <3>1, CheckedRowIsSigned DEF Checked, TypeOK
  <2> QED
    BY <2>1, <2>2
<1> QED
  BY <1>1, <1>2, ServiceChecked, PTL DEF Spec

-----------------------------------------------------------------------------
\* Only a failure hides a lease.

\* The query of the chain finds the lease of this provider that a rating is
\* earned by.
LEMMA LiveFindsTheLease ==
  ASSUME NEW q, NEW l \in LeaseId, IsScoped(l), EarnedBy(Record(q), l)
  PROVE  VerifyLeaseLive(Sent(q))
  BY DEF IsScoped, EarnedBy, Record, VerifyLeaseLive, SingleLease

\* A 422 for a lease that the chain has is due to a failed call, and to nothing
\* else, for any number of requests, leases and failures
\* (internal/api/api.go:116-132).
THEOREM NothingElseHidesALease == Spec => OnlyAFailureHidesALease
<1> DEFINE Hidden ==
      \A q \in Req :
        answer'[q].status = 422 /\ answer[q].status # 422 =>
          \/ faults' # faults
          \/ ~\E l \in LeaseId : IsScoped(l) /\ EarnedBy(Record(q), l)
<1>1. (TypeOK /\ Checked) /\ [Next]_vars => [Hidden]_vars
  <2> SUFFICES ASSUME TypeOK, Next, NEW q \in Req,
                      answer'[q].status = 422, answer[q].status # 422
               PROVE  \/ faults' # faults
                      \/ ~\E l \in LeaseId : IsScoped(l) /\ EarnedBy(Record(q), l)
    OBVIOUS
  <2>1. ApiStep
    BY DEF Next, ChainStep, PollerStep, Restart, apiVars
  <2>2. PICK p \in Req :
          (\E env \in Envelope : Receive(p, env)) \/ HandlerStep(p) \/ HandlerFails(p)
    BY <2>1 DEF ApiStep, ApiNext
  <2>3. answer \in [Req -> [status: Status \cup {0}, id: Nat]]
    BY DEF TypeOK, ApiTypeOK
  <2>4. ASSUME NEW s, NEW id, Answer(p, s, id) PROVE s = 422 /\ p = q
    BY <2>3, <2>4 DEF Answer
  <2>5. answer' # answer
    OBVIOUS
  <2>6. CASE VerifyLive(p)
    <3>1. ~VerifyLeaseLive(Sent(p)) /\ p = q
      BY <2>4, <2>5, <2>6 DEF VerifyLive, Goto
    <3> QED
      BY <3>1, LiveFindsTheLease
  <2>7. CASE HandlerFails(p)
    <3>1. Fault
      BY <2>7 DEF HandlerFails, LookupFails, VerifyLiveFails, CacheLeaseFails,
                  StoreRatingFails
    <3> QED
      BY <3>1 DEF Fault, TypeOK, FaultsTypeOK
  <2>8. CASE ~VerifyLive(p) /\ ~HandlerFails(p)
    BY <2>2, <2>4, <2>5, <2>8
    DEF Receive, HandlerStep, LookupLease, CacheLease, StoreRating, Goto
  <2> QED
    BY <2>6, <2>7, <2>8
<1> QED
  BY <1>1, ServiceChecked, PTL DEF Spec, OnlyAFailureHidesALease

-----------------------------------------------------------------------------
\* Answers are true.  An id is drawn for each insert and never drawn again, so
\* every id in a row or in an answer is below the next one.

IdsDrawn ==
  /\ \A r \in feedback : r.id < nextId
  /\ \A q \in Req : answer[q].id < nextId

AnswersInv == IdsDrawn /\ AnswersTruthful

\* What one answer says of the table, but for the ids of others.
TrueAnswer(q, rows, ans, msg) ==
  /\ ans.status = 201 =>
       \E r \in rows : r.id = ans.id /\ r.signature = msg.signature
  /\ ans.status = 409 =>
       \E r \in rows :
         /\ r.author = Author(msg.feedback) /\ r.owner = msg.feedback.deployer
         /\ r.dseq = msg.feedback.dseq

\* A stored id is given to one request.
IdsApart ==
  \A q \in Req : reqPc[q] = "answered" /\ answer[q].status = 201 =>
    \A p \in Req \ {q} : answer[p].id # answer[q].id

\* The property, answer by answer.
LEMMA AnswersInParts ==
  AnswersTruthful <=>
    /\ IdsApart
    /\ \A q \in Req :
         reqPc[q] = "answered" => TrueAnswer(q, feedback, answer[q], body[q])
  BY DEF AnswersTruthful, IdsApart, TrueAnswer, Sent

\* A step that answers nobody, loses no row and takes back no id.
LEMMA SilentKeepsAnswers ==
  ASSUME HandlerTypeOK, AnswersInv, answer' = answer, feedback \subseteq feedback',
         nextId' \in Nat, nextId <= nextId',
         \A r \in feedback' : r.id < nextId',
         \A q \in Req : reqPc'[q] = "answered" => reqPc[q] = "answered" /\ body'[q] = body[q]
  PROVE  AnswersInv'
<1>1. IdsDrawn'
  BY DEF AnswersInv, IdsDrawn, HandlerTypeOK, ApiTypeOK, FeedbackTableTypeOK
<1>2. IdsApart'
  BY AnswersInParts DEF AnswersInv, IdsApart
<1>3. \A q \in Req :
        reqPc'[q] = "answered" => TrueAnswer(q, feedback', answer'[q], body'[q])
  BY AnswersInParts DEF AnswersInv, TrueAnswer
<1>4. AnswersTruthful'
  BY <1>2, <1>3 DEF AnswersTruthful, IdsApart, TrueAnswer, Sent
<1> QED
  BY <1>1, <1>4 DEF AnswersInv

\* A step that answers one request: with no id, or with one that is new.
LEMMA AnswerKeepsAnswers ==
  ASSUME HandlerTypeOK, AnswersInv, NEW q \in Req, NEW s \in Status, NEW id \in Nat,
         Answer(q, s, id), reqPc[q] # "answered",
         \A p \in Req \ {q} : body'[p] = body[p],
         feedback \subseteq feedback', nextId' \in Nat, nextId <= nextId',
         \A r \in feedback' : r.id < nextId',
         id # 0 => id = nextId /\ nextId < nextId', s = 201 => id # 0,
         TrueAnswer(q, feedback', [status |-> s, id |-> id], body'[q])
  PROVE  AnswersInv'
<1>0. nextId \in Nat \ {0}
  BY DEF HandlerTypeOK, FeedbackTableTypeOK
<1>1. /\ answer'[q] = [status |-> s, id |-> id]
      /\ \A p \in Req \ {q} : answer'[p] = answer[p] /\ reqPc'[p] = reqPc[p]
  BY DEF Answer, HandlerTypeOK, ApiTypeOK
<1>2. \A p \in Req : answer[p].id \in Nat /\ answer[p].id < nextId
  BY DEF AnswersInv, IdsDrawn, HandlerTypeOK, ApiTypeOK
<1>3. IdsDrawn'
  <2> SUFFICES ASSUME NEW p \in Req PROVE answer'[p].id < nextId'
    BY DEF IdsDrawn
  <2>1. CASE p = q
    BY <1>0, <1>1, <2>1
  <2>2. CASE p # q
    BY <1>0, <1>1, <1>2, <2>2
  <2> QED
    BY <2>1, <2>2
<1>4. ASSUME NEW p \in Req, NEW o \in Req \ {p}, reqPc'[p] = "answered",
             answer'[p].status = 201
      PROVE  answer'[o].id # answer'[p].id
  <2>1. CASE p = q
    <3>1. answer'[p].id = nextId
      BY <1>1, <1>4, <2>1
    <3>2. answer'[o].id < nextId
      BY <1>1, <1>2, <2>1
    <3> QED
      BY <1>0, <1>1, <1>2, <2>1, <3>1, <3>2
  <2>2. CASE p # q /\ o = q
    <3>1. \E r \in feedback : r.id = answer[p].id
      BY <1>1, <1>4, <2>2 DEF AnswersInv, AnswersTruthful
    <3>2. answer[p].id # 0
      BY <3>1 DEF HandlerTypeOK, FeedbackTableTypeOK, FeedbackRow
    <3> QED
      BY <1>0, <1>1, <1>2, <2>2, <3>2
  <2>3. CASE p # q /\ o # q
    BY <1>1, <1>4, <2>3, AnswersInParts DEF AnswersInv, IdsApart
  <2> QED
    BY <2>1, <2>2, <2>3
<1>5. ASSUME NEW p \in Req, reqPc'[p] = "answered"
      PROVE  TrueAnswer(p, feedback', answer'[p], body'[p])
  <2>1. CASE p = q
    BY <1>1, <2>1
  <2>2. CASE p # q
    <3>1. TrueAnswer(p, feedback, answer[p], body[p])
      BY <1>1, <1>5, <2>2, AnswersInParts DEF AnswersInv
    <3> QED
      BY <1>1, <2>2, <3>1 DEF TrueAnswer
  <2> QED
    BY <2>1, <2>2
<1>6. AnswersTruthful'
  BY <1>4, <1>5 DEF AnswersTruthful, TrueAnswer, Sent
<1> QED
  BY <1>3, <1>6 DEF AnswersInv

\* An insert draws an id, keeps the rows and adds at most one, of that id.
LEMMA InsertDrawsAnId ==
  ASSUME HandlerTypeOK, IdsDrawn, NEW q \in Req, InsertFeedback(Record(q))
  PROVE  /\ feedback \subseteq feedback' /\ nextId' = nextId + 1
         /\ nextId' \in Nat /\ nextId < nextId'
         /\ \A r \in feedback' : r.id < nextId'
<1>1. nextId \in Nat /\ \A r \in feedback : r.id \in Nat
  BY DEF HandlerTypeOK, FeedbackTableTypeOK, FeedbackRow
<1>2. Record(q).id = nextId
  BY DEF Record
<1> QED
  BY <1>1, <1>2 DEF InsertFeedback, IdsDrawn

\* The answer to an insert: 201 with the row that was added, or 409 for the one
\* that was there.
LEMMA StoreIsAnsweredTruly ==
  ASSUME HandlerTypeOK, AnswersInv, NEW q \in Req, StoreRating(q)
  PROVE  AnswersInv'
<1>1. /\ feedback \subseteq feedback' /\ nextId' = nextId + 1
      /\ nextId' \in Nat /\ nextId < nextId' /\ nextId <= nextId'
      /\ \A r \in feedback' : r.id < nextId'
  BY InsertDrawsAnId DEF StoreRating, AnswersInv, HandlerTypeOK, FeedbackTableTypeOK
<1>2. reqPc[q] # "answered" /\ body' = body
  BY DEF StoreRating
<1>3. nextId \in Nat /\ nextId # 0
  BY DEF HandlerTypeOK, FeedbackTableTypeOK
<1>4. CASE IsDuplicate(Record(q))
  <2>1. Answer(q, 409, 0)
    BY <1>4 DEF StoreRating
  <2>2. PICK r \in feedback : SameIndexKey(r, Record(q))
    BY <1>4 DEF IsDuplicate
  <2>3. /\ r.author = Author(Sent(q)) /\ r.owner = Sent(q).deployer
        /\ r.dseq = Sent(q).dseq
    BY <2>2 DEF SameIndexKey, Record
  <2>4. TrueAnswer(q, feedback', [status |-> 409, id |-> 0], body'[q])
    BY <1>1, <1>2, <2>3 DEF TrueAnswer, Sent
  <2> QED
    BY <1>1, <1>2, <2>1, <2>4, AnswerKeepsAnswers DEF Status
<1>5. CASE ~IsDuplicate(Record(q))
  <2>1. Answer(q, 201, nextId) /\ Record(q) \in feedback'
    BY <1>5 DEF StoreRating, InsertFeedback
  <2>2. Record(q).id = nextId /\ Record(q).signature = body[q].signature
    BY DEF Record
  <2>3. TrueAnswer(q, feedback', [status |-> 201, id |-> nextId], body'[q])
    BY <1>2, <2>1, <2>2 DEF TrueAnswer
  <2> QED
    BY <1>1, <1>2, <1>3, <2>1, <2>3, AnswerKeepsAnswers DEF Status
<1> QED
  BY <1>4, <1>5

\* An answer that is neither 201 nor 409 says nothing of the table.
LEMMA RefusalIsTrue ==
  ASSUME HandlerTypeOK, AnswersInv, NEW q \in Req, NEW s \in Status, s \notin {201, 409},
         Answer(q, s, 0), reqPc[q] # "answered",
         \A p \in Req \ {q} : body'[p] = body[p],
         InsertFeedback(Record(q)) \/ UNCHANGED <<feedback, nextId>>
  PROVE  AnswersInv'
<1>1. nextId \in Nat
  BY DEF HandlerTypeOK, FeedbackTableTypeOK
<1>2. /\ feedback \subseteq feedback' /\ nextId' \in Nat /\ nextId <= nextId'
      /\ \A r \in feedback' : r.id < nextId'
  BY <1>1, InsertDrawsAnId DEF AnswersInv, IdsDrawn
<1>3. TrueAnswer(q, feedback', [status |-> s, id |-> 0], body'[q])
  BY DEF TrueAnswer
<1>4. s # 201 /\ 0 \in Nat
  OBVIOUS
<1> QED
  BY <1>2, <1>3, <1>4, AnswerKeepsAnswers

\* Each step of a request, by whether and what it answers.
LEMMA ApiKeepsAnswers ==
  ASSUME HandlerTypeOK, AnswersInv, ApiNext
  PROVE  AnswersInv'
<1>1. PICK q \in Req :
        (\E env \in Envelope : Receive(q, env)) \/ HandlerStep(q) \/ HandlerFails(q)
  BY DEF ApiNext
<1>2. nextId \in Nat /\ (\A r \in feedback : r.id < nextId)
  BY DEF HandlerTypeOK, FeedbackTableTypeOK, AnswersInv, IdsDrawn
<1>3. ASSUME NEW pc \in ReqPc \ {"answered"}, Goto(q, pc),
             UNCHANGED <<feedback, nextId>>
      PROVE  AnswersInv'
  <2>1. \A p \in Req : reqPc'[p] = "answered" => reqPc[p] = "answered" /\ body'[p] = body[p]
    BY <1>3 DEF Goto, HandlerTypeOK, ApiTypeOK
  <2> QED
    BY <1>2, <1>3, <2>1, SilentKeepsAnswers DEF Goto
<1>4. ASSUME NEW env \in Envelope, Receive(q, env) PROVE AnswersInv'
  <2>1. \A p \in Req \ {q} : body'[p] = body[p]
    BY <1>4 DEF Receive, HandlerTypeOK, ApiTypeOK
  <2>2. CASE Answer(q, 400, 0) \/ Answer(q, 401, 0)
    BY <1>4, <2>1, <2>2, RefusalIsTrue DEF Receive, Status
  <2>3. CASE reqPc' = [reqPc EXCEPT ![q] = "lookup"] /\ UNCHANGED answer
    <3>1. \A p \in Req : reqPc'[p] = "answered" => reqPc[p] = "answered" /\ body'[p] = body[p]
      BY <2>1, <2>3 DEF HandlerTypeOK, ApiTypeOK
    <3> QED
      BY <1>2, <1>4, <2>3, <3>1, SilentKeepsAnswers DEF Receive
  <2> QED
    BY <1>4, <2>2, <2>3 DEF Receive
<1>5. CASE LookupLease(q)
  BY <1>3, <1>5 DEF LookupLease, ReqPc
<1>6. CASE VerifyLive(q)
  BY <1>3, <1>6, RefusalIsTrue DEF VerifyLive, ReqPc, Status
<1>7. CASE CacheLease(q) \/ CacheLeaseFails(q)
  BY <1>3, <1>7 DEF CacheLease, CacheLeaseFails, ReqPc
<1>8. CASE StoreRating(q)
  BY <1>8, StoreIsAnsweredTruly
<1>9. CASE LookupFails(q) \/ VerifyLiveFails(q) \/ StoreRatingFails(q)
  BY <1>9, RefusalIsTrue DEF LookupFails, VerifyLiveFails, StoreRatingFails, Status
<1> QED
  BY <1>1, <1>4, <1>5, <1>6, <1>7, <1>8, <1>9 DEF HandlerStep, HandlerFails

\* A restart answers nobody, and a last insert takes no row away.
LEMMA RestartKeepsAnswers ==
  ASSUME TypeOK, AnswersInv, Restart
  PROVE  AnswersInv'
<1>1. nextId \in Nat /\ (\A r \in feedback : r.id < nextId)
  BY DEF TypeOK, FeedbackTableTypeOK, AnswersInv, IdsDrawn
<1>2. /\ feedback \subseteq feedback' /\ nextId' \in Nat /\ nextId <= nextId'
      /\ \A r \in feedback' : r.id < nextId'
  BY <1>1, InsertDrawsAnId DEF Restart, AnswersInv, TypeOK, HandlerTypeOK
<1>3. \A p \in Req : reqPc'[p] = "answered" => reqPc[p] = "answered" /\ body'[p] = body[p]
  BY DEF Restart, TypeOK, ApiTypeOK
<1> QED
  BY <1>2, <1>3, SilentKeepsAnswers DEF Restart, TypeOK, HandlerTypeOK

\* What an answer says is what the table holds, whatever requests raced, calls
\* failed and processes died (internal/api/api.go:150-163,
\* internal/store/store.go:159-181).
THEOREM AnswersAreTrue == Spec => []AnswersTruthful
<1>1. Init => AnswersInv
  BY DEF Init, FeedbackTableInit, ApiInit, NoAnswer, AnswersInv, IdsDrawn,
         AnswersTruthful
<1>2. (TypeOK /\ Checked) /\ AnswersInv /\ [Next]_vars => AnswersInv'
  <2> SUFFICES ASSUME TypeOK, AnswersInv, [Next]_vars PROVE AnswersInv'
    OBVIOUS
  <2>1. CASE ChainStep \/ PollerStep \/ UNCHANGED vars
    <3>1. UNCHANGED <<feedback, nextId, reqPc, body, answer>>
      BY <2>1 DEF ChainStep, PollerStep, vars, tableVars, apiVars
    <3> QED
      BY <3>1 DEF AnswersInv, IdsDrawn, AnswersTruthful, Sent
  <2>2. CASE ApiStep
    BY <2>2, ApiKeepsAnswers DEF ApiStep, TypeOK, HandlerTypeOK
  <2> QED
    BY <2>1, <2>2, RestartKeepsAnswers DEF Next
<1>3. AnswersInv => AnswersTruthful
  BY DEF AnswersInv
<1> QED
  BY <1>1, <1>2, <1>3, ServiceChecked, PTL DEF Spec

-----------------------------------------------------------------------------
\* What the service does to the ratings of this provider's deployments is what
\* the ledger allows.

\* The state of the ledger, by name.
LeasedHere ==
  {[owner |-> l.owner, dseq |-> l.dseq] :
     l \in {m \in LeaseId : OnChain(m) /\ IsScoped(m)}}

RatedHere ==
  {[author |-> r.author, deployment |-> DeploymentOf(r)] : r \in PlainRows}

AccountHere == [a \in Address |-> ReputationIn(PlainRows, a)]

\* The two parties of a row are the two of its message, each in its place.
RowPaired(r) ==
  /\ r.author = IF r.role = RoleProvider THEN r.provider ELSE r.owner
  /\ r.subject = IF r.role = RoleProvider THEN r.owner ELSE r.provider

TableInv == IsFiniteSet(feedback) /\ \A r \in feedback : RowPaired(r)

\* The four sums of GET /reputation.
LEMMA SumsByName ==
  ASSUME NEW rows, NEW a
  PROVE  ReputationIn(rows, a) =
           [positive |-> Cardinality(Ups(About(rows, a))),
            negative |-> Cardinality(Downs(About(rows, a))),
            net |-> ScoreSum(About(rows, a)),
            deployments_rated |-> Cardinality(Pairs(About(rows, a)))]
BY DEF ReputationIn, ScoreSum, Ups, Downs, Pairs

\* One more row, of a deployment that its subject was not rated of, is one
\* credit to the account of its subject,
LEMMA RowIsCredited ==
  ASSUME NEW rows, IsFiniteSet(rows), \A r \in rows : r.score \in {1, -1},
         NEW x, x.score \in {1, -1}, x \notin rows, NEW a, x.subject = a,
         <<x.owner, x.dseq>> \notin Pairs(About(rows, a))
  PROVE  ReputationIn(rows \cup {x}, a) =
           Ledger!Credited(ReputationIn(rows, a), x.score)
<1> DEFINE A == About(rows, a)
<1>1. About(rows \cup {x}, a) = A \cup {x} /\ x \notin A /\ A \in SUBSET rows
  BY DEF About
<1>2. IsFiniteSet(A) /\ IsFiniteSet(A \cup {x})
  BY <1>1, FS_Subset, FS_AddElement
<1>3. \A r \in A \cup {x} : r.score \in {1, -1}
  BY <1>1
<1> HIDE DEF A
<1>4. /\ Cardinality(Ups(A \cup {x})) =
           Cardinality(Ups(A)) + (IF x.score = 1 THEN 1 ELSE 0)
      /\ Cardinality(Downs(A \cup {x})) =
           Cardinality(Downs(A)) + (IF x.score = -1 THEN 1 ELSE 0)
  BY <1>1, <1>2, OneMoreCounts
<1>5. ScoreSum(A \cup {x}) = ScoreSum(A) + x.score
  <2>1. ScoreSum(A) = Cardinality(Ups(A)) - Cardinality(Downs(A))
    BY <1>2, <1>3, ScoresAddUp
  <2>2. ScoreSum(A \cup {x}) =
          Cardinality(Ups(A \cup {x})) - Cardinality(Downs(A \cup {x}))
    BY <1>2, <1>3, ScoresAddUp
  <2>3. Cardinality(Ups(A)) \in Nat /\ Cardinality(Downs(A)) \in Nat
    BY <1>1, <1>2, OneMoreCounts
  <2>4. ASSUME NEW n \in Int, NEW s \in {1, -1} PROVE s + n = n + s
    OBVIOUS
  <2> QED
    BY <1>1, <1>2, <2>1, <2>2, <2>3, <2>4, OneMore
<1>6. Cardinality(Pairs(A \cup {x})) = Cardinality(Pairs(A)) + 1
  <2>1. Pairs(A \cup {x}) = Pairs(A) \cup {<<x.owner, x.dseq>>}
    BY DEF Pairs
  <2>2. <<x.owner, x.dseq>> \notin Pairs(A)
    BY DEF A
  <2> QED
    BY <1>2, <2>1, <2>2, PairsAreFinite, FS_AddElement
<1>7. ReputationIn(rows \cup {x}, a) =
        [positive |-> Cardinality(Ups(A \cup {x})),
         negative |-> Cardinality(Downs(A \cup {x})),
         net |-> ScoreSum(A \cup {x}),
         deployments_rated |-> Cardinality(Pairs(A \cup {x}))]
  BY <1>1, SumsByName
<1>8. ReputationIn(rows, a) =
        [positive |-> Cardinality(Ups(A)), negative |-> Cardinality(Downs(A)),
         net |-> ScoreSum(A), deployments_rated |-> Cardinality(Pairs(A))]
  BY SumsByName DEF A
<1> QED
  BY <1>4, <1>5, <1>6, <1>7, <1>8 DEF Ledger!Credited

\* and nothing to the accounts of others.
LEMMA OthersAreNotCredited ==
  ASSUME NEW rows, NEW x, NEW a, x.subject # a
  PROVE  ReputationIn(rows \cup {x}, a) = ReputationIn(rows, a)
<1>1. About(rows \cup {x}, a) = About(rows, a)
  BY DEF About
<1> QED
  BY <1>1, SumsByName

\* The steps that write a row: it is a new one under the unique index, and its
\* request has been through the lease check.
LEMMA RowsAreNew ==
  ASSUME EarnedInv, [Next]_vars
  PROVE  \/ feedback' = feedback
         \/ /\ chain' = chain
            /\ \E q \in Req :
                 /\ InFlight(q) /\ Backed(LeaseOf(Sent(q)))
                 /\ ~IsDuplicate(Record(q))
                 /\ feedback' = feedback \cup {Record(q)}
<1>1. ASSUME NEW q \in Req, reqPc[q] = "insert", InsertFeedback(Record(q)),
             chain' = chain
      PROVE  \/ feedback' = feedback
             \/ /\ chain' = chain
                /\ \E p \in Req :
                     /\ InFlight(p) /\ Backed(LeaseOf(Sent(p)))
                     /\ ~IsDuplicate(Record(p))
                     /\ feedback' = feedback \cup {Record(p)}
  <2>1. InFlight(q) /\ Backed(LeaseOf(Sent(q)))
    BY <1>1 DEF InFlight, EarnedInv, RequestsBacked
  <2> QED
    BY <1>1, <2>1 DEF InsertFeedback
<1>2. CASE ApiStep
  <2>1. PICK q \in Req :
          (\E env \in Envelope : Receive(q, env)) \/ HandlerStep(q) \/ HandlerFails(q)
    BY <1>2 DEF ApiStep, ApiNext
  <2>2. \/ feedback' = feedback
        \/ reqPc[q] = "insert" /\ InsertFeedback(Record(q)) /\ chain' = chain
    BY <2>1
    DEF Receive, HandlerStep, HandlerFails, LookupLease, LookupFails, VerifyLive,
        VerifyLiveFails, CacheLease, CacheLeaseFails, StoreRating,
        StoreRatingFails
  <2> QED
    BY <1>1, <2>2
<1>3. CASE Restart
  BY <1>1, <1>3 DEF Restart
<1>4. CASE ChainStep \/ PollerStep \/ UNCHANGED vars
  BY <1>4 DEF ChainStep, PollerStep, vars, tableVars
<1> QED
  BY <1>2, <1>3, <1>4 DEF Next

\* A row names its parties as its message does.
LEMMA RecordIsPaired == \A q \in Req : RowPaired(Record(q))
BY DEF RowPaired, Record, Author, Subject

\* The table stays finite and its rows paired.
LEMMA StepKeepsTable == EarnedInv /\ TableInv /\ [Next]_vars => TableInv'
<1> SUFFICES ASSUME EarnedInv, TableInv, [Next]_vars PROVE TableInv'
  OBVIOUS
<1>1. CASE feedback' = feedback
  BY <1>1 DEF TableInv, RowPaired
<1>2. CASE \E q \in Req : feedback' = feedback \cup {Record(q)}
  <2>1. PICK q \in Req : feedback' = feedback \cup {Record(q)}
    BY <1>2
  <2>2. IsFiniteSet(feedback')
    BY <2>1, FS_AddElement DEF TableInv
  <2>3. \A r \in feedback' : RowPaired(r)
    BY <2>1, RecordIsPaired DEF TableInv
  <2> QED
    BY <2>2, <2>3 DEF TableInv, RowPaired
<1> QED
  BY <1>1, <1>2, RowsAreNew

\* What a lease check has backed is leased on the ledger.
LEMMA BackedIsLeased ==
  ASSUME NEW r, IsHere(r), Backed(r)
  PROVE  DeploymentOf(r) \in LeasedHere
BY DEF IsHere, Backed, EarnedBy, DeploymentOf, LeasedHere, IsScoped

\* A new plain row is a rating on the ledger.
LEMMA NewRowIsRated ==
  ASSUME TypeOK, Checked, EarnedInv, TableInv, NEW q \in Req, InFlight(q),
         Backed(LeaseOf(Sent(q))), ~IsDuplicate(Record(q)),
         feedback' = feedback \cup {Record(q)}, chain' = chain,
         IsHere(Record(q)), Record(q).dseq.spelling = "canonical"
  PROVE  \E d \in [owner: Address, dseq: DSeq], author, subject \in Address,
            score \in {1, -1} : Ledger!Rate(d, author, subject, score)
<1> DEFINE rec == Record(q)
           d == DeploymentOf(rec)
           entry == [author |-> rec.author, deployment |-> d]
<1>1. rec \in FeedbackRow /\ RowPaired(rec)
  BY CheckedRecord, RecordIsPaired DEF TypeOK, Checked
<1>2. Backed(rec)
  BY DEF Record, LeaseOf, Backed, EarnedBy
<1>3. rec \notin feedback
  BY DEF IsDuplicate, SameIndexKey
<1>4. PlainRows' = PlainRows \cup {rec} /\ rec \notin PlainRows
  BY <1>3 DEF PlainRows, IsHere
<1>5. \A r \in PlainRows : /\ r \in feedback /\ r \in FeedbackRow /\ RowPaired(r)
                           /\ r.provider = Provider
                           /\ r.dseq = Canonical(r.dseq.value)
  BY DEF PlainRows, IsHere, TypeOK, FeedbackTableTypeOK, TableInv, FeedbackRow,
         Text, Canonical
<1>6. rec.dseq = Canonical(rec.dseq.value) /\ rec.provider = Provider
  BY <1>1 DEF FeedbackRow, Text, Canonical, IsHere
<1>7. ASSUME NEW r \in PlainRows, r.author = rec.author, r.owner = rec.owner,
             r.dseq.value = rec.dseq.value
      PROVE  FALSE
  BY <1>5, <1>6, <1>7 DEF IsDuplicate, SameIndexKey
<1> HIDE DEF rec
<1>8. /\ d \in [owner: Address, dseq: DSeq] /\ rec.author \in Address
      /\ rec.subject \in Address /\ rec.score \in {1, -1}
  BY <1>1 DEF FeedbackRow, DeploymentOf, Text
<1>9. d \in LeasedHere /\ LeasedHere' = LeasedHere
  BY <1>2, BackedIsLeased DEF LeasedHere, OnChain, IsScoped, rec
<1>10. <<rec.author, rec.subject>> \in
         {<<d.owner, Provider>>, <<Provider, d.owner>>}
  BY <1>1, <1>6 DEF RowPaired, DeploymentOf
<1>11. entry \notin RatedHere
  BY <1>7 DEF RatedHere, DeploymentOf
<1>12. RatedHere' = RatedHere \cup {entry}
  BY <1>4 DEF RatedHere, DeploymentOf
<1>13. AccountHere' =
         [AccountHere EXCEPT ![rec.subject] = Ledger!Credited(@, rec.score)]
  <2>1. IsFiniteSet(PlainRows) /\ \A r \in PlainRows : r.score \in {1, -1}
    <3>1. PlainRows \in SUBSET feedback
      BY DEF PlainRows
    <3> QED
      BY <1>5, <3>1, FS_Subset DEF TableInv, FeedbackRow
  <2>2. <<rec.owner, rec.dseq>> \notin Pairs(About(PlainRows, rec.subject))
    <3> SUFFICES ASSUME NEW r \in PlainRows, r.subject = rec.subject,
                        r.owner = rec.owner, r.dseq = rec.dseq
                 PROVE  FALSE
      BY DEF Pairs, About
    <3>1. r.author = rec.author
      BY <1>1, <1>5, <1>6 DEF RowPaired
    <3> QED
      BY <1>7, <3>1
  <2>3. ReputationIn(PlainRows', rec.subject) =
          Ledger!Credited(ReputationIn(PlainRows, rec.subject), rec.score)
    BY <1>4, <1>8, <2>1, <2>2, RowIsCredited
  <2>4. \A a \in Address : a # rec.subject =>
          ReputationIn(PlainRows', a) = ReputationIn(PlainRows, a)
    BY <1>4, OthersAreNotCredited
  <2>5. AccountHere' = [a \in Address |-> ReputationIn(PlainRows', a)]
    BY DEF AccountHere
  <2> QED
    BY <1>8, <2>3, <2>4, <2>5 DEF AccountHere
<1>14. PICK dd \in [owner: Address, dseq: DSeq], author \in Address,
            subject \in Address, score \in {1, -1} :
         /\ dd = d /\ author = rec.author /\ subject = rec.subject
         /\ score = rec.score
  BY <1>8
<1>15. Ledger!Rate(dd, author, subject, score)
  <2> HIDE DEF d
  <2> QED
    BY <1>9, <1>10, <1>11, <1>12, <1>13, <1>14
    DEF Ledger!Rate, LeasedHere, RatedHere, AccountHere
<1> QED
  BY <1>15

\* While no row is written, rating is untouched.
LEMMA RatedIsKept ==
  ASSUME PlainRows' = PlainRows
  PROVE  RatedHere' = RatedHere /\ AccountHere' = AccountHere
<1>1. RatedHere' = RatedHere
  BY DEF RatedHere, DeploymentOf
<1>2. AccountHere' = AccountHere
  BY DEF AccountHere
<1> QED
  BY <1>1, <1>2

\* Opening a lease of this provider is a lease on the ledger, and the chain
\* does nothing else to it.
LEMMA ChainIsLedger ==
  ASSUME TypeOK, ChainNext, PlainRows' = PlainRows
  PROVE  [Ledger!Next]_(Ledger!vars)
<1>0. RatedHere' = RatedHere /\ AccountHere' = AccountHere
  BY RatedIsKept
<1>1. CASE \E l \in LeaseId : OpenLease(l)
  <2>1. PICK l \in LeaseId : OpenLease(l)
    BY <1>1
  <2> DEFINE d == [owner |-> l.owner, dseq |-> l.dseq]
  <2>2. \A m \in LeaseId : OnChain(m)' <=> OnChain(m) \/ m = l
    BY <2>1 DEF OpenLease, OnChain, TypeOK, ChainTypeOK
  <2>3. CASE IsScoped(l)
    <3>1. LeasedHere' = LeasedHere \cup {d}
      <4>1. LeasedHere' = {[owner |-> m.owner, dseq |-> m.dseq] :
                             m \in {n \in LeaseId : OnChain(n)' /\ IsScoped(n)}}
        BY DEF LeasedHere, IsScoped
      <4>2. {n \in LeaseId : OnChain(n)' /\ IsScoped(n)} =
              {n \in LeaseId : OnChain(n) /\ IsScoped(n)} \cup {l}
        BY <2>2, <2>3
      <4> QED
        BY <4>1, <4>2 DEF LeasedHere
    <3>2. d \in [owner: Address, dseq: DSeq]
      BY LeaseShape
    <3>3. Ledger!Lease(d)
      <4> HIDE DEF d
      <4> QED
        BY <1>0, <3>1 DEF Ledger!Lease, LeasedHere, RatedHere, AccountHere
    <3> QED
      BY <3>2, <3>3 DEF Ledger!Next
  <2>4. CASE ~IsScoped(l)
    <3>1. LeasedHere' = LeasedHere
      BY <2>2, <2>4 DEF LeasedHere, IsScoped
    <3> QED
      BY <1>0, <3>1 DEF Ledger!vars, LeasedHere, RatedHere, AccountHere
  <2> QED
    BY <2>3, <2>4
<1>2. CASE \E l \in LeaseId : EndLease(l)
  <2>1. \A m \in LeaseId : OnChain(m)' <=> OnChain(m)
    BY <1>2 DEF EndLease, OnChain, TypeOK, ChainTypeOK
  <2>2. LeasedHere' = LeasedHere
    BY <2>1 DEF LeasedHere, IsScoped
  <2> QED
    BY <1>0, <2>2 DEF Ledger!vars, LeasedHere, RatedHere, AccountHere
<1> QED
  BY <1>1, <1>2 DEF ChainNext

\* Every step of the service is a step of the ledger or none of its business.
LEMMA StepIsLedgerStep ==
  TypeOK /\ Checked /\ EarnedInv /\ TableInv /\ [Next]_vars
    => [Ledger!Next]_(Ledger!vars)
<1> SUFFICES ASSUME TypeOK, Checked, EarnedInv, TableInv, [Next]_vars
             PROVE  [Ledger!Next]_(Ledger!vars)
  OBVIOUS
<1>1. CASE ChainStep
  <2>1. ChainNext /\ PlainRows' = PlainRows
    BY <1>1 DEF ChainStep, tableVars, PlainRows, IsHere
  <2> QED
    BY <2>1, ChainIsLedger
<1>2. ASSUME chain' = chain, PlainRows' = PlainRows
      PROVE  UNCHANGED Ledger!vars
  <2>1. LeasedHere' = LeasedHere
    BY <1>2 DEF LeasedHere, OnChain, IsScoped
  <2> QED
    BY <1>2, <2>1, RatedIsKept
    DEF Ledger!vars, LeasedHere, RatedHere, AccountHere
<1>3. CASE ~ChainStep
  <2>1. chain' = chain
    BY <1>3 DEF Next, vars, PollerStep, PollerNext, SyncStep, Tick, BeginSync,
         QueryPage, UpsertNext, NextPage, NextState, EndSync, SyncFails,
         ApiStep, ApiNext, Receive, HandlerStep, HandlerFails, LookupLease,
         LookupFails, VerifyLive, VerifyLiveFails, CacheLease, CacheLeaseFails,
         StoreRating, StoreRatingFails, Restart
  <2>2. CASE feedback' = feedback
    <3>1. PlainRows' = PlainRows
      BY <2>2 DEF PlainRows, IsHere
    <3> QED
      BY <1>2, <2>1, <3>1
  <2>3. CASE feedback' # feedback
    <3>1. PICK q \in Req : /\ InFlight(q) /\ Backed(LeaseOf(Sent(q)))
                           /\ ~IsDuplicate(Record(q))
                           /\ feedback' = feedback \cup {Record(q)}
      BY <2>3, RowsAreNew
    <3>2. CASE IsHere(Record(q)) /\ Record(q).dseq.spelling = "canonical"
      BY <2>1, <3>1, <3>2, NewRowIsRated DEF Ledger!Next
    <3>3. CASE ~(IsHere(Record(q)) /\ Record(q).dseq.spelling = "canonical")
      <4>1. PlainRows' = PlainRows
        BY <3>1, <3>3 DEF PlainRows, IsHere
      <4> QED
        BY <1>2, <2>1, <4>1
    <3> QED
      BY <3>2, <3>3
  <2> QED
    BY <2>2, <2>3
<1> QED
  BY <1>1, <1>3

\* The service begins with an empty ledger.
LEMMA InitIsLedgerInit == Init => Ledger!Init /\ TableInv
<1> SUFFICES ASSUME Init PROVE Ledger!Init /\ TableInv
  OBVIOUS
<1>1. feedback = {} /\ \A l \in LeaseId : ~OnChain(l)
  BY DEF Init, FeedbackTableInit, ChainInit, OnChain
<1>2. LeasedHere = {} /\ RatedHere = {} /\ PlainRows = {}
  BY <1>1 DEF LeasedHere, RatedHere, PlainRows
<1>3. ASSUME NEW a \in Address PROVE ReputationIn({}, a) = Ledger!NoRatings
  <2>1. About({}, a) = {} /\ Ups({}) = {} /\ Downs({}) = {} /\ Pairs({}) = {}
    BY DEF About, Ups, Downs, Pairs
  <2>2. ScoreSum({}) = 0
    <3>1. ScoreSum({}) = Cardinality(Ups({})) - Cardinality(Downs({}))
      BY FS_EmptySet, ScoresAddUp
    <3> QED
      BY <2>1, <3>1, FS_EmptySet
  <2> QED
    BY <2>1, <2>2, SumsByName, FS_EmptySet DEF Ledger!NoRatings
<1>4. AccountHere = [a \in Address |-> Ledger!NoRatings]
  BY <1>2, <1>3 DEF AccountHere
<1>5. Ledger!Init
  BY <1>2, <1>4 DEF Ledger!Init, LeasedHere, RatedHere, AccountHere
<1> QED
  BY <1>1, <1>5, FS_EmptySet DEF TableInv

\* Requests, poller, chain, failures and restarts together do nothing to the
\* ratings of this provider's deployments that the ledger does not allow.
THEOREM ServiceImplementsLedger == Spec => ImplementsLedger
<1>1. EarnedInv /\ TableInv /\ [Next]_vars => TableInv'
  BY StepKeepsTable
<1>2. TypeOK /\ Checked /\ EarnedInv /\ TableInv /\ [Next]_vars
        => [Ledger!Next]_(Ledger!vars)
  BY StepIsLedgerStep
<1> QED
  BY <1>1, <1>2, InitIsLedgerInit, ServiceChecked, ServiceEarnedInv, PTL
  DEF Spec, ImplementsLedger, Ledger!Spec

-----------------------------------------------------------------------------
LedgerProofs ==
  INSTANCE RatingLedgerProofs WITH
    Party <- Address, Operator <- Provider,
    Deployment <- [owner: Address, dseq: DSeq],
    leased <- {[owner |-> l.owner, dseq |-> l.dseq] :
                 l \in {m \in LeaseId : OnChain(m) /\ IsScoped(m)}},
    rated <- {[author |-> r.author, deployment |-> DeploymentOf(r)] :
                r \in PlainRows},
    account <- [a \in Address |-> ReputationIn(PlainRows, a)]

\* So what the ledger keeps in balance is in balance.
LEMMA LedgerStaysBalanced == ImplementsLedger => []Balanced
<1>1. Ledger!Init <=> LedgerProofs!Init
  BY DEF Ledger!Init, LedgerProofs!Init, Ledger!NoRatings, LedgerProofs!NoRatings
<1>2. [Ledger!Next]_(Ledger!vars) <=> [LedgerProofs!Next]_(LedgerProofs!vars)
  BY DEF Ledger!Next, LedgerProofs!Next, Ledger!vars, LedgerProofs!vars,
         Ledger!Lease, LedgerProofs!Lease, Ledger!Rate, LedgerProofs!Rate,
         Ledger!Credited, LedgerProofs!Credited
<1>3. Ledger!Balanced <=> LedgerProofs!Balanced
  <2>1. \A r : Ledger!SubjectOf(r) = LedgerProofs!SubjectOf(r)
    BY DEF Ledger!SubjectOf, LedgerProofs!SubjectOf
  <2>2. \A p : Ledger!RatedOf(p) = LedgerProofs!RatedOf(p)
    BY <2>1 DEF Ledger!RatedOf, LedgerProofs!RatedOf
  <2>3. \A S : Ledger!Cardinality(S) = LedgerProofs!Cardinality(S)
    BY DEF Ledger!Cardinality, LedgerProofs!Cardinality
  <2> QED
    BY <2>2, <2>3 DEF Ledger!Balanced, LedgerProofs!Balanced
<1>4. LedgerProofs!Spec => []LedgerProofs!Balanced
  BY LedgerProofs!LedgerBalanced
<1> QED
  BY <1>1, <1>2, <1>3, <1>4, PTL
  DEF ImplementsLedger, Balanced, Ledger!Spec, LedgerProofs!Spec

\* What GET /reputation says adds up.
THEOREM SumsAreBalanced == Spec => []Balanced
BY ServiceImplementsLedger, LedgerStaysBalanced
-----------------------------------------------------------------------------
\* The signing tool against the same handlers.  Its runs are the clients here,
\* and the lemmas above about ApiNext hold whoever they are.

\* What may be signed is a message, and what is posted an envelope of it.
LEMMA SignedFields ==
  ASSUME NEW i \in Invocation, NEW t \in Instant, Signable(i, t)
  PROVE  /\ Message(i, t) \in Feedback
         /\ Signed(i, t) \in [feedback: Feedback, pubkey: Base64(Key),
                              signature: Base64(Signature)]
<1>1. Signed(i, t) \in [feedback: Feedback, pubkey: Base64(Key) \cup {NotBase64},
                        signature: Base64(Signature) \cup {NotBase64}]
  BY EnvelopeAssumption, FeedbackApiAssumption
<1>2. LoadKey(i) \in Key /\ AddressFromPubKey[LoadKey(i)] \in Address
  BY Adr036Assumption DEF Signable
<1>3. Message(i, t) \in Feedback
  BY <1>1 DEF Signed
<1>4. Sign(Message(i, t), LoadKey(i)) \in Signature
  BY <1>2, <1>3 DEF Sign, SignDoc, Escapes, Signature
<1> QED
  BY <1>2, <1>3, <1>4 DEF Signed, Encoded, Base64

\* The server finds such a message in order but for the length of its comment,
LEMMA SignedIsWellFormed ==
  ASSUME NEW i \in Invocation, NEW t \in Instant, Signable(i, t),
         ~WellFormed(Signed(i, t))
  PROVE  Signed(i, t).feedback.comment.bytes > MaxCommentBytes
<1> DEFINE env == Signed(i, t)
<1>1. env \in [feedback: Feedback, pubkey: Base64(Key),
              signature: Base64(Signature)]
  BY SignedFields
<1>2. env # NotJSON /\ env.pubkey # NotBase64 /\ env.signature # NotBase64
  BY <1>1, EnvelopeAssumption, SentinelAssumption
<1>3. Validate(env.feedback)
  BY DEF Signable, Signed
<1>4. Readable(env.feedback.issued_at)
  BY DEF Signed, Message, Canonical, Readable
<1>5. env.feedback.comment.bytes \in Nat
  BY <1>1, Adr036Assumption DEF Feedback
<1> HIDE DEF env
<1> QED
  BY <1>2, <1>3, <1>4, <1>5 DEF WellFormed, MaxCommentBytes, env

\* and the signature over it that of its author.
LEMMA SignedIsAttributed ==
  ASSUME NEW i, NEW t, Signable(i, t)
  PROVE  Attributed(Signed(i, t))
BY DEF Signable, Attributed, Verify, Signed, Encoded, Sign

-----------------------------------------------------------------------------
\* What is known of a run and of its request on the way.

\* The envelope is what the command line asks for, dated at some second.
Signs(i, env) == \E t \in Instant : Signable(i, t) /\ env = Signed(i, t)

\* A run goes from its flags to the POST, and what is posted is what it signed.
RunAsked(r) ==
  /\ runPc[r] = "idle" =>
       ran[r] = NotRun /\ reqPc[r] = "unsent" /\ exit[r] = NoExit
  /\ runPc[r] = "posting" \/ reqPc[r] # "unsent" =>
       ran[r] \in Invocation /\ ran[r].api /\ Signs(ran[r], made[r])
  /\ reqPc[r] # "unsent" => body[r] = made[r]
  /\ runPc[r] = "posting" => exit[r] = NoExit
  /\ exit[r] = 0 /\ ran[r].api => reqPc[r] = "answered" /\ answer[r].status = 201

\* Who was refused is to blame.
Refused(q) ==
  /\ answer[q].status \in Status <=> reqPc[q] = "answered"
  /\ answer[q].status = 400 => ~WellFormed(body[q])
  /\ answer[q].status = 401 => ~Attributed(body[q])

\* The row says what the command line of the run asked for.
RowAsked(row, r) ==
  LET i == ran[r]
      key == IF i.keyHex # "" THEN i.keyHex
             ELSE IF i.env # "" THEN i.env ELSE i.stdin
  IN  /\ i # NotRun
      /\ i.api /\ key \in Key
      /\ row.role = i.role /\ row.author = AddressFromPubKey[key]
      /\ row.score = (IF i.score # 0 THEN i.score ELSE IF i.up THEN 1 ELSE -1)
      /\ i.provider \in {"", row.provider} /\ i.deployer \in {"", row.owner}
      /\ row.dseq = i.dseq /\ row.goseq = i.goseq /\ row.comment = i.comment

\* It was stored for a run that was told so, or told of an error instead.
StoredFor(row, s) ==
  /\ reqPc[s] = "answered" /\ answer[s].status \in {201, 500}
  /\ row.signature = made[s].signature /\ RowAsked(row, s)

AskedInv == \A r \in Req : RunAsked(r)
RefusedInv == \A q \in Req : Refused(q)
RowsAsked == \A row \in feedback : \E s \in Req : StoredFor(row, s)

RunsInv == RunsTypeOK /\ Checked /\ AnswersInv /\ AskedInv /\ RefusedInv /\ RowsAsked

-----------------------------------------------------------------------------
\* A step of the server moves one request, and this is how.

Moves(q) ==
  /\ \A p \in Req \ {q} :
       reqPc'[p] = reqPc[p] /\ answer'[p] = answer[p] /\ body'[p] = body[p]
  /\ reqPc[q] # "answered" /\ reqPc'[q] # "unsent"
  /\ \/ reqPc'[q] # "answered" /\ answer'[q] = answer[q]
     \/ /\ reqPc'[q] = "answered" /\ answer'[q].status \in Status
        /\ answer'[q].status = 400 => ~WellFormed(body'[q])
        /\ answer'[q].status = 401 => ~Attributed(body'[q])
  /\ \/ feedback' = feedback
     \/ /\ reqPc[q] = "insert" /\ feedback' = feedback \cup {Record(q)}
        /\ reqPc'[q] = "answered" /\ answer'[q].status \in {201, 500}

\* The arrival of a request,
LEMMA ReceiveMoves ==
  ASSUME HandlerTypeOK, NEW q \in Req, NEW env \in Envelope, Receive(q, env)
  PROVE  Moves(q) /\ body'[q] = env /\ reqPc[q] = "unsent"
<1>1. /\ reqPc \in [Req -> ReqPc] /\ body \in [Req -> Envelope \cup {NotJSON}]
      /\ answer \in [Req -> [status: Status \cup {0}, id: Nat]]
  BY DEF HandlerTypeOK, ApiTypeOK
<1>2. body'[q] = env /\ (\A p \in Req \ {q} : body'[p] = body[p])
  BY <1>1 DEF Receive
<1>3. reqPc[q] = "unsent" /\ feedback' = feedback
  BY DEF Receive
<1>4. CASE ~WellFormed(env) /\ Answer(q, 400, 0)
  BY <1>1, <1>2, <1>3, <1>4 DEF Moves, Answer, Status
<1>5. CASE ~Attributed(env) /\ Answer(q, 401, 0)
  BY <1>1, <1>2, <1>3, <1>5 DEF Moves, Answer, Status
<1>6. CASE reqPc' = [reqPc EXCEPT ![q] = "lookup"] /\ UNCHANGED answer
  BY <1>1, <1>2, <1>3, <1>6 DEF Moves
<1> QED
  BY <1>2, <1>3, <1>4, <1>5, <1>6 DEF Receive

\* and each step of its handler.
LEMMA HandlerMoves ==
  ASSUME HandlerTypeOK, NEW q \in Req, HandlerStep(q) \/ HandlerFails(q)
  PROVE  Moves(q) /\ body' = body /\ InFlight(q)
<1>1. /\ reqPc \in [Req -> ReqPc]
      /\ answer \in [Req -> [status: Status \cup {0}, id: Nat]]
  BY DEF HandlerTypeOK, ApiTypeOK
<1>2. InFlight(q) /\ body' = body
  BY DEF HandlerStep, HandlerFails, LookupLease, LookupFails, VerifyLive,
         VerifyLiveFails, CacheLease, CacheLeaseFails, StoreRating,
         StoreRatingFails, InFlight, Goto
<1>3. reqPc[q] # "answered"
  BY <1>2 DEF InFlight
<1>4. ASSUME NEW pc \in {"live", "cache", "insert"}, Goto(q, pc), feedback' = feedback
      PROVE  Moves(q)
  BY <1>1, <1>3, <1>4 DEF Moves, Goto
<1>5. ASSUME NEW s \in Status \ {400, 401}, NEW id, Answer(q, s, id),
             \/ feedback' = feedback
             \/ /\ reqPc[q] = "insert" /\ s \in {201, 500}
                /\ feedback' = feedback \cup {Record(q)}
      PROVE  Moves(q)
  BY <1>1, <1>2, <1>3, <1>5 DEF Moves, Answer
<1>6. CASE LookupLease(q)
  BY <1>2, <1>4, <1>6 DEF LookupLease
<1>7. CASE LookupFails(q)
  BY <1>2, <1>5, <1>7 DEF LookupFails, Status
<1>8. CASE VerifyLive(q)
  BY <1>2, <1>4, <1>5, <1>8 DEF VerifyLive, Status
<1>9. CASE VerifyLiveFails(q)
  BY <1>2, <1>5, <1>9 DEF VerifyLiveFails, Status
<1>10. CASE CacheLease(q) \/ CacheLeaseFails(q)
  BY <1>2, <1>4, <1>10 DEF CacheLease, CacheLeaseFails
<1>11. CASE StoreRating(q)
  BY <1>2, <1>5, <1>11 DEF StoreRating, InsertFeedback, Status
<1>12. CASE StoreRatingFails(q)
  BY <1>2, <1>5, <1>12 DEF StoreRatingFails, InsertFeedback, Status
<1> QED
  BY <1>2, <1>6, <1>7, <1>8, <1>9, <1>10, <1>11, <1>12
  DEF HandlerStep, HandlerFails

\* Whom the server blames is to blame.
LEMMA MovesKeepRefused ==
  ASSUME HandlerTypeOK, RefusedInv, NEW q \in Req, Moves(q), body'[q] = body[q] \/ reqPc[q] = "unsent"
  PROVE  RefusedInv'
<1>1. \A p \in Req : answer[p].status \in Status \cup {0}
  BY DEF HandlerTypeOK, ApiTypeOK
<1> SUFFICES ASSUME NEW p \in Req
             PROVE  /\ answer'[p].status \in Status <=> reqPc'[p] = "answered"
                    /\ answer'[p].status = 400 => ~WellFormed(body'[p])
                    /\ answer'[p].status = 401 => ~Attributed(body'[p])
  BY DEF RefusedInv, Refused, WellFormed, Attributed
<1>2. CASE p = q
  BY <1>1, <1>2 DEF Moves, RefusedInv, Refused, Status
<1>3. CASE p # q
  BY <1>3 DEF Moves, RefusedInv, Refused
<1> QED
  BY <1>2, <1>3

\* The message of a run and the row made from it say what its flags ask for.
LEMMA RecordIsAsked ==
  ASSUME NEW r \in Req, ran[r] \in Invocation, ran[r].api, Signs(ran[r], body[r])
  PROVE  RowAsked(Record(r), r)
<1> DEFINE i == ran[r]
           key == IF i.keyHex # "" THEN i.keyHex
                  ELSE IF i.env # "" THEN i.env ELSE i.stdin
<1>1. PICK t \in Instant : Signable(i, t) /\ body[r] = Signed(i, t)
  BY DEF Signs
<1> DEFINE f == Message(i, t)
<1>2. Sent(r) = f
  BY <1>1 DEF Sent, Signed
<1>3. key = LoadKey(i)
  BY DEF LoadKey
<1>4. key \in Key /\ AddressFromPubKey[key] = Author(f)
  BY <1>1, <1>3 DEF Signable
<1>5. ResolveScore(i) = IF i.score # 0 THEN i.score ELSE IF i.up THEN 1 ELSE -1
  <2>1. i.up \in BOOLEAN /\ i.down \in BOOLEAN
    BY ReputeSignAssumption
  <2>2. ResolveScore(i) # 0
    BY <1>1 DEF Signable
  <2> QED
    BY <2>1, <2>2 DEF ResolveScore
<1>6. /\ f.role = i.role /\ f.dseq = i.dseq /\ f.goseq = i.goseq
      /\ f.comment = i.comment /\ f.score = ResolveScore(i)
      /\ i.provider \in {"", f.provider} /\ i.deployer \in {"", f.deployer}
  BY DEF Message, OwnSide
<1>7. i # NotRun
  BY ReputeSignAssumption
<1> HIDE DEF f, key
<1>8. /\ Record(r).role = f.role /\ Record(r).author = Author(f)
      /\ Record(r).provider = f.provider /\ Record(r).owner = f.deployer
      /\ Record(r).dseq = f.dseq /\ Record(r).goseq = f.goseq
      /\ Record(r).score = f.score /\ Record(r).comment = f.comment
  BY <1>2 DEF Record
<1> QED
  BY <1>4, <1>5, <1>6, <1>7, <1>8 DEF RowAsked, key

\* A step of the server for the request of one run.
LEMMA ServerKeepsAsked ==
  ASSUME RunsInv, NEW q \in Req, Moves(q), UNCHANGED cliVars,
         \/ body' = body /\ InFlight(q)
         \/ reqPc[q] = "unsent" /\ runPc[q] = "posting" /\ body'[q] = made[q]
  PROVE  AskedInv' /\ RowsAsked'
<1>1. ran' = ran /\ runPc' = runPc /\ made' = made /\ exit' = exit
  BY DEF cliVars
<1>2. ASSUME NEW r \in Req PROVE RunAsked(r)'
  <2>1. RunAsked(r)
    BY DEF RunsInv, AskedInv
  <2>2. CASE r = q
    <3>1. reqPc[q] # "answered" /\ (reqPc[q] # "unsent" \/ runPc[q] = "posting")
      BY DEF Moves, InFlight
    <3>2. ran[q] \in Invocation /\ ran[q].api /\ Signs(ran[q], made[q])
      BY <2>1, <2>2, <3>1 DEF RunAsked
    <3>3. body'[q] = made[q] /\ runPc[q] # "idle" /\ ~(exit[q] = 0 /\ ran[q].api)
      BY <2>1, <2>2, <3>1 DEF RunAsked, InFlight
    <3> QED
      BY <1>1, <2>1, <2>2, <3>2, <3>3 DEF RunAsked, Signs
  <2>3. CASE r # q
    <3>1. reqPc'[r] = reqPc[r] /\ answer'[r] = answer[r] /\ body'[r] = body[r]
      BY <2>3 DEF Moves
    <3> QED
      BY <1>1, <2>1, <3>1 DEF RunAsked, Signs
  <2> QED
    BY <2>2, <2>3
<1>3. ASSUME NEW row \in feedback' PROVE \E s \in Req : StoredFor(row, s)'
  <2>1. CASE row \in feedback
    <3>1. PICK s \in Req : StoredFor(row, s)
      BY <2>1 DEF RunsInv, RowsAsked
    <3>2. s # q /\ reqPc'[s] = reqPc[s] /\ answer'[s] = answer[s]
      BY <3>1 DEF StoredFor, Moves
    <3>3. StoredFor(row, s)'
      BY <1>1, <3>1, <3>2 DEF StoredFor, RowAsked
    <3> QED
      BY <3>3
  <2>2. CASE row \notin feedback
    <3>1. /\ reqPc[q] = "insert" /\ row = Record(q)
          /\ reqPc'[q] = "answered" /\ answer'[q].status \in {201, 500}
      BY <2>2 DEF Moves
    <3>2. /\ ran[q] \in Invocation /\ ran[q].api /\ Signs(ran[q], body[q])
          /\ body[q] = made[q]
      BY <3>1 DEF RunsInv, AskedInv, RunAsked
    <3>3. RowAsked(row, q) /\ row.signature = made[q].signature
      BY <3>1, <3>2, RecordIsAsked DEF Record
    <3>4. StoredFor(row, q)'
      BY <1>1, <3>1, <3>3 DEF StoredFor, RowAsked
    <3> QED
      BY <3>4
  <2> QED
    BY <2>1, <2>2
<1> QED
  BY <1>2, <1>3 DEF AskedInv, RowsAsked

\* What the runs have, apart from the server, keeps its type.
RunVarsTypeOK ==
  /\ ran \in [Req -> Invocation \cup {NotRun}]
  /\ runPc \in [Req -> {"idle", "posting", "done"}]
  /\ made \in [Req -> [feedback: Feedback, pubkey: Base64(Key),
                     signature: Base64(Signature)]
                        \cup {NotJSON}]
  /\ exit \in [Req -> {NoExit, 0, 1}]

\* The types, by whose they are.
LEMMA RunsTypeInParts ==
  RunsTypeOK <=> ChainTypeOK /\ HandlerTypeOK /\ RunVarsTypeOK
BY DEF RunsTypeOK, HandlerTypeOK, RunVarsTypeOK

\* A step of the server, whichever run it is for.
LEMMA ServerKeepsRuns ==
  ASSUME RunsInv, ApiNext, UNCHANGED cliVars, NEW q \in Req,
         \/ HandlerStep(q) \/ HandlerFails(q)
         \/ runPc[q] = "posting" /\ made[q] \in Envelope /\ Receive(q, made[q])
  PROVE  RunsInv'
<1>1. HandlerTypeOK /\ ChainTypeOK /\ RunVarsTypeOK
  BY RunsTypeInParts DEF RunsInv
<1>2. HandlerTypeOK' /\ Checked' /\ chain' = chain
  BY <1>1, ApiKeepsTypes DEF RunsInv
<1>3. AnswersInv'
  BY <1>1, ApiKeepsAnswers DEF RunsInv
<1>4. /\ Moves(q)
      /\ \/ body' = body /\ InFlight(q)
         \/ reqPc[q] = "unsent" /\ runPc[q] = "posting" /\ body'[q] = made[q]
  BY <1>1, HandlerMoves, ReceiveMoves
<1>5. RefusedInv'
  BY <1>1, <1>4, MovesKeepRefused DEF RunsInv
<1>6. AskedInv' /\ RowsAsked'
  BY <1>4, ServerKeepsAsked
<1>7. RunsTypeOK'
  <2>1. ChainTypeOK'
    BY <1>1, <1>2 DEF ChainTypeOK
  <2>2. RunVarsTypeOK'
    BY <1>1 DEF RunVarsTypeOK, cliVars
  <2> QED
    BY <1>2, <2>1, <2>2 DEF RunsTypeOK, HandlerTypeOK, RunVarsTypeOK
<1> QED
  BY <1>2, <1>3, <1>5, <1>6, <1>7 DEF RunsInv

-----------------------------------------------------------------------------
\* The steps of a run that are no steps of the server.

\* The server keeps what is true of it when it does not move.
LEMMA ServerAtRest ==
  ASSUME RunsInv, UNCHANGED <<leases, feedback, nextId, reqPc, body, answer>>,
         FaultsTypeOK'
  PROVE  HandlerTypeOK' /\ Checked' /\ AnswersInv' /\ RefusedInv'
<1>1. HandlerTypeOK'
  BY RunsTypeInParts
  DEF RunsInv, HandlerTypeOK, LeaseTableTypeOK, FeedbackTableTypeOK, ApiTypeOK
<1>2. Checked'
  BY DEF RunsInv, Checked, InFlight, WellFormed, Attributed
<1>3. AnswersInv'
  BY DEF RunsInv, AnswersInv, IdsDrawn, AnswersTruthful, Sent
<1>4. RefusedInv'
  BY DEF RunsInv, RefusedInv, Refused, WellFormed, Attributed
<1> QED
  BY <1>1, <1>2, <1>3, <1>4

\* One run takes a step and the server none.
LEMMA RunKeepsRuns ==
  ASSUME RunsInv, NEW r \in Req,
         UNCHANGED <<serverVars>>, faults' = faults \/ Fault,
         RunVarsTypeOK', RunAsked(r)',
         \A s \in Req \ {r} : /\ ran'[s] = ran[s] /\ runPc'[s] = runPc[s]
                              /\ made'[s] = made[s] /\ exit'[s] = exit[s],
         reqPc[r] = "answered" => ran'[r] = ran[r] /\ made'[r] = made[r]
  PROVE  RunsInv'
<1>1. /\ UNCHANGED <<leases, feedback, nextId, reqPc, body, answer>>
      /\ chain' = chain
  BY DEF serverVars
<1>2. FaultsTypeOK'
  BY FaultKeepsType DEF RunsInv, RunsTypeOK, FaultsTypeOK
<1>3. HandlerTypeOK' /\ Checked' /\ AnswersInv' /\ RefusedInv'
  BY <1>1, <1>2, ServerAtRest
<1>4. RunsTypeOK'
  BY <1>1, <1>3
  DEF RunsInv, RunsTypeOK, ChainTypeOK, HandlerTypeOK, RunVarsTypeOK
<1>5. ASSUME NEW s \in Req PROVE RunAsked(s)'
  <2>1. CASE s = r
    BY <2>1
  <2>2. CASE s # r
    BY <1>1, <2>2 DEF RunsInv, AskedInv, RunAsked, Signs
  <2> QED
    BY <2>1, <2>2
<1>6. ASSUME NEW row \in feedback' PROVE \E s \in Req : StoredFor(row, s)'
  <2>1. PICK s \in Req : StoredFor(row, s)
    BY <1>1 DEF RunsInv, RowsAsked
  <2>2. ran'[s] = ran[s] /\ made'[s] = made[s]
    BY <2>1 DEF StoredFor
  <2>3. RowAsked(row, s)'
    <3>1. RowAsked(row, s)
      BY <2>1 DEF StoredFor
    <3>2. PICK i : ran[s] = i /\ ran'[s] = i
      BY <2>2
    <3> QED
      BY <3>1, <3>2 DEF RowAsked
  <2>4. reqPc' = reqPc /\ answer' = answer
    BY <1>1
  <2>5. StoredFor(row, s)'
    BY <2>1, <2>2, <2>3, <2>4 DEF StoredFor
  <2> QED
    BY <2>5
<1> QED
  BY <1>3, <1>4, <1>5, <1>6 DEF RunsInv, AskedInv, RowsAsked

\* A run signs what its flags ask for, or ends.
LEMMA InvokeKeepsRuns ==
  ASSUME RunsInv, NEW r \in Req, NEW i \in Invocation, NEW t \in Instant,
         Invoke(r, i, t)
  PROVE  RunsInv'
<1>1. RunVarsTypeOK
  BY RunsTypeInParts DEF RunsInv
<1>2. RunAsked(r) /\ runPc[r] = "idle"
  BY DEF RunsInv, AskedInv, Invoke
<1>3. reqPc[r] = "unsent" /\ exit[r] = NoExit
  BY <1>2 DEF RunAsked
<1>4. UNCHANGED serverVars /\ faults' = faults
  BY DEF Invoke
<1>5. ran' = [ran EXCEPT ![r] = i]
  BY DEF Invoke
<1>6. CASE Signable(i, t) /\ i.api
  <2>1. /\ made' = [made EXCEPT ![r] = Signed(i, t)]
        /\ runPc' = [runPc EXCEPT ![r] = "posting"] /\ exit' = exit
    BY <1>6 DEF Invoke
  <2>2. RunVarsTypeOK'
    BY <1>1, <1>5, <1>6, <2>1, SignedFields DEF RunVarsTypeOK
  <2>3. RunAsked(r)'
    BY <1>1, <1>3, <1>4, <1>5, <1>6, <2>1
    DEF RunAsked, RunVarsTypeOK, Signs, serverVars, NoExit
  <2> QED
    BY <1>1, <1>3, <1>4, <1>5, <2>1, <2>2, <2>3, RunKeepsRuns DEF RunVarsTypeOK
<1>7. CASE ~(Signable(i, t) /\ i.api)
  <2>1. /\ runPc' = [runPc EXCEPT ![r] = "done"]
        /\ \/ exit' = [exit EXCEPT ![r] = 1] /\ made' = made
           \/ /\ exit' = [exit EXCEPT ![r] = 0] /\ ~i.api
              /\ Signable(i, t) /\ made' = [made EXCEPT ![r] = Signed(i, t)]
    BY <1>7 DEF Invoke, Ends
  <2>2. RunVarsTypeOK'
    BY <1>1, <1>5, <2>1, SignedFields DEF RunVarsTypeOK
  <2>3. RunAsked(r)'
    BY <1>1, <1>3, <1>4, <1>5, <2>1
    DEF RunAsked, RunVarsTypeOK, serverVars, NoExit
  <2> QED
    BY <1>1, <1>3, <1>4, <1>5, <2>1, <2>2, <2>3, RunKeepsRuns DEF RunVarsTypeOK
<1> QED
  BY <1>6, <1>7

\* A run ends with the answer it has, or without one.
LEMMA EndKeepsRuns ==
  ASSUME RunsInv, NEW r \in Req, Answered(r) \/ PostFails(r)
  PROVE  RunsInv'
<1>1. RunVarsTypeOK
  BY RunsTypeInParts DEF RunsInv
<1>2. RunAsked(r) /\ Refused(r) /\ runPc[r] = "posting"
  BY DEF RunsInv, AskedInv, RefusedInv, Answered, PostFails
<1>3. /\ UNCHANGED <<serverVars, ran, made>> /\ (faults' = faults \/ Fault)
      /\ runPc' = [runPc EXCEPT ![r] = "done"]
  BY DEF Answered, PostFails, Ends
<1>4. PICK code \in {0, 1} :
        /\ exit' = [exit EXCEPT ![r] = code]
        /\ code = 0 => reqPc[r] = "answered" /\ answer[r].status < 300
  <2>1. CASE Answered(r)
    <3>1. answer[r].status \in Status
      BY <1>2, <2>1 DEF Answered, Refused
    <3>2. ExitCode(answer[r].status) \in {0, 1}
      BY DEF ExitCode
    <3>3. /\ exit' = [exit EXCEPT ![r] = ExitCode(answer[r].status)]
          /\ reqPc[r] = "answered"
      BY <2>1 DEF Answered, Ends
    <3>4. ExitCode(answer[r].status) = 0 => answer[r].status < 300
      BY <3>1 DEF ExitCode, Status
    <3> QED
      BY <3>2, <3>3, <3>4
  <2>2. CASE PostFails(r)
    BY <2>2 DEF PostFails, Ends
  <2> QED
    BY <2>1, <2>2
<1>5. code = 0 => reqPc[r] = "answered" /\ answer[r].status = 201
  BY <1>2, <1>4 DEF Refused, Status
<1>6. RunVarsTypeOK'
  BY <1>1, <1>3, <1>4 DEF RunVarsTypeOK
<1>7. RunAsked(r)'
  BY <1>1, <1>2, <1>3, <1>4, <1>5 DEF RunAsked, RunVarsTypeOK, Signs, serverVars
<1> QED
  BY <1>1, <1>3, <1>4, <1>6, <1>7, RunKeepsRuns DEF RunVarsTypeOK

\* The chain goes on, or nothing happens.
LEMMA RestKeepsRuns ==
  ASSUME RunsInv, ChainGoesOn \/ UNCHANGED runsVars
  PROVE  RunsInv'
<1>1. /\ UNCHANGED <<leases, feedback, nextId, reqPc, body, answer>>
      /\ faults' = faults
      /\ ran' = ran /\ runPc' = runPc /\ made' = made /\ exit' = exit
  BY DEF ChainGoesOn, runsVars, serverVars, cliVars, apiVars
<1>2. ChainTypeOK'
  BY ChainKeepsType
  DEF ChainGoesOn, runsVars, serverVars, RunsInv, RunsTypeOK, ChainTypeOK
<1>3. HandlerTypeOK' /\ Checked' /\ AnswersInv' /\ RefusedInv'
  BY <1>1, ServerAtRest DEF RunsInv, RunsTypeOK, FaultsTypeOK
<1>4. RunsTypeOK'
  BY <1>1, <1>2, <1>3 DEF RunsInv, RunsTypeOK, HandlerTypeOK
<1>5. AskedInv'
  BY <1>1 DEF RunsInv, AskedInv, RunAsked, Signs
<1>6. ASSUME NEW row, NEW s, StoredFor(row, s) PROVE StoredFor(row, s)'
  <2>1. RowAsked(row, s)'
    BY <1>1, <1>6 DEF StoredFor, RowAsked
  <2> QED
    BY <1>1, <1>6, <2>1 DEF StoredFor
<1>7. RowsAsked'
  BY <1>1, <1>6 DEF RunsInv, RowsAsked
<1> QED
  BY <1>3, <1>4, <1>5, <1>7 DEF RunsInv

-----------------------------------------------------------------------------
\* The theorems about the runs.

\* A step of a run, of the server or of the chain.
LEMMA StepKeepsRuns == RunsInv /\ [RunsNext]_runsVars => RunsInv'
<1> SUFFICES ASSUME RunsInv, [RunsNext]_runsVars PROVE RunsInv'
  OBVIOUS
<1>1. CASE RunStep
  <2>1. PICK r \in Req :
          \/ \E i \in Invocation, t \in Instant : Invoke(r, i, t)
          \/ Deliver(r) \/ Answered(r) \/ PostFails(r)
    BY <1>1 DEF RunStep
  <2>2. CASE Deliver(r)
    <3>1. runPc[r] = "posting" /\ Receive(r, made[r]) /\ UNCHANGED cliVars
      BY <2>2 DEF Deliver
    <3>2. made[r] \in Envelope
      BY <3>1, EnvelopeAssumption DEF RunsInv, AskedInv, RunAsked, Signs
    <3>3. ApiNext
      BY <3>1, <3>2 DEF ApiNext
    <3> QED
      BY <3>1, <3>2, <3>3, ServerKeepsRuns
  <2> QED
    BY <2>1, <2>2, InvokeKeepsRuns, EndKeepsRuns
<1>2. CASE ServerStep
  <2>1. PICK q \in Req : HandlerStep(q) \/ HandlerFails(q)
    BY <1>2 DEF ServerStep
  <2>2. ApiNext /\ UNCHANGED cliVars
    BY <1>2, <2>1 DEF ServerStep, ApiNext
  <2> QED
    BY <2>1, <2>2, ServerKeepsRuns
<1> QED
  BY <1>1, <1>2, RestKeepsRuns DEF RunsNext

\* No run has begun at first.
LEMMA InitKeepsRuns == RunsInit => RunsInv
<1> SUFFICES ASSUME RunsInit PROVE RunsInv
  OBVIOUS
<1>1. /\ reqPc = [q \in Req |-> "unsent"] /\ body = [q \in Req |-> NotJSON]
      /\ answer = [q \in Req |-> NoAnswer] /\ feedback = {} /\ nextId = 1
  BY DEF RunsInit, ApiInit, FeedbackTableInit
<1>2. /\ ran = [r \in Req |-> NotRun] /\ runPc = [r \in Req |-> "idle"]
      /\ made = [r \in Req |-> NotJSON] /\ exit = [r \in Req |-> NoExit]
  BY DEF RunsInit
<1>3. ApiTypeOK /\ Checked
  BY <1>1 DEF ApiTypeOK, Checked, InFlight, ReqPc, NoAnswer
<1>4. RunsTypeOK
  BY <1>1, <1>2, <1>3, InitTypes DEF RunsInit, RunsTypeOK, FeedbackTableTypeOK
<1>5. AnswersInv
  BY <1>1 DEF NoAnswer, AnswersInv, IdsDrawn, AnswersTruthful
<1>6. AskedInv
  BY <1>1, <1>2 DEF AskedInv, RunAsked, NoExit
<1>7. RefusedInv /\ RowsAsked
  BY <1>1 DEF RefusedInv, Refused, RowsAsked, NoAnswer, Status
<1> QED
  BY <1>3, <1>4, <1>5, <1>6, <1>7 DEF RunsInv

\* The inductive invariant of the runs.
LEMMA RunsInvHolds == RunsSpec => []RunsInv
BY InitKeepsRuns, StepKeepsRuns, PTL DEF RunsSpec

\* Every variable of the runs and of the server they post to keeps its type.
THEOREM RunsTypeCorrect == RunsSpec => []RunsTypeOK
<1>1. RunsInv => RunsTypeOK
  BY DEF RunsInv
<1> QED
  BY <1>1, RunsInvHolds, PTL

\* A run with --api that ends with exit code 0 has its rating stored, under the
\* id that it printed and that no other run was told, however many runs there
\* are and whatever fails (cmd/repute-sign/main.go:113-131).
THEOREM SuccessIsStored == RunsSpec => []SuccessMeansStored
<1>1. RunsInv => SuccessMeansStored
  <2> SUFFICES ASSUME RunsInv, NEW r \in Req, exit[r] = 0, ran[r].api
               PROVE  /\ \E row \in feedback :
                           row.id = answer[r].id /\ row.signature = made[r].signature
                      /\ \A s \in Req \ {r} :
                           exit[s] = 0 /\ ran[s].api => answer[s].id # answer[r].id
    BY DEF SuccessMeansStored
  <2>1. reqPc[r] = "answered" /\ answer[r].status = 201 /\ body[r] = made[r]
    BY DEF RunsInv, AskedInv, RunAsked
  <2> QED
    BY <2>1 DEF RunsInv, AnswersInv, AnswersTruthful
<1> QED
  BY <1>1, RunsInvHolds, PTL

\* What the tool signs the server does not find malformed or forged, but for the
\* length of the comment (cmd/repute-sign/main.go:99-104,
\* internal/api/api.go:76-106).
THEOREM ToolPassesTheServer == RunsSpec => []ToolAndServerAgree
<1>1. RunsInv => ToolAndServerAgree
  <2> SUFFICES ASSUME RunsInv, NEW r \in Req, reqPc[r] = "answered",
                      answer[r].status \in {400, 401}
               PROVE  made[r].feedback.comment.bytes > MaxCommentBytes
    BY DEF ToolAndServerAgree
  <2>1. body[r] = made[r] /\ ran[r] \in Invocation /\ Signs(ran[r], made[r])
    BY DEF RunsInv, AskedInv, RunAsked
  <2>2. PICK t \in Instant : Signable(ran[r], t) /\ made[r] = Signed(ran[r], t)
    BY <2>1 DEF Signs
  <2>3. ~WellFormed(made[r]) \/ ~Attributed(made[r])
    BY <2>1 DEF RunsInv, RefusedInv, Refused
  <2> QED
    BY <2>1, <2>2, <2>3, SignedIsWellFormed, SignedIsAttributed
<1> QED
  BY <1>1, RunsInvHolds, PTL

\* A stored rating says what the command line of a run asked for
\* (cmd/repute-sign/main.go:57-112, 133-170).
THEOREM RatingsAreAsAsked == RunsSpec => []StoredAsAsked
<1>1. RunsInv => StoredAsAsked
  BY DEF RunsInv, RowsAsked, StoredFor, RowAsked, StoredAsAsked
<1> QED
  BY <1>1, RunsInvHolds, PTL

\* A run that is told 409 is told of a rating by its own author on its own
\* deployment, which was stored for another run.
THEOREM ConflictsAreToldTruly == RunsSpec => []RepeatsAreTold
<1>1. RunsInv => RepeatsAreTold
  <2> SUFFICES ASSUME RunsInv, NEW r \in Req, answer[r].status = 409
               PROVE  \E row \in feedback, s \in Req \ {r} :
                        /\ row.signature = made[s].signature
                        /\ row.author = Author(made[r].feedback)
                        /\ row.owner = made[r].feedback.deployer
                        /\ row.dseq = made[r].feedback.dseq
    BY DEF RepeatsAreTold
  <2>1. reqPc[r] = "answered"
    BY DEF RunsInv, RefusedInv, Refused, Status
  <2>2. body[r] = made[r]
    BY <2>1 DEF RunsInv, AskedInv, RunAsked
  <2>3. PICK row \in feedback :
          /\ row.author = Author(made[r].feedback)
          /\ row.owner = made[r].feedback.deployer
          /\ row.dseq = made[r].feedback.dseq
    BY <2>1, <2>2 DEF RunsInv, AnswersInv, AnswersTruthful, Sent
  <2>4. PICK s \in Req : StoredFor(row, s)
    BY DEF RunsInv, RowsAsked
  <2>5. s # r /\ row.signature = made[s].signature
    BY <2>4 DEF StoredFor
  <2> QED
    BY <2>3, <2>5
<1> QED
  BY <1>1, RunsInvHolds, PTL
=============================================================================
