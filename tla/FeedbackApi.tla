----------------------------- MODULE FeedbackApi -----------------------------
(***************************************************************************)
(* internal/api: the handler of POST /feedback.  Every request runs in a   *)
(* goroutine of its own; between two of its steps, each a database call or *)
(* a query of the chain, other requests, the poller and the chain move.    *)
(* A client that retries sends the same envelope in another request.       *)
(***************************************************************************)
EXTENDS Chain, LeaseTable, FeedbackTable, Faults

CONSTANTS
  Req,         \* requests, each sent at most once
  Envelope,    \* the bodies that requests may carry
  NotJSON,     \* a body that does not decode
  NotBase64    \* a pubkey or a signature that does not decode

ASSUME FeedbackApiAssumption ==
  Envelope \subseteq
    {NotJSON} \cup [feedback: Feedback, pubkey: Base64(Key) \cup {NotBase64},
                    signature: Base64(Signature) \cup {NotBase64}]

ASSUME SentinelAssumption == 
  NotBase64 \notin Base64(Key) \cup Base64(Signature)

VARIABLES
  reqPc,   \* the call a request is at
  body,    \* what it was sent with
  answer   \* the response once it is "answered"

apiVars == <<reqPc, body, answer>>

\* "lost": the process died under the request and there is no answer.
ReqPc == {"unsent", "lookup", "live", "cache", "insert", "answered", "lost"}

Status == {201, 400, 401, 409, 422, 500}
NoAnswer == [status |-> 0, id |-> 0]

ApiTypeOK ==
  /\ reqPc \in [Req -> ReqPc]
  /\ body \in [Req -> Envelope \cup {NotJSON}]
  /\ answer \in [Req -> [status: Status \cup {0}, id: Nat]]

ApiInit ==
  /\ reqPc = [q \in Req |-> "unsent"]
  /\ body = [q \in Req |-> NotJSON]
  /\ answer = [q \in Req |-> NoAnswer]

Sent(q) == body[q].feedback

Goto(q, pc) == reqPc' = [reqPc EXCEPT ![q] = pc] /\ UNCHANGED <<body, answer>>

Answer(q, status, id) ==
  /\ reqPc' = [reqPc EXCEPT ![q] = "answered"]
  /\ answer' = [answer EXCEPT ![q] = [status |-> status, id |-> id]]

-----------------------------------------------------------------------------
\* Decoding and the checks that read no shared state.

MaxCommentBytes == 1000

WellFormed(env) ==
  /\ env # NotJSON
  /\ Validate(env.feedback)
  /\ env.feedback.comment.bytes <= MaxCommentBytes
  /\ Readable(env.feedback.issued_at)
  /\ env.pubkey # NotBase64 /\ env.signature # NotBase64

\* Variant: the address is compared and the signature is not checked.
Attributed_unsigned(env) ==
  AddressFromPubKey[env.pubkey.bytes] = Author(env.feedback)

Attributed(env) ==
  Verify(env.feedback, env.pubkey.bytes, env.signature.bytes)

Receive(q, env) ==
  /\ reqPc[q] = "unsent"
  /\ body' = [body EXCEPT ![q] = env]
  /\ \/ ~WellFormed(env) /\ Answer(q, 400, 0)
     \/ WellFormed(env) /\ ~Attributed(env) /\ Answer(q, 401, 0)
     \/ /\ WellFormed(env) /\ Attributed(env)
        /\ reqPc' = [reqPc EXCEPT ![q] = "lookup"] /\ UNCHANGED answer
  /\ UNCHANGED <<chain, leases, feedback, nextId, faults>>

-----------------------------------------------------------------------------
\* The lease check: the cache, and on a miss the chain.

LeaseOf(f) ==
  [owner |-> f.deployer, dseq |-> f.dseq, goseq |-> f.goseq,
   provider |-> f.provider]

\* Variant: a miss in the cache is final.
LookupLease_noFallback(q) ==
  /\ reqPc[q] = "lookup"
  /\ IF LeaseExists(LeaseOf(Sent(q)))
     THEN Goto(q, "insert")
     ELSE Answer(q, 422, 0) /\ UNCHANGED body
  /\ UNCHANGED <<chain, leases, feedback, nextId, faults>>

LookupLease(q) ==
  /\ reqPc[q] = "lookup"
  /\ Goto(q, IF LeaseExists(LeaseOf(Sent(q))) THEN "insert" ELSE "live")
  /\ UNCHANGED <<chain, leases, feedback, nextId, faults>>

\* Variant: an error of the lookup passes for a hit.
LookupFails_asHit(q) ==
  /\ reqPc[q] = "lookup" /\ Fault
  /\ Goto(q, "insert")
  /\ UNCHANGED <<chain, leases, feedback, nextId>>

LookupFails(q) ==
  /\ reqPc[q] = "lookup" /\ Fault
  /\ Answer(q, 500, 0)
  /\ UNCHANGED <<body, chain, leases, feedback, nextId>>

\* The query names the provider of this instance, not the one of the message.
VerifyLeaseLive(f) == SingleLease(f.deployer, f.dseq, f.goseq) # {}

VerifyLive(q) ==
  /\ reqPc[q] = "live"
  /\ \/ VerifyLeaseLive(Sent(q)) /\ Goto(q, "cache")
     \/ ~VerifyLeaseLive(Sent(q)) /\ Answer(q, 422, 0) /\ UNCHANGED body
  /\ UNCHANGED <<chain, leases, feedback, nextId, faults>>

\* The error of the query is logged, and the answer is that of no lease.
VerifyLiveFails(q) ==
  /\ reqPc[q] = "live" /\ Fault
  /\ Answer(q, 422, 0)
  /\ UNCHANGED <<body, chain, leases, feedback, nextId>>

\* Variants: the row has no state, or one that only the chain can give.
CacheLease_noState(q) ==
  /\ reqPc[q] = "cache"
  /\ UpsertLease(LeaseOf(Sent(q)), "")
  /\ Goto(q, "insert")
  /\ UNCHANGED <<chain, feedback, nextId, faults>>

CacheLease_active(q) ==
  /\ reqPc[q] = "cache"
  /\ UpsertLease(LeaseOf(Sent(q)), "active")
  /\ Goto(q, "insert")
  /\ UNCHANGED <<chain, feedback, nextId, faults>>

CacheLease(q) ==
  /\ reqPc[q] = "cache"
  /\ UpsertLease(LeaseOf(Sent(q)), "verified")
  /\ Goto(q, "insert")
  /\ UNCHANGED <<chain, feedback, nextId, faults>>

\* The error of the upsert is discarded.
CacheLeaseFails(q) ==
  /\ reqPc[q] = "cache" /\ Fault
  /\ Goto(q, "insert")
  /\ UNCHANGED <<chain, leases, feedback, nextId>>

-----------------------------------------------------------------------------
\* The insert.

Record(q) ==
  LET f == Sent(q)
  IN  [id |-> nextId, role |-> f.role, author |-> Author(f),
       subject |-> Subject(f), provider |-> f.provider, owner |-> f.deployer,
       dseq |-> f.dseq, goseq |-> f.goseq, score |-> f.score,
       comment |-> f.comment, issued_at |-> f.issued_at.value,
       pubkey |-> body[q].pubkey, signature |-> body[q].signature]

StoreRating(q) ==
  /\ reqPc[q] = "insert"
  /\ InsertFeedback(Record(q))
  /\ IF IsDuplicate(Record(q)) THEN Answer(q, 409, 0) ELSE Answer(q, 201, nextId)
  /\ UNCHANGED <<body, chain, leases, faults>>

\* The call returns another error; the row may have been committed or not.
StoreRatingFails(q) ==
  /\ reqPc[q] = "insert" /\ Fault
  /\ InsertFeedback(Record(q)) \/ UNCHANGED <<feedback, nextId>>
  /\ Answer(q, 500, 0)
  /\ UNCHANGED <<body, chain, leases>>

-----------------------------------------------------------------------------
\* A step of a request that the server has begun to handle.
HandlerStep(q) ==
  LookupLease(q) \/ VerifyLive(q) \/ CacheLease(q) \/ StoreRating(q)

HandlerFails(q) ==
  \/ LookupFails(q) \/ VerifyLiveFails(q) \/ CacheLeaseFails(q)
  \/ StoreRatingFails(q)

ApiNext ==
  \E q \in Req :
    (\E env \in Envelope : Receive(q, env)) \/ HandlerStep(q) \/ HandlerFails(q)
=============================================================================
