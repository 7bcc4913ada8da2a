---------------------------- MODULE FeedbackTable ----------------------------
(***************************************************************************)
(* internal/store, table feedback: ratings are inserted under a fresh id,  *)
(* at most one per (author_addr, owner, dseq), and never changed.  The     *)
(* column issued_at holds an instant, not the text that was signed.        *)
(***************************************************************************)
EXTENDS Adr036, FiniteSetsExt

VARIABLES
  feedback,   \* the rows
  nextId      \* the sequence behind the BIGSERIAL column id

FeedbackRow ==
  [id: Nat \ {0}, role: {RoleProvider, RoleDeployer},
   author: Address, subject: Address, provider: Address, owner: Address,
   dseq: Text(DSeq), goseq: GOSeq, score: {1, -1}, comment: Comment,
   issued_at: Instant,
   pubkey: Base64(Key), signature: Base64(Signature)]

FeedbackTableTypeOK ==
  /\ feedback \subseteq FeedbackRow
  /\ nextId \in Nat \ {0}

FeedbackTableInit == feedback = {} /\ nextId = 1

\* Variant: one rating for each lease of a deployment.
SameIndexKey_perLease(r, s) ==
  /\ r.author = s.author /\ r.owner = s.owner /\ r.dseq = s.dseq
  /\ r.goseq = s.goseq

\* Variant: one rating for each deployment, whoever rates first.
SameIndexKey_anyAuthor(r, s) == r.owner = s.owner /\ r.dseq = s.dseq

\* The unique index feedback_author_deployment_uniq, over the stored texts.
SameIndexKey(r, s) ==
  r.author = s.author /\ r.owner = s.owner /\ r.dseq = s.dseq

\* Variant: one rating for each pair of parties.
IsDuplicate_perParty(rec) ==
  \E r \in feedback : r.author = rec.author /\ r.owner = rec.owner

IsDuplicate(rec) == \E r \in feedback : SameIndexKey(r, rec)

\* INSERT .. RETURNING id.  A conflict, found after the id was drawn from the
\* sequence, uses the id up.
InsertFeedback(rec) ==
  /\ nextId' = nextId + 1
  /\ IF IsDuplicate(rec)
     THEN UNCHANGED feedback
     ELSE feedback' = feedback \cup {rec}

-----------------------------------------------------------------------------
\* What the service answers from the table.

\* Variant: the ratings that the address gave.
About_given(rows, addr) == {r \in rows : r.author = addr}

About(rows, addr) == {r \in rows : r.subject = addr}

ReputationIn(rows, addr) ==
  LET about == About(rows, addr)
  IN  [positive |-> Cardinality({r \in about : r.score > 0}),
       negative |-> Cardinality({r \in about : r.score < 0}),
       net |-> MapThenSumSet(LAMBDA r : r.score, about),
       deployments_rated |-> Cardinality({<<r.owner, r.dseq>> : r \in about})]

Reputation(addr) == ReputationIn(feedback, addr)

\* A row as GET /feedback lists it: the instant is written out anew.
Listed(r) == [r EXCEPT !.issued_at = Canonical(r.issued_at)]
=============================================================================
