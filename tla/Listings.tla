------------------------------- MODULE Listings -------------------------------
(***************************************************************************)
(* GET /feedback and GET /reputation/{address} of internal/api with the    *)
(* queries of internal/store behind them.  Each reads the ratings in one   *)
(* statement and changes nothing.  A filter that is not given is "" and    *)
(* lets everything through, and the listing stops at ListLimit rows, the   *)
(* newest ones.                                                            *)
(***************************************************************************)
EXTENDS FeedbackTable

CONSTANTS
  ListLimit,   \* LIMIT 500
  Failed       \* the answer of a request that failed

\* No address is the empty text, and a failure is not an empty list.
ASSUME ListingsAssumption ==
  ListLimit \in Nat /\ "" \notin Address \cup {BadAddress} /\ Failed # {}

Passes(filter, value) == filter \in {"", value}

\* Variant: one filter is enough.
FeedbackMatches_any(r, subject, author, role) ==
  \/ Passes(subject, r.subject) \/ Passes(author, r.author)
  \/ Passes(role, r.role)

FeedbackMatches(r, subject, author, role) ==
  /\ Passes(subject, r.subject) /\ Passes(author, r.author)
  /\ Passes(role, r.role)

\* Ratings are stored in the order of their ids.
Newest(rows) ==
  {r \in rows : Cardinality({s \in rows : s.id > r.id}) < ListLimit}

ListFeedback(subject, author, role) ==
  {Listed(r) :
     r \in Newest({s \in feedback : FeedbackMatches(s, subject, author, role)})}

\* GET /reputation/{address}: the aggregate carries the address it is about.
HandleReputation(addr) ==
  IF DecodesAsAddress(addr)
  THEN [address |-> addr, sums |-> Reputation(addr)] ELSE Failed
=============================================================================
