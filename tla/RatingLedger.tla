---------------------------- MODULE RatingLedger ----------------------------
(***************************************************************************)
(* What the service promises, without how it keeps the promise: a ledger   *)
(* on which the two parties of a leased deployment each rate the other at  *)
(* most once.  The reputation of a party is a running account, so one      *)
(* rating is one more deployment rated and moves the net score by one.     *)
(***************************************************************************)
EXTENDS Integers, FiniteSets

CONSTANTS
  Party,        \* everyone who may rate or be rated
  Operator,     \* the party that all deployments are leased from
  Deployment    \* [owner, dseq] records

VARIABLES
  leased,    \* deployments that the operator has leased to their owner
  rated,     \* who has rated which deployment
  account    \* the reputation of every party

vars == <<leased, rated, account>>

NoRatings == [positive |-> 0, negative |-> 0, net |-> 0, deployments_rated |-> 0]

TypeOK ==
  /\ leased \subseteq Deployment
  /\ rated \subseteq [author: Party, deployment: Deployment]
  /\ account \in [Party -> [positive: Nat, negative: Nat, net: Int,
                            deployments_rated: Nat]]

Init == leased = {} /\ rated = {} /\ account = [p \in Party |-> NoRatings]

Lease(d) ==
  /\ leased' = leased \cup {d}
  /\ UNCHANGED <<rated, account>>

Credited(a, score) ==
  [positive |-> a.positive + (IF score = 1 THEN 1 ELSE 0),
   negative |-> a.negative + (IF score = -1 THEN 1 ELSE 0),
   net |-> a.net + score,
   deployments_rated |-> a.deployments_rated + 1]

Rate(d, author, subject, score) ==
  /\ d \in leased
  /\ <<author, subject>> \in {<<d.owner, Operator>>, <<Operator, d.owner>>}
  /\ [author |-> author, deployment |-> d] \notin rated
  /\ rated' = rated \cup {[author |-> author, deployment |-> d]}
  /\ account' = [account EXCEPT ![subject] = Credited(@, score)]
  /\ UNCHANGED leased

Next ==
  \E d \in Deployment :
    \/ Lease(d)
    \/ \E author, subject \in Party, score \in {1, -1} :
         Rate(d, author, subject, score)

Spec == Init /\ [][Next]_vars

-----------------------------------------------------------------------------
\* Properties.

\* The party that a rating is about.
SubjectOf(r) ==
  IF r.author = r.deployment.owner THEN Operator ELSE r.deployment.owner

RatedOf(p) == {r.deployment : r \in {s \in rated : SubjectOf(s) = p}}

\* What GET /reputation says of a party is what has been rated of it: "how many
\* distinct deployments these ratings came from" (docs/USAGE.md:81) is the
\* number of its ratings, positive and negative ones, and net is the difference
\* of these two; and nothing is rated that was not leased.
Balanced ==
  /\ \A p \in Party :
       /\ account[p].net = account[p].positive - account[p].negative
       /\ account[p].deployments_rated = account[p].positive + account[p].negative
       /\ account[p].deployments_rated = Cardinality(RatedOf(p))
  /\ \A r \in rated :
       r.deployment \in leased /\ r.author \in {Operator, r.deployment.owner}
=============================================================================
