------------------------- MODULE RatingLedgerProofs -------------------------
(***************************************************************************)
(* The accounts of the ledger always say what has been rated.              *)
(***************************************************************************)
EXTENDS RatingLedger, FiniteSetTheorems, TLAPS

\* A rating credits counts to an account of counts.
LEMMA LedgerStepKeepsTypes == TypeOK /\ [Next]_vars => TypeOK'
<1> SUFFICES ASSUME TypeOK, [Next]_vars PROVE TypeOK'
  OBVIOUS
<1>1. CASE \E d \in Deployment : Lease(d)
  BY <1>1 DEF TypeOK, Lease
<1>2. CASE \E d \in Deployment, author, subject \in Party, score \in {1, -1} :
             Rate(d, author, subject, score)
  <2>1. PICK d \in Deployment, author \in Party, subject \in Party,
             score \in {1, -1} : Rate(d, author, subject, score)
    BY <1>2
  <2>2. rated' \subseteq [author: Party, deployment: Deployment]
    BY <2>1 DEF TypeOK, Rate
  <2>3. Credited(account[subject], score) \in
          [positive: Nat, negative: Nat, net: Int, deployments_rated: Nat]
    BY DEF TypeOK, Credited
  <2> QED
    BY <2>1, <2>2, <2>3 DEF TypeOK, Rate
<1>3. CASE UNCHANGED vars
  BY <1>3 DEF TypeOK, vars
<1> QED
  BY <1>1, <1>2, <1>3 DEF Next

\* A party's account never holds anything but counts.
THEOREM LedgerTypeCorrect == Spec => []TypeOK
<1>1. Init => TypeOK
  BY DEF Init, TypeOK, NoRatings
<1> QED
  BY <1>1, LedgerStepKeepsTypes, PTL DEF Spec

-----------------------------------------------------------------------------
\* The deployment of a rating is a new one for the party it is about, because
\* that party and the deployment determine the author, who rates it only once.

\* So a rating is of a deployment that its subject has not been rated of.
LEMMA RateIsOfAnother ==
  ASSUME TypeOK, Balanced,
         NEW d \in Deployment, NEW author \in Party, NEW subject \in Party,
         NEW score \in {1, -1}, Rate(d, author, subject, score)
  PROVE  /\ d \notin RatedOf(subject)
         /\ SubjectOf([author |-> author, deployment |-> d]) = subject
<1>1. <<author, subject>> \in {<<d.owner, Operator>>, <<Operator, d.owner>>}
  BY DEF Rate
<1>2. SubjectOf([author |-> author, deployment |-> d]) = subject
  BY <1>1 DEF SubjectOf
<1>3. ASSUME NEW r \in rated, r.deployment = d, SubjectOf(r) = subject
      PROVE  FALSE
  <2>1. r.author \in {Operator, d.owner}
    BY <1>3 DEF Balanced
  <2>2. r.author = author
    BY <1>1, <1>3, <2>1 DEF SubjectOf
  <2>3. r = [author |-> author, deployment |-> d]
    BY <1>3, <2>2 DEF TypeOK
  <2> QED
    BY <2>3 DEF Rate
<1> QED
  BY <1>2, <1>3 DEF RatedOf

\* The strengthening: a party has been rated of finitely many deployments.
LedgerInv == Balanced /\ \A p \in Party : IsFiniteSet(RatedOf(p))

\* What one more rating adds to the deployments rated of a party.
LEMMA RatedOfAfter ==
  ASSUME NEW r, rated' = rated \cup {r}, NEW p
  PROVE  RatedOf(p)' = IF SubjectOf(r) = p THEN RatedOf(p) \cup {r.deployment}
                                           ELSE RatedOf(p)
<1>1. RatedOf(p)' = {x.deployment : x \in {s \in rated' : SubjectOf(s) = p}}
  BY DEF RatedOf, SubjectOf
<1>2. CASE SubjectOf(r) = p
  <2>1. {s \in rated' : SubjectOf(s) = p} =
          {s \in rated : SubjectOf(s) = p} \cup {r}
    BY <1>2
  <2> QED
    BY <1>1, <1>2, <2>1 DEF RatedOf
<1>3. CASE SubjectOf(r) # p
  <2>1. {s \in rated' : SubjectOf(s) = p} = {s \in rated : SubjectOf(s) = p}
    BY <1>3
  <2> QED
    BY <1>1, <1>3, <2>1 DEF RatedOf
<1> QED
  BY <1>2, <1>3

\* A rating adds one deployment and one to the counts of its subject only.
LEMMA RateKeepsBalance ==
  ASSUME TypeOK, LedgerInv,
         NEW d \in Deployment, NEW author \in Party, NEW subject \in Party,
         NEW score \in {1, -1}, Rate(d, author, subject, score)
  PROVE  LedgerInv'
<1> DEFINE r == [author |-> author, deployment |-> d]
<1>1. d \notin RatedOf(subject) /\ SubjectOf(r) = subject
  BY RateIsOfAnother DEF LedgerInv
<1>2. rated' = rated \cup {r}
  BY DEF Rate
<1>3. ASSUME NEW x \in rated'
      PROVE  x.deployment \in leased' /\ x.author \in {Operator, x.deployment.owner}
  BY <1>2, <1>3 DEF Rate, LedgerInv, Balanced
<1>4. ASSUME NEW p \in Party
      PROVE  /\ account'[p].net = account'[p].positive - account'[p].negative
             /\ account'[p].deployments_rated =
                  account'[p].positive + account'[p].negative
             /\ account'[p].deployments_rated = Cardinality(RatedOf(p)')
             /\ IsFiniteSet(RatedOf(p)')
  <2>1. CASE p = subject
    <3>1. account'[p] = Credited(account[p], score)
      BY <2>1 DEF Rate, TypeOK
    <3>2. RatedOf(p)' = RatedOf(p) \cup {d}
      BY <1>1, <1>2, <2>1, RatedOfAfter
    <3>3. /\ IsFiniteSet(RatedOf(p)')
          /\ Cardinality(RatedOf(p)') = Cardinality(RatedOf(p)) + 1
      <4>1. IsFiniteSet(RatedOf(p)) /\ d \notin RatedOf(p)
        BY <1>1, <2>1 DEF LedgerInv
      <4>2. /\ IsFiniteSet(RatedOf(p) \cup {d})
            /\ Cardinality(RatedOf(p) \cup {d}) = Cardinality(RatedOf(p)) + 1
        BY <4>1, FS_AddElement
      <4> QED
        BY <3>2, <4>2
    <3>4. /\ account[p].net = account[p].positive - account[p].negative
          /\ account[p].deployments_rated =
               account[p].positive + account[p].negative
          /\ account[p].deployments_rated = Cardinality(RatedOf(p))
          /\ account[p].positive \in Nat /\ account[p].negative \in Nat
      BY DEF LedgerInv, Balanced, TypeOK
    <3>5. CASE score = 1
      BY <3>1, <3>3, <3>4, <3>5 DEF Credited
    <3>6. CASE score = -1
      BY <3>1, <3>3, <3>4, <3>6 DEF Credited
    <3> QED
      BY <3>5, <3>6
  <2>2. CASE p # subject
    <3>1. account'[p] = account[p]
      BY <2>2 DEF Rate, TypeOK
    <3>2. RatedOf(p)' = RatedOf(p)
      BY <1>1, <1>2, <2>2, RatedOfAfter
    <3> QED
      BY <3>1, <3>2 DEF LedgerInv, Balanced
  <2> QED
    BY <2>1, <2>2
<1> QED
  BY <1>3, <1>4 DEF LedgerInv, Balanced

\* What GET /reputation says of a party on the ledger is exactly what has been
\* rated of it, with every deployment counted once.
THEOREM LedgerBalanced == Spec => []Balanced
<1>1. Init => LedgerInv
  <2> SUFFICES ASSUME Init PROVE LedgerInv
    OBVIOUS
  <2>1. ASSUME NEW p \in Party
        PROVE  IsFiniteSet(RatedOf(p)) /\ Cardinality(RatedOf(p)) = 0
    BY FS_EmptySet DEF Init, RatedOf
  <2> QED
    BY <2>1 DEF Init, LedgerInv, Balanced, NoRatings
<1>2. TypeOK /\ LedgerInv /\ [Next]_vars => LedgerInv'
  <2> SUFFICES ASSUME TypeOK, LedgerInv, [Next]_vars PROVE LedgerInv'
    OBVIOUS
  <2>1. CASE \E d \in Deployment : Lease(d)
    BY <2>1 DEF Lease, LedgerInv, Balanced, RatedOf, SubjectOf
  <2>2. CASE UNCHANGED vars
    BY <2>2 DEF vars, LedgerInv, Balanced, RatedOf, SubjectOf
  <2> QED
    BY <2>1, <2>2, RateKeepsBalance DEF Next
<1>3. LedgerInv => Balanced
  BY DEF LedgerInv
<1> QED
  BY <1>1, <1>2, <1>3, LedgerTypeCorrect, PTL DEF Spec
=============================================================================
