---------------------------- MODULE ReputationView ----------------------------
(***************************************************************************)
(* web/src/pages/Lookup.tsx and components/ReputationView.tsx: the page    *)
(* that shows the reputation of an address.  Each address looked up runs   *)
(* an effect that asks for the aggregate and for the ratings in two        *)
(* requests, shows both when both are there, and then checks the           *)
(* signatures one by one.  A later lookup cancels the effect, whose        *)
(* answers arrive all the same.  Meanwhile others rate.                    *)
(***************************************************************************)
EXTENDS Listings, Faults, Sequences

CONSTANTS
  MaxLookups,   \* bound: how many addresses the reader looks up
  Offered,      \* the ratings that others may store meanwhile
  None          \* no address, no answer yet, nothing to show

ASSUME ReputationViewAssumption == MaxLookups \in Nat /\ Offered \subseteq FeedbackRow

VARIABLES
  address,    \* the address looked up
  page,       \* the state of the component
  effects     \* the effects in the order they began

pageVars == <<address, page, effects>>
tableVars == <<feedback, nextId>>
vars == <<tableVars, pageVars, faults>>

\* steady is auxiliary: no rating of the address was stored while it loaded.
Blank == [rep |-> None, recs |-> {}, verified |-> {}, err |-> FALSE,
          steady |-> FALSE]

Effect(a) ==
  [address |-> a, cancelled |-> FALSE, rep |-> None, recs |-> None,
   at |-> "loading", before |-> About(feedback, a)]

\* What is left of an effect that will do nothing more.
Over(effect) ==
  [effect EXCEPT !.at = "over", !.rep = None, !.recs = None, !.before = {}]

Looked == Address \cup {BadAddress}

Sums == [positive: Nat, negative: Nat, net: Int, deployments_rated: Nat]

TypeOK ==
  /\ FeedbackTableTypeOK /\ FaultsTypeOK
  /\ address \in Looked \cup {None}
  /\ page.rep \in [address: Address, sums: Sums] \cup {None}
  /\ page.recs # Failed /\ page.recs \subseteq {Listed(r) : r \in feedback}
  /\ page.verified \subseteq (1..nextId) \X BOOLEAN
  /\ page.err \in BOOLEAN
  /\ \A e \in DOMAIN effects :
       effects[e].at \in {"loading", "verifying", "over"}

Init ==
  /\ FeedbackTableInit /\ FaultsInit
  /\ address = None /\ page = Blank /\ effects = << >>

\* Another user's rating is stored.
Rated ==
  /\ \E r \in Offered : InsertFeedback([r EXCEPT !.id = nextId])
  /\ feedback' # feedback
  /\ UNCHANGED <<pageVars, faults>>

\* The form is submitted with an address, or with none.  The effects that this
\* starts and cancels run before the browser goes on.
LookUp(a) ==
  /\ Len(effects) < MaxLookups /\ a # address
  /\ address' = a /\ page' = Blank
  /\ effects' =
       LET over == [e \in DOMAIN effects |->
                      [effects[e] EXCEPT !.cancelled = TRUE]]
       IN  IF a = None THEN over ELSE Append(over, Effect(a))
  /\ UNCHANGED <<tableVars, faults>>

\* The two requests, answered in either order; a bad address has no reputation
\* and an empty list.
Step(e, effect) ==
  effects' = [effects EXCEPT ![e] = effect] /\ UNCHANGED <<address, tableVars>>

AnswerReputation(e) ==
  /\ effects[e].at = "loading" /\ effects[e].rep = None
  /\ \/ UNCHANGED faults
        /\ Step(e, [effects[e] EXCEPT !.rep =
                      HandleReputation(effects[e].address)])
     \/ Fault /\ Step(e, [effects[e] EXCEPT !.rep = Failed])
  /\ UNCHANGED page

AnswerRatings(e) ==
  /\ effects[e].at = "loading" /\ effects[e].recs = None
  /\ \/ UNCHANGED faults
        /\ Step(e, [effects[e] EXCEPT !.recs =
                      ListFeedback(effects[e].address, "", "")])
     \/ Fault /\ Step(e, [effects[e] EXCEPT !.recs = Failed])
  /\ UNCHANGED page

\* Variant: the status of an answer is not looked at.
BothThere_anyStatus(e) == effects[e].rep # None /\ effects[e].recs # None

BothThere(e) ==
  effects[e].rep \notin {None, Failed} /\ effects[e].recs \notin {None, Failed}

\* Variant: what a cancelled effect loaded is shown as well.
Loaded_always(e) ==
  /\ effects[e].at = "loading" /\ BothThere(e)
  /\ Step(e, [effects[e] EXCEPT !.at = "verifying"])
  /\ page' = [page EXCEPT !.rep = effects[e].rep, !.recs = effects[e].recs,
                !.steady = effects[e].before = About(feedback, effects[e].address)]
  /\ UNCHANGED faults

Loaded(e) ==
  /\ effects[e].at = "loading" /\ BothThere(e)
  /\ IF effects[e].cancelled
     THEN Step(e, Over(effects[e])) /\ UNCHANGED page
     ELSE /\ Step(e, [effects[e] EXCEPT !.at = "verifying"])
          /\ page' = [page EXCEPT !.rep = effects[e].rep, !.recs = effects[e].recs,
                !.steady = effects[e].before = About(feedback, effects[e].address)]
  /\ UNCHANGED faults

\* The first of the two to fail is enough.
LoadFails(e) ==
  /\ effects[e].at = "loading" /\ Failed \in {effects[e].rep, effects[e].recs}
  /\ Step(e, Over(effects[e]))
  /\ page' = [page EXCEPT !.err = @ \/ ~effects[e].cancelled]
  /\ UNCHANGED faults

Judged(recs) == {<<r.id, VerifyRecord(r)>> : r \in recs}

\* Variant: the badges of a cancelled effect replace those on the page.
Verified_always(e) ==
  /\ effects[e].at = "verifying"
  /\ Step(e, Over(effects[e]))
  /\ page' = [page EXCEPT !.verified = Judged(effects[e].recs)]
  /\ UNCHANGED faults

Verified(e) ==
  /\ effects[e].at = "verifying"
  /\ Step(e, Over(effects[e]))
  /\ page' = IF effects[e].cancelled THEN page
             ELSE [page EXCEPT !.verified = Judged(effects[e].recs)]
  /\ UNCHANGED faults

EffectStep(e) ==
  AnswerReputation(e) \/ AnswerRatings(e) \/ Loaded(e) \/ LoadFails(e)
  \/ Verified(e)

Next ==
  \/ Rated \/ (\E a \in Looked \cup {None} : LookUp(a))
  \/ (\E e \in DOMAIN effects : EffectStep(e))

Spec ==
  /\ Init /\ [][Next]_vars
  /\ \A e \in 1..MaxLookups :
       WF_vars(e \in DOMAIN effects /\ EffectStep(e))

-----------------------------------------------------------------------------
\* Properties.

View ==
  INSTANCE AddressedView WITH
    Shown <- Looked, chosen <- address,
    about <- {r.subject : r \in page.recs}
             \cup (IF page.rep = None THEN {} ELSE {page.rep.address})

\* Whatever the order in which answers to one lookup and the next arrive, the
\* page shows numbers and ratings of the address it shows, and none of them
\* remain when another is looked up (ReputationView.tsx:23-46).
ShowsWhatWasLookedUp == View!Spec

Up(recs) == Cardinality({r \in recs : r.score > 0})
Down(recs) == Cardinality({r \in recs : r.score < 0})

\* The numbers above the ratings and the ratings agree, unless a rating of the
\* address was stored while the two requests ran, or the list is full: the two
\* queries count the same rows (internal/store/store.go:185-209).
NumbersAgreeWithRatings ==
  page.rep # None /\ page.steady =>
    \/ Cardinality(page.recs) = ListLimit
    \/ /\ Up(page.recs) = page.rep.sums.positive
       /\ Down(page.recs) = page.rep.sums.negative
       /\ Up(page.recs) - Down(page.recs) = page.rep.sums.net

\* A badge is given for the rating it stands at: the account named there as its
\* author signed the score and the deployment shown there (web/src/adr036.ts:
\* 90-106), also for a row that was edited in the database
\* (docs/USAGE.md:252-254).
BadgesAreEarned ==
  \A r \in page.recs : <<r.id, TRUE>> \in page.verified =>
    LET sig == r.signature.bytes
        f == sig.doc.data
    IN  /\ AddressFromPubKey[sig.key] = r.author /\ sig.doc.signer = r.author
        /\ f.score = r.score /\ f.deployer = r.owner /\ f.dseq = r.dseq

\* In the end every rating on the page has its badge, or the page shows an
\* error, unless nothing is looked up: no cancelled effect leaves a badge at
\* "verifying" for good.
EveryRatingJudged ==
  <>[](\/ address = None \/ page.err
       \/ (page.rep # None /\ page.verified = Judged(page.recs)))

\* docs/USAGE.md:251-252: "you'll see the aggregate score and every rating".
EveryRatingIsShown ==
  page.rep # None /\ page.steady =>
    Cardinality(page.recs) = page.rep.sums.positive + page.rep.sums.negative
=============================================================================
