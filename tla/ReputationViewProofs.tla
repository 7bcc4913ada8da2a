------------------------- MODULE ReputationViewProofs -------------------------
(***************************************************************************)
(* Theorems about the page of an address, for any number of lookups: it    *)
(* implements AddressedView, its badges are earned and its numbers agree   *)
(* with its ratings.  And about the bytes that a badge is given for: the   *)
(* two encoders of a text, for texts of any length.                        *)
(***************************************************************************)
EXTENDS ReputationView, CanonicalText, CountingTheorems, SequenceTheorems, TLAPS

-----------------------------------------------------------------------------
\* The table: ids are not given twice, whatever others store.

RowsInv ==
  /\ feedback \subseteq FeedbackRow /\ nextId \in Nat \ {0}
  /\ \A r \in feedback : r.id < nextId
  /\ \A r, s \in feedback : r.id = s.id => r = s

\* A row as listed is the row but for the date.
LEMMA ListedRow ==
  ASSUME NEW r \in FeedbackRow
  PROVE  Listed(r).id = r.id /\ Listed(r).subject = r.subject
  BY DEF Listed, FeedbackRow

\* A rating is stored under an id that no row has.
LEMMA RatedKeepsRows ==
  ASSUME RowsInv, Rated
  PROVE  RowsInv' /\ feedback \subseteq feedback'
<1>1. PICK r \in Offered : InsertFeedback([r EXCEPT !.id = nextId])
  BY DEF Rated
<1> DEFINE rec == [r EXCEPT !.id = nextId]
<1>2. rec \in FeedbackRow /\ rec.id = nextId
  BY ReputationViewAssumption DEF RowsInv, FeedbackRow
<1>3. nextId' = nextId + 1 /\ feedback' \in {feedback, feedback \cup {rec}}
  BY <1>1 DEF InsertFeedback
<1>4. \A s \in feedback : s.id \in Nat
  BY DEF RowsInv, FeedbackRow
<1>5. nextId' \in Nat \ {0} /\ feedback' \subseteq FeedbackRow
  BY <1>2, <1>3 DEF RowsInv
<1>6. ASSUME NEW s \in feedback' PROVE s.id < nextId'
  <2>1. CASE s \in feedback
    BY <1>3, <1>4, <2>1 DEF RowsInv
  <2>2. CASE s = [r EXCEPT !.id = nextId]
    BY <1>2, <1>3, <2>2 DEF RowsInv
  <2> QED
    BY <1>3, <1>6, <2>1, <2>2
<1>7. ASSUME NEW s \in feedback', NEW t \in feedback', s.id = t.id PROVE s = t
  <2>1. \A u \in feedback : u.id # nextId
    BY <1>4 DEF RowsInv
  <2> HIDE DEF rec
  <2>2. \A u \in feedback' : u \in feedback \/ u = rec
    BY <1>3
  <2> QED
    BY <1>2, <1>7, <2>1, <2>2 DEF RowsInv
<1> QED
  BY <1>3, <1>5, <1>6, <1>7 DEF RowsInv

-----------------------------------------------------------------------------
\* The effects: a sequence of records, of which only the last is not cancelled.

Fields ==
  {"address", "cancelled", "rep", "recs", "at", "before"}

IsSequence == \E S : effects \in Seq(S)

ShapeInv == IsSequence /\ \A e \in DOMAIN effects : DOMAIN effects[e] = Fields

\* What an effect that is still to say something has loaded.
LoadedInv(effect) ==
  /\ effect.rep \notin {None, Failed} => effect.rep.address = effect.address
  /\ effect.recs \notin {None, Failed} =>
       \A r \in effect.recs :
         \E s \in feedback : r = Listed(s) /\ s.subject = effect.address

\* How the page stands to the effect that is not cancelled.
ShownInv(e) ==
  /\ e = Len(effects) /\ effects[e].address = address
  /\ effects[e].at = "loading" => page.verified = {}
  /\ effects[e].at = "verifying" => page.recs = effects[e].recs

PageInv ==
  /\ page.rep # None => page.rep.address = address
  /\ \A r \in page.recs : \E s \in feedback : r = Listed(s) /\ s.subject = address
  /\ page.verified \subseteq Judged(page.recs)

ViewInv ==
  /\ RowsInv /\ ShapeInv /\ PageInv
  /\ DOMAIN page = {"rep", "recs", "verified", "err", "steady"}
  /\ \A e \in DOMAIN effects :
       /\ LoadedInv(effects[e]) /\ effects[e].address \in Looked
       /\ ~effects[e].cancelled => ShownInv(e)

\* Another state of one effect.
LEMMA OneEffect ==
  ASSUME ShapeInv, NEW e \in DOMAIN effects, NEW effect, DOMAIN effect = Fields,
         effects' = [effects EXCEPT ![e] = effect]
  PROVE  /\ ShapeInv' /\ DOMAIN effects' = DOMAIN effects /\ Len(effects') = Len(effects)
         /\ effects'[e] = effect
         /\ \A f \in DOMAIN effects \ {e} : effects'[f] = effects[f]
<1>1. PICK S : effects \in Seq(S)
  BY DEF ShapeInv, IsSequence
<1> DEFINE T == S \cup {effect}
<1>2. effects \in Seq(T) /\ DOMAIN effects = 1..Len(effects)
  BY <1>1
<1>3. effects' \in Seq(T) /\ Len(effects') = Len(effects)
  BY <1>2, ExceptSeq
<1>4. DOMAIN effects' = DOMAIN effects
  BY <1>2, <1>3
<1>5. effects'[e] = effect /\ \A f \in DOMAIN effects \ {e} : effects'[f] = effects[f]
  BY <1>2
<1>6. \A f \in DOMAIN effects' : DOMAIN effects'[f] = Fields
  BY <1>4, <1>5 DEF ShapeInv
<1> QED
  BY <1>3, <1>4, <1>5, <1>6 DEF ShapeInv, IsSequence

\* A step of one effect, with the table as it is.
LEMMA StepKeeps ==
  ASSUME ViewInv, NEW e \in DOMAIN effects, NEW effect, DOMAIN effect = Fields,
         Step(e, effect), effect.address = effects[e].address,
         effect.cancelled = effects[e].cancelled, LoadedInv(effect),
         DOMAIN page' = DOMAIN page, PageInv',
         IF effect.cancelled
         THEN page'.recs = page.recs /\ page'.verified = page.verified
         ELSE /\ effect.at = "loading" => page'.verified = {}
              /\ effect.at = "verifying" => page'.recs = effect.recs
  PROVE  ViewInv'
<1>1. effects' = [effects EXCEPT ![e] = effect]
      /\ UNCHANGED <<address, feedback, nextId>>
  BY DEF Step, tableVars
<1>2. /\ ShapeInv' /\ DOMAIN effects' = DOMAIN effects /\ Len(effects') = Len(effects)
      /\ effects'[e] = effect
      /\ \A f \in DOMAIN effects \ {e} : effects'[f] = effects[f]
  BY <1>1, OneEffect DEF ViewInv
<1>3. RowsInv'
  BY <1>1 DEF ViewInv, RowsInv
<1>4. ASSUME NEW f \in DOMAIN effects'
      PROVE  /\ LoadedInv(effects[f])' /\ effects'[f].address \in Looked
             /\ ~effects'[f].cancelled => ShownInv(f)'
  <2>1. CASE f = e
    BY <1>1, <1>2, <2>1 DEF ViewInv, LoadedInv, ShownInv
  <2>2. CASE f # e
    <3>1. /\ effects'[f] = effects[f] /\ LoadedInv(effects[f])
          /\ effects[f].address \in Looked
          /\ ~effects[f].cancelled => ShownInv(f)
      BY <1>2, <1>4, <2>2 DEF ViewInv
    <3>2. ~effects[f].cancelled => effects[e].cancelled
      BY <2>2, <3>1 DEF ViewInv, ShownInv
    <3> QED
      BY <1>1, <1>2, <3>1, <3>2 DEF LoadedInv, ShownInv
  <2> QED
    BY <2>1, <2>2
<1> QED
  BY <1>2, <1>3, <1>4 DEF ViewInv

\* The answers: an aggregate carries its address, and a listing by subject has
\* rows about it only.
LEMMA ListedAbout ==
  ASSUME NEW a \in Looked, NEW r \in ListFeedback(a, "", "")
  PROVE  \E s \in feedback : r = Listed(s) /\ s.subject = a
  BY ListingsAssumption
     DEF ListFeedback, Newest, FeedbackMatches, Passes, Looked

\* An answer arrives, for an effect that is cancelled or not.
LEMMA AnswersKeep ==
  ASSUME ViewInv, NEW e \in DOMAIN effects, AnswerReputation(e) \/ AnswerRatings(e)
  PROVE  ViewInv'
<1>1. DOMAIN effects[e] = Fields /\ LoadedInv(effects[e])
      /\ effects[e].address \in Looked /\ effects[e].at = "loading"
  BY DEF ViewInv, ShapeInv, AnswerReputation, AnswerRatings
<1>2. page' = page /\ PageInv /\ feedback' = feedback /\ address' = address
  BY DEF ViewInv, AnswerReputation, AnswerRatings, Step, tableVars
<1>3. PageInv'
  BY <1>2 DEF PageInv
<1>4. ~effects[e].cancelled => page.verified = {}
  BY <1>1 DEF ViewInv, ShownInv
<1>5. ASSUME NEW rep, rep = Failed \/ rep = HandleReputation(effects[e].address),
             Step(e, [effects[e] EXCEPT !.rep = rep])
      PROVE  ViewInv'
  <2> DEFINE effect == [effects[e] EXCEPT !.rep = rep]
  <2>1. /\ DOMAIN effect = Fields /\ effect.address = effects[e].address
        /\ effect.cancelled = effects[e].cancelled /\ effect.rep = rep
        /\ effect.recs = effects[e].recs /\ effect.at = "loading"
    BY <1>1 DEF Fields
  <2>2. LoadedInv(effect)
    BY <1>1, <1>5, <2>1 DEF LoadedInv, HandleReputation
  <2> HIDE DEF effect
  <2> QED
    BY <1>2, <1>3, <1>4, <1>5, <2>1, <2>2, StepKeeps DEF effect
<1>6. ASSUME NEW recs, recs = Failed \/ recs = ListFeedback(effects[e].address, "", ""),
             Step(e, [effects[e] EXCEPT !.recs = recs])
      PROVE  ViewInv'
  <2> DEFINE effect == [effects[e] EXCEPT !.recs = recs]
  <2>1. /\ DOMAIN effect = Fields /\ effect.address = effects[e].address
        /\ effect.cancelled = effects[e].cancelled /\ effect.recs = recs
        /\ effect.rep = effects[e].rep /\ effect.at = "loading"
    BY <1>1 DEF Fields
  <2>2. LoadedInv(effect)
    <3>1. effect.rep \notin {None, Failed} => effect.rep.address = effect.address
      BY <1>1, <2>1 DEF LoadedInv
    <3>2. ASSUME effect.recs \notin {None, Failed}, NEW r \in effect.recs
          PROVE  \E s \in feedback : r = Listed(s) /\ s.subject = effect.address
      <4>1. r \in ListFeedback(effects[e].address, "", "")
        BY <1>6, <2>1, <3>2
      <4> QED
        BY <1>1, <2>1, <4>1, ListedAbout
    <3> QED
      BY <3>1, <3>2 DEF LoadedInv
  <2> HIDE DEF effect
  <2> QED
    BY <1>2, <1>3, <1>4, <1>6, <2>1, <2>2, StepKeeps DEF effect
<1> QED
  BY <1>5, <1>6 DEF AnswerReputation, AnswerRatings

\* Both answers are there, or one has failed, or the badges are worked out.
LEMMA ShowingKeeps ==
  ASSUME ViewInv, NEW e \in DOMAIN effects, Loaded(e) \/ LoadFails(e) \/ Verified(e)
  PROVE  ViewInv'
<1>1. DOMAIN effects[e] = Fields /\ LoadedInv(effects[e])
      /\ (~effects[e].cancelled => ShownInv(e))
      /\ DOMAIN page = {"rep", "recs", "verified", "err", "steady"} /\ PageInv
  BY DEF ViewInv, ShapeInv
<1>2. address' = address /\ feedback' = feedback
  BY DEF Loaded, LoadFails, Verified, Step, tableVars
<1> DEFINE over == Over(effects[e])
<1>3. /\ DOMAIN over = Fields /\ over.address = effects[e].address
      /\ over.cancelled = effects[e].cancelled /\ over.at = "over"
      /\ LoadedInv(over)
  BY <1>1 DEF Over, Fields, LoadedInv
<1> HIDE DEF over
<1>4. ASSUME Step(e, over), DOMAIN page' = DOMAIN page, PageInv',
             effects[e].cancelled =>
               page'.recs = page.recs /\ page'.verified = page.verified
      PROVE  ViewInv'
  BY <1>3, <1>4, StepKeeps
<1>5. CASE page' = page
  <2>1. PageInv'
    BY <1>1, <1>2, <1>5 DEF PageInv
  <2>2. CASE Step(e, over)
    BY <1>4, <1>5, <2>1, <2>2
  <2>3. CASE ~Step(e, over)
    <3>1. Loaded(e) /\ ~effects[e].cancelled
      BY <2>3 DEF Loaded, LoadFails, Verified, over
    <3> DEFINE effect == [effects[e] EXCEPT !.at = "verifying"]
    <3>2. /\ DOMAIN effect = Fields /\ effect.address = effects[e].address
          /\ effect.cancelled = effects[e].cancelled /\ effect.at = "verifying"
          /\ effect.rep = effects[e].rep /\ effect.recs = effects[e].recs
      BY <1>1 DEF Fields
    <3>3. LoadedInv(effect)
      BY <1>1, <3>2 DEF LoadedInv
    <3>4. Step(e, effect) /\ page'.recs = effect.recs
      BY <1>1, <3>1, <3>2 DEF Loaded
    <3> HIDE DEF effect
    <3> QED
      BY <1>5, <2>1, <3>1, <3>2, <3>3, <3>4, StepKeeps
  <2> QED
    BY <2>2, <2>3
<1>6. CASE Loaded(e) /\ ~effects[e].cancelled
  <2> DEFINE effect == [effects[e] EXCEPT !.at = "verifying"]
  <2>1. /\ DOMAIN effect = Fields /\ effect.address = effects[e].address
        /\ effect.cancelled = effects[e].cancelled /\ effect.at = "verifying"
        /\ effect.rep = effects[e].rep /\ effect.recs = effects[e].recs
    BY <1>1 DEF Fields
  <2>2. LoadedInv(effect)
    BY <1>1, <2>1 DEF LoadedInv
  <2>3. /\ Step(e, effect) /\ BothThere(e)
        /\ DOMAIN page' = DOMAIN page /\ page'.verified = page.verified
        /\ page'.rep = effect.rep /\ page'.recs = effect.recs
    BY <1>1, <1>6, <2>1 DEF Loaded
  <2>4. page.verified = {} /\ effects[e].address = address
    BY <1>1, <1>6 DEF Loaded, ShownInv
  <2>5. PageInv'
    <3>1. page'.rep # None => page'.rep.address = address'
      BY <1>1, <1>2, <2>1, <2>3, <2>4 DEF BothThere, LoadedInv
    <3>2. \A r \in page'.recs :
            \E s \in feedback' : r = Listed(s) /\ s.subject = address'
      BY <1>1, <1>2, <2>1, <2>3, <2>4 DEF BothThere, LoadedInv
    <3> QED
      BY <2>3, <2>4, <3>1, <3>2 DEF PageInv
  <2> HIDE DEF effect
  <2> QED
    BY <1>6, <2>1, <2>2, <2>3, <2>5, StepKeeps
<1>7. CASE LoadFails(e) /\ page' # page
  <2>1. /\ page'.rep = page.rep /\ page'.recs = page.recs
        /\ page'.verified = page.verified /\ DOMAIN page' = DOMAIN page
        /\ Step(e, over)
    BY <1>1, <1>7 DEF LoadFails, over
  <2>2. PageInv'
    BY <1>1, <1>2, <2>1 DEF PageInv
  <2> QED
    BY <1>4, <2>1, <2>2
<1>8. CASE Verified(e) /\ page' # page
  <2>1. /\ page'.rep = page.rep /\ page'.recs = page.recs
        /\ page'.verified = Judged(effects[e].recs) /\ DOMAIN page' = DOMAIN page
        /\ Step(e, over) /\ ~effects[e].cancelled
    BY <1>1, <1>8 DEF Verified, over
  <2>2. page.recs = effects[e].recs
    BY <1>1, <1>8, <2>1 DEF Verified, ShownInv
  <2>3. PageInv'
    BY <1>1, <1>2, <2>1, <2>2 DEF PageInv
  <2> QED
    BY <1>4, <2>1, <2>3
<1> QED
  BY <1>5, <1>6, <1>7, <1>8 DEF Loaded

\* A lookup cancels the effects there are and begins one with an empty page.
LEMMA LookUpKeeps ==
  ASSUME ViewInv, NEW a \in Looked \cup {None}, LookUp(a)
  PROVE  ViewInv'
<1> DEFINE over == [e \in DOMAIN effects |-> [effects[e] EXCEPT !.cancelled = TRUE]]
<1>1. PICK S : effects \in Seq(S)
  BY DEF ViewInv, ShapeInv, IsSequence
<1>2. Len(effects) \in Nat /\ DOMAIN effects = 1..Len(effects)
  BY <1>1
<1>3. \A e \in DOMAIN effects :
        /\ DOMAIN over[e] = Fields /\ over[e].cancelled
        /\ over[e].rep = effects[e].rep /\ over[e].recs = effects[e].recs
        /\ over[e].address = effects[e].address
  BY DEF ViewInv, ShapeInv, Fields
<1> DEFINE T == {over[e] : e \in DOMAIN effects} \cup {Effect(a)}
<1>4. over \in Seq(T) /\ Len(over) = Len(effects) /\ DOMAIN over = DOMAIN effects
  <2>1. over \in [1..Len(effects) -> T]
    BY <1>2
  <2> HIDE DEF over, T
  <2> QED
    BY <1>2, <2>1
<1>5. /\ DOMAIN Effect(a) = Fields /\ Effect(a).address = a
      /\ Effect(a).rep = None /\ Effect(a).recs = None /\ Effect(a).at = "loading"
  BY DEF Effect, Fields
<1>6. /\ page' = Blank /\ address' = a /\ UNCHANGED <<feedback, nextId>>
      /\ effects' = IF a = None THEN over ELSE Append(over, Effect(a))
  BY DEF LookUp, tableVars
<1>7. /\ DOMAIN page' = {"rep", "recs", "verified", "err", "steady"}
      /\ page'.rep = None /\ page'.recs = {} /\ page'.verified = {}
  BY <1>6 DEF Blank
<1>8. RowsInv' /\ PageInv'
  BY <1>6, <1>7 DEF ViewInv, RowsInv, PageInv
<1>9. \A e \in DOMAIN effects : LoadedInv(over[e]) /\ over[e].address \in Looked
  BY <1>3 DEF ViewInv, LoadedInv
<1> HIDE DEF over
<1>10. CASE a = None
  <2>1. effects' = over
    BY <1>6, <1>10
  <2>2. ShapeInv'
    BY <1>3, <1>4, <2>1 DEF ShapeInv, IsSequence
  <2>3. ASSUME NEW e \in DOMAIN effects'
        PROVE  LoadedInv(effects[e])' /\ effects'[e].address \in Looked
               /\ effects'[e].cancelled
    <3>1. effects'[e] = over[e] /\ e \in DOMAIN effects
      BY <1>4, <2>1, <2>3
    <3> QED
      BY <1>3, <1>6, <1>9, <3>1 DEF LoadedInv
  <2> QED
    BY <1>7, <1>8, <2>2, <2>3 DEF ViewInv
<1>11. CASE a # None
  <2>1. effects' = Append(over, Effect(a))
    BY <1>6, <1>11
  <2>2. /\ effects' \in Seq(T) /\ Len(effects') = Len(over) + 1
        /\ effects'[Len(effects')] = Effect(a)
        /\ \A e \in 1..Len(over) : effects'[e] = over[e]
    BY <1>4, <2>1, AppendProperties
  <2>3. DOMAIN effects' = DOMAIN effects \cup {Len(effects')}
    BY <1>2, <1>4, <2>2
  <2>4. ShapeInv'
    <3>1. \A e \in DOMAIN effects' : DOMAIN effects'[e] = Fields
      BY <1>2, <1>3, <1>4, <1>5, <2>2, <2>3
    <3> QED
      BY <2>2, <3>1 DEF ShapeInv, IsSequence
  <2>5. ASSUME NEW e \in DOMAIN effects'
        PROVE  /\ LoadedInv(effects[e])' /\ effects'[e].address \in Looked
               /\ ~effects'[e].cancelled => ShownInv(e)'
    <3>1. CASE e \in DOMAIN effects
      <4>1. effects'[e] = over[e]
        BY <1>2, <1>4, <2>2, <3>1
      <4> QED
        BY <1>3, <1>6, <1>9, <3>1, <4>1 DEF LoadedInv
    <3>2. CASE e = Len(effects')
      BY <1>5, <1>6, <1>7, <1>11, <2>2, <3>2 DEF LoadedInv, ShownInv
    <3> QED
      BY <2>3, <3>1, <3>2
  <2> QED
    BY <1>7, <1>8, <2>4, <2>5 DEF ViewInv
<1> QED
  BY <1>10, <1>11

\* A rating that is stored takes no row away.
LEMMA RatedKeeps ==
  ASSUME ViewInv, Rated
  PROVE  ViewInv'
<1>1. RowsInv' /\ feedback \subseteq feedback'
  BY RatedKeepsRows DEF ViewInv
<1>2. UNCHANGED <<address, page, effects>>
  BY DEF Rated, pageVars
<1>3. PageInv'
  BY <1>1, <1>2 DEF ViewInv, PageInv
<1>4. \A e \in DOMAIN effects : LoadedInv(effects[e])'
  BY <1>1, <1>2 DEF ViewInv, LoadedInv
<1>5. ShapeInv'
  BY <1>2 DEF ViewInv, ShapeInv, IsSequence
<1> QED
  BY <1>1, <1>2, <1>3, <1>4, <1>5 DEF ViewInv, ShownInv

\* ViewInv is inductive.
LEMMA Inductive == Spec => []ViewInv
<1>1. Init => ViewInv
  <2> SUFFICES ASSUME Init PROVE ViewInv
    OBVIOUS
  <2>1. effects \in Seq({}) /\ DOMAIN effects = {}
    BY DEF Init
  <2>2. ShapeInv
    BY <2>1 DEF ShapeInv, IsSequence
  <2>3. page = Blank /\ feedback = {} /\ nextId = 1
    BY DEF Init, FeedbackTableInit
  <2> QED
    BY <2>1, <2>2, <2>3 DEF ViewInv, RowsInv, PageInv, Blank
<1>2. ViewInv /\ [Next]_vars => ViewInv'
  <2> SUFFICES ASSUME ViewInv, [Next]_vars PROVE ViewInv'
    OBVIOUS
  <2>1. CASE UNCHANGED vars
    BY <2>1 DEF vars, tableVars, pageVars, ViewInv, RowsInv, ShapeInv, IsSequence,
                PageInv, LoadedInv, ShownInv
  <2> QED
    BY <2>1, AnswersKeep, ShowingKeeps, LookUpKeeps, RatedKeeps DEF Next, EffectStep
<1> QED
  BY <1>1, <1>2, PTL DEF Spec

-----------------------------------------------------------------------------

\* A badge stands at a rating whose named author signed what is shown, for any
\* rows that the table may hold, also edited ones (web/src/adr036.ts:90-106,
\* web/src/components/ReputationView.tsx:34-37).
THEOREM BadgesEarned == Spec => []BadgesAreEarned
<1>1. ViewInv => BadgesAreEarned
  <2> SUFFICES ASSUME ViewInv, NEW r \in page.recs, <<r.id, TRUE>> \in page.verified
               PROVE  /\ AddressFromPubKey[r.signature.bytes.key] = r.author
                      /\ r.signature.bytes.doc.signer = r.author
                      /\ r.signature.bytes.doc.data.score = r.score
                      /\ r.signature.bytes.doc.data.deployer = r.owner
                      /\ r.signature.bytes.doc.data.dseq = r.dseq
    BY DEF BadgesAreEarned
  <2>1. PICK s \in page.recs : <<r.id, TRUE>> = <<s.id, VerifyRecord(s)>>
    BY DEF ViewInv, PageInv, Judged
  <2>2. r.id = s.id /\ VerifyRecord(s)
    BY <2>1
  <2>3. PICK t \in feedback : r = Listed(t)
    BY DEF ViewInv, PageInv
  <2>4. PICK u \in feedback : s = Listed(u)
    BY DEF ViewInv, PageInv
  <2>5. r = s
    BY <2>2, <2>3, <2>4, ListedRow DEF ViewInv, RowsInv
  <2> QED
    BY <2>2, <2>5 DEF VerifyRecord, BuildSignDoc, FeedbackFromRecord
<1> QED
  BY <1>1, Inductive, PTL

\* The page implements AddressedView: in every order of answers, what it shows
\* is about the address it shows (web/src/components/ReputationView.tsx:23-46).
THEOREM PageIsAddressed == Spec => ShowsWhatWasLookedUp
<1> DEFINE about == {r.subject : r \in page.recs}
                      \cup (IF page.rep = None THEN {} ELSE {page.rep.address})
<1>1. Init => View!Init
  BY DEF Init, Blank, View!Init
<1>2. ViewInv /\ ViewInv' /\ [Next]_vars => [View!Next]_<<address, about>>
  <2> SUFFICES ASSUME ViewInv, ViewInv', [Next]_vars
               PROVE  View!Next \/ UNCHANGED <<address, about>>
    OBVIOUS
  <2>1. about' \subseteq {address'}
    <3>1. \A r \in page'.recs : r.subject = address'
      BY ListedRow DEF ViewInv, PageInv, RowsInv
    <3> QED
      BY <3>1 DEF ViewInv, PageInv
  <2>2. ASSUME NEW a \in Looked \cup {None}, LookUp(a) PROVE View!Choose(a)
    BY <2>2 DEF LookUp, Blank, View!Choose
  <2>3. CASE address' = address
    BY <2>1, <2>3 DEF View!Next, View!Show
  <2>4. CASE address' # address
    <3>1. PICK a \in Looked \cup {None} : LookUp(a)
      BY <2>4 DEF Next, EffectStep, AnswerReputation, AnswerRatings, Loaded, LoadFails,
                  Verified, Step, Rated, vars, pageVars
    <3> QED
      BY <2>2, <3>1 DEF View!Next
  <2> QED
    BY <2>3, <2>4
<1> QED
  BY <1>1, <1>2, Inductive, PTL DEF Spec, ShowsWhatWasLookedUp, View!Spec

-----------------------------------------------------------------------------
\* The numbers above the ratings and the ratings are the aggregate and the
\* listing of the same rows.

\* What an effect asks for, as long as nobody rates the address.
Counted(effect) ==
  /\ effect.before \subseteq About(feedback, effect.address)
  /\ effect.rep \notin {None, Failed} =>
       effect.rep \in [address: Address, sums: Sums]
  /\ effect.at = "loading" /\ effect.before = About(feedback, effect.address) =>
       /\ effect.rep \notin {None, Failed} =>
            effect.rep.sums = ReputationIn(effect.before, effect.address)
       /\ effect.recs \notin {None, Failed} =>
            effect.recs = {Listed(r) : r \in Newest(effect.before)}

PageCounted ==
  page.rep # None /\ page.steady =>
    \E rows \in SUBSET feedback :
      /\ rows = About(rows, address)
      /\ page.rep.sums = ReputationIn(rows, address)
      /\ page.recs = {Listed(r) : r \in Newest(rows)}

CountInv ==
  /\ IsFiniteSet(feedback)
  /\ \A e \in DOMAIN effects : Counted(effects[e])
  /\ PageCounted

\* The four sums of GET /reputation.
LEMMA SumsByName ==
  ASSUME NEW rows, NEW a
  PROVE  ReputationIn(rows, a) =
           [positive |-> Cardinality(Ups(About(rows, a))),
            negative |-> Cardinality(Downs(About(rows, a))),
            net |-> ScoreSum(About(rows, a)),
            deployments_rated |-> Cardinality(Pairs(About(rows, a)))]
BY DEF ReputationIn, ScoreSum, Ups, Downs, Pairs

\* They are numbers, of which the third is the difference of the first two.
LEMMA SumsAgree ==
  ASSUME RowsInv, NEW rows \in SUBSET feedback, IsFiniteSet(rows), NEW a
  PROVE  /\ ReputationIn(rows, a) \in Sums
         /\ ReputationIn(rows, a).net =
              ReputationIn(rows, a).positive - ReputationIn(rows, a).negative
<1> DEFINE A == About(rows, a)
<1>1. A \in SUBSET rows /\ IsFiniteSet(A) /\ \A r \in A : r.score \in {1, -1}
  <2>1. A \in SUBSET rows
    BY DEF About
  <2>2. \A r \in A : r.score \in {1, -1}
    BY <2>1 DEF RowsInv, FeedbackRow
  <2> HIDE DEF A
  <2> QED
    BY <2>1, <2>2, FS_Subset
<1> HIDE DEF A
<1>2. Ups(A) \in SUBSET A /\ Downs(A) \in SUBSET A
  BY DEF Ups, Downs
<1>3. Cardinality(Ups(A)) \in Nat /\ Cardinality(Downs(A)) \in Nat
  BY <1>1, <1>2, FS_Subset, FS_CardinalityType
<1>4. Cardinality(Pairs(A)) \in Nat
  BY <1>1, PairsAreFinite
<1>5. ScoreSum(A) = Cardinality(Ups(A)) - Cardinality(Downs(A))
  BY <1>1, ScoresAddUp
<1>6. ReputationIn(rows, a) =
        [positive |-> Cardinality(Ups(A)), negative |-> Cardinality(Downs(A)),
         net |-> ScoreSum(A), deployments_rated |-> Cardinality(Pairs(A))]
  BY SumsByName DEF A
<1> QED
  BY <1>3, <1>4, <1>5, <1>6 DEF Sums

\* The sums are of the rows about the address, whatever others there are.
LEMMA SumsOfAbout ==
  ASSUME NEW rows, NEW a
  PROVE  /\ About(About(rows, a), a) = About(rows, a)
         /\ ReputationIn(About(rows, a), a) = ReputationIn(rows, a)
<1>1. About(About(rows, a), a) = About(rows, a)
  BY DEF About
<1> QED
  BY <1>1, SumsByName

\* A listing by subject is of the rows about it.
LEMMA ListingOfAbout ==
  ASSUME NEW a \in Looked
  PROVE  ListFeedback(a, "", "") = {Listed(r) : r \in Newest(About(feedback, a))}
<1>1. {s \in feedback : FeedbackMatches(s, a, "", "")} = About(feedback, a)
  BY ListingsAssumption DEF FeedbackMatches, Passes, About, Looked
<1> QED
  BY <1>1 DEF ListFeedback

\* A listing that is not full has every row, and no listing is longer than full.
LEMMA ListingHasAll ==
  ASSUME RowsInv, NEW rows \in SUBSET feedback, IsFiniteSet(rows)
  PROVE  /\ IsFiniteSet(Newest(rows)) /\ Cardinality(Newest(rows)) \in Nat
         /\ Cardinality(Newest(rows)) <= ListLimit
         /\ Cardinality(Newest(rows)) < ListLimit => Newest(rows) = rows
<1> DEFINE rank == [r \in rows |-> -r.id]
           P == PageOf(rows, rank, 0, ListLimit)
<1>1. \A r \in rows : r.id \in Nat
  BY DEF RowsInv, FeedbackRow
<1>2. /\ \A r \in rows : rank[r] \in Int
      /\ \A r, s \in rows : rank[r] = rank[s] => r = s
  BY <1>1 DEF RowsInv
<1>3. ASSUME NEW r \in rows
      PROVE  Place(rows, rank, r) = Cardinality({s \in rows : s.id > r.id})
  <2>1. {s \in rows : rank[s] < rank[r]} = {s \in rows : s.id > r.id}
    BY <1>1
  <2> HIDE DEF rank
  <2> QED
    BY <2>1 DEF Place
<1> HIDE DEF rank
<1>4. \A r \in rows : Place(rows, rank, r) \in 0..(Cardinality(rows) - 1)
  BY <1>2, PlacesAreTaken
<1>5. P = Newest(rows)
  BY <1>3, <1>4 DEF PageOf, Newest
<1>6. ListLimit \in Nat
  BY ListingsAssumption
<1>7. /\ IsFiniteSet(P) /\ Cardinality(P) \in Nat /\ Cardinality(P) <= ListLimit - 0
  BY <1>2, <1>6, PageIsBounded
<1>8. ASSUME Cardinality(P) < ListLimit PROVE Newest(rows) = rows
  <2>1. Cardinality(P) < ListLimit - 0
    BY <1>6, <1>7, <1>8
  <2>2. \A r \in rows : Place(rows, rank, r) < ListLimit
    BY <1>2, <1>6, <2>1, ShortPageIsLast
  <2> QED
    BY <1>3, <2>2 DEF Newest
<1> QED
  BY <1>5, <1>6, <1>7, <1>8

\* Rows are listed one by one, each with its score.
LEMMA ListedOneByOne ==
  ASSUME RowsInv, NEW rows \in SUBSET feedback, IsFiniteSet(rows)
  PROVE  Cardinality({Listed(r) : r \in rows}) = Cardinality(rows)
<1> DEFINE T == {Listed(r) : r \in rows}
           f == [r \in rows |-> Listed(r)]
<1>1. \A r \in rows : Listed(r).id = r.id
  BY ListedRow DEF RowsInv
<1>2. f \in [rows -> T] /\ \A t \in T : \E r \in rows : f[r] = t
  OBVIOUS
<1>3. \A r, s \in rows : f[r] = f[s] => r = s
  BY <1>1 DEF RowsInv
<1> HIDE DEF T, f
<1> QED
  BY <1>2, <1>3, ImageCounts DEF T

-----------------------------------------------------------------------------
\* An effect goes on, with the table as it is.
LEMMA StepKeepsCounts ==
  ASSUME ViewInv, CountInv, NEW e \in DOMAIN effects, NEW effect,
         DOMAIN effect = Fields, Step(e, effect), Counted(effect),
         page' = page \/ PageCounted'
  PROVE  CountInv'
<1>1. effects' = [effects EXCEPT ![e] = effect] /\ address' = address
      /\ feedback' = feedback
  BY DEF Step, tableVars
<1>2. /\ DOMAIN effects' = DOMAIN effects /\ effects'[e] = effect
      /\ \A f \in DOMAIN effects \ {e} : effects'[f] = effects[f]
  BY <1>1, OneEffect DEF ViewInv
<1>3. \A f \in DOMAIN effects' : Counted(effects[f])'
  BY <1>1, <1>2 DEF CountInv, Counted
<1>4. PageCounted'
  BY <1>1 DEF CountInv, PageCounted
<1> QED
  BY <1>1, <1>3, <1>4 DEF CountInv

\* An answer is about the rows there are, which are those there were as long as
\* none was added.
LEMMA AnswersCount ==
  ASSUME ViewInv, CountInv, NEW e \in DOMAIN effects,
         AnswerReputation(e) \/ AnswerRatings(e)
  PROVE  CountInv'
<1>1. /\ DOMAIN effects[e] = Fields /\ effects[e].address \in Looked
      /\ effects[e].at = "loading" /\ Counted(effects[e]) /\ page' = page
  BY DEF ViewInv, ShapeInv, CountInv, AnswerReputation, AnswerRatings
<1>2. ASSUME NEW rep, rep = Failed \/ rep = HandleReputation(effects[e].address),
             Step(e, [effects[e] EXCEPT !.rep = rep])
      PROVE  CountInv'
  <2> DEFINE effect == [effects[e] EXCEPT !.rep = rep]
             a == effects[e].address
  <2>1. /\ DOMAIN effect = Fields /\ effect.address = a
        /\ effect.before = effects[e].before /\ effect.rep = rep
        /\ effect.recs = effects[e].recs /\ effect.at = "loading"
    BY <1>1 DEF Fields
  <2>2. Reputation(a) \in Sums /\ Reputation(a) = ReputationIn(About(feedback, a), a)
    BY SumsAgree, SumsOfAbout DEF Reputation, CountInv, ViewInv
  <2>3. ASSUME effect.rep \notin {None, Failed}
        PROVE  /\ effect.rep \in [address: Address, sums: Sums]
               /\ effect.rep.sums = ReputationIn(About(feedback, a), a)
    BY <1>2, <2>1, <2>2, <2>3 DEF HandleReputation, DecodesAsAddress
  <2> HIDE DEF effect
  <2>4. Counted(effect)
    BY <1>1, <2>1, <2>3 DEF Counted
  <2> QED
    BY <1>1, <1>2, <2>1, <2>4, StepKeepsCounts DEF effect
<1>3. ASSUME NEW recs, recs = Failed \/ recs = ListFeedback(effects[e].address, "", ""),
             Step(e, [effects[e] EXCEPT !.recs = recs])
      PROVE  CountInv'
  <2> DEFINE effect == [effects[e] EXCEPT !.recs = recs]
             a == effects[e].address
  <2>1. /\ DOMAIN effect = Fields /\ effect.address = a
        /\ effect.before = effects[e].before /\ effect.recs = recs
        /\ effect.rep = effects[e].rep /\ effect.at = "loading"
    BY <1>1 DEF Fields
  <2>2. effect.recs \notin {None, Failed} =>
          effect.recs = {Listed(r) : r \in Newest(About(feedback, a))}
    BY <1>1, <1>3, <2>1, ListingOfAbout
  <2> HIDE DEF effect
  <2>3. Counted(effect)
    BY <1>1, <2>1, <2>2 DEF Counted
  <2> QED
    BY <1>1, <1>3, <2>1, <2>3, StepKeepsCounts DEF effect
<1> QED
  BY <1>2, <1>3 DEF AnswerReputation, AnswerRatings

\* What is shown was counted over the same rows.
LEMMA ShowingCounts ==
  ASSUME ViewInv, CountInv, NEW e \in DOMAIN effects,
         Loaded(e) \/ LoadFails(e) \/ Verified(e)
  PROVE  CountInv'
<1>1. /\ DOMAIN effects[e] = Fields /\ Counted(effects[e])
      /\ (~effects[e].cancelled => effects[e].address = address)
      /\ DOMAIN page = {"rep", "recs", "verified", "err", "steady"} /\ PageCounted
  BY DEF ViewInv, ShapeInv, CountInv, ShownInv
<1>2. address' = address /\ feedback' = feedback
  BY DEF Loaded, LoadFails, Verified, Step, tableVars
<1> DEFINE over == Over(effects[e])
<1>3. DOMAIN over = Fields /\ Counted(over)
  BY <1>1 DEF Over, Fields, Counted
<1> HIDE DEF over
<1>4. ASSUME page'.rep = page.rep, page'.recs = page.recs, page'.steady = page.steady
      PROVE  PageCounted'
  BY <1>1, <1>2, <1>4 DEF PageCounted
<1>5. CASE Step(e, over) /\ (LoadFails(e) \/ Verified(e))
  <2>1. /\ page'.rep = page.rep /\ page'.recs = page.recs
        /\ page'.steady = page.steady
    BY <1>1, <1>5 DEF LoadFails, Verified
  <2> QED
    BY <1>3, <1>4, <1>5, <2>1, StepKeepsCounts
<1>6. CASE Loaded(e) /\ effects[e].cancelled
  BY <1>3, <1>6, StepKeepsCounts DEF Loaded, over
<1>7. CASE Loaded(e) /\ ~effects[e].cancelled
  <2> DEFINE effect == [effects[e] EXCEPT !.at = "verifying"]
             rows == About(feedback, address)
  <2>1. /\ DOMAIN effect = Fields /\ effect.address = effects[e].address
        /\ effect.before = effects[e].before /\ effect.at = "verifying"
        /\ effect.rep = effects[e].rep /\ effect.recs = effects[e].recs
    BY <1>1 DEF Fields
  <2>2. Counted(effect)
    BY <1>1, <2>1 DEF Counted
  <2>3. /\ Step(e, effect) /\ BothThere(e) /\ effects[e].at = "loading"
        /\ page'.rep = effects[e].rep /\ page'.recs = effects[e].recs
        /\ page'.steady = (effects[e].before = About(feedback, effects[e].address))
    BY <1>1, <1>7 DEF Loaded
  <2>4. PageCounted'
    <3> SUFFICES ASSUME page'.steady PROVE PageCounted'
      BY DEF PageCounted
    <3>1. effects[e].before = rows /\ rows \in SUBSET feedback
      BY <1>1, <1>7, <2>3 DEF About
    <3>2. /\ page'.rep.sums = ReputationIn(rows, address)
          /\ page'.recs = {Listed(r) : r \in Newest(rows)}
      BY <1>1, <1>7, <2>3, <3>1 DEF Counted, BothThere
    <3>3. rows = About(feedback, address)
      OBVIOUS
    <3> QED
      BY <1>2, <3>1, <3>2, SumsOfAbout DEF PageCounted
  <2> HIDE DEF effect
  <2> QED
    BY <2>1, <2>2, <2>3, <2>4, StepKeepsCounts
<1>8. LoadFails(e) \/ Verified(e) => Step(e, over)
  BY DEF LoadFails, Verified, over
<1> QED
  BY <1>5, <1>6, <1>7, <1>8

\* A new effect has no answers, and asks about the rows there are.
LEMMA LookUpCounts ==
  ASSUME ViewInv, CountInv, NEW a \in Looked \cup {None}, LookUp(a)
  PROVE  CountInv'
<1> DEFINE over == [e \in DOMAIN effects |-> [effects[e] EXCEPT !.cancelled = TRUE]]
<1>1. PICK S : effects \in Seq(S)
  BY DEF ViewInv, ShapeInv, IsSequence
<1>2. Len(effects) \in Nat /\ DOMAIN effects = 1..Len(effects)
  BY <1>1
<1>3. /\ page' = Blank /\ address' = a /\ feedback' = feedback
      /\ effects' = IF a = None THEN over ELSE Append(over, Effect(a))
  BY DEF LookUp, tableVars
<1>4. ASSUME NEW e \in DOMAIN effects PROVE Counted(over[e])
  <2>1. /\ over[e].address = effects[e].address /\ over[e].rep = effects[e].rep
        /\ over[e].recs = effects[e].recs /\ over[e].at = effects[e].at
        /\ over[e].before = effects[e].before
    BY DEF ViewInv, ShapeInv, Fields
  <2> HIDE DEF over
  <2> QED
    BY <2>1 DEF CountInv, Counted
<1>5. Counted(Effect(a))
  BY DEF Effect, Counted
<1>6. ASSUME NEW e \in DOMAIN effects'
      PROVE  effects'[e] = Effect(a) \/ \E f \in DOMAIN effects : effects'[e] = over[f]
  <2> DEFINE T == {over[f] : f \in DOMAIN effects} \cup {Effect(a)}
  <2>1. over \in Seq(T)
    <3>1. over \in [1..Len(effects) -> T]
      BY <1>2
    <3> HIDE DEF over, T
    <3> QED
      BY <1>2, <3>1
  <2>2. effects' \in Seq(T)
    <3>1. Effect(a) \in T
      OBVIOUS
    <3> HIDE DEF over, T
    <3> QED
      BY <1>3, <2>1, <3>1
  <2>3. effects'[e] \in T
    <3> HIDE DEF over, T
    <3> QED
      BY <1>6, <2>2
  <2> QED
    BY <2>3
<1> HIDE DEF over
<1>7. \A e \in DOMAIN effects' : Counted(effects[e])'
  BY <1>3, <1>4, <1>5, <1>6 DEF Counted
<1>8. PageCounted'
  BY <1>3 DEF PageCounted, Blank
<1> QED
  BY <1>3, <1>7, <1>8 DEF CountInv

\* A rating that is stored is about one address: what was loaded about another is
\* still what there is, and an effect that asks about this one is not steady.
LEMMA RatedCounts ==
  ASSUME ViewInv, CountInv, Rated
  PROVE  CountInv'
<1>1. feedback \subseteq feedback' /\ UNCHANGED <<address, page, effects>>
  BY RatedKeepsRows DEF ViewInv, Rated, pageVars
<1>2. IsFiniteSet(feedback')
  <2>1. PICK r \in Offered : InsertFeedback([r EXCEPT !.id = nextId])
    BY DEF Rated
  <2>2. \E rec : feedback' \in {feedback, feedback \cup {rec}}
    BY <2>1 DEF InsertFeedback
  <2> QED
    BY <2>2, FS_AddElement DEF CountInv
<1>3. ASSUME NEW e \in DOMAIN effects' PROVE Counted(effects[e])'
  <2> DEFINE a == effects[e].address
  <2>1. effects'[e] = effects[e] /\ Counted(effects[e])
    BY <1>1, <1>3 DEF CountInv
  <2>2. About(feedback, a) \subseteq About(feedback', a)
    BY <1>1 DEF About
  <2>3. effects[e].before \subseteq About(feedback', a)
    BY <2>1, <2>2 DEF Counted
  <2>4. effects[e].before = About(feedback', a) => effects[e].before = About(feedback, a)
    BY <2>1, <2>2 DEF Counted
  <2> QED
    BY <2>1, <2>3, <2>4 DEF Counted
<1>4. PageCounted'
  BY <1>1 DEF CountInv, PageCounted
<1> QED
  BY <1>2, <1>3, <1>4 DEF CountInv

\* CountInv is inductive, given ViewInv.
LEMMA Counts == Spec => []CountInv
<1>1. Init => CountInv
  <2> SUFFICES ASSUME Init PROVE CountInv
    OBVIOUS
  <2>1. DOMAIN effects = {} /\ page.rep = None /\ feedback = {}
    BY DEF Init, Blank, FeedbackTableInit
  <2> QED
    BY <2>1, FS_EmptySet DEF CountInv, PageCounted
<1>2. ViewInv /\ CountInv /\ [Next]_vars => CountInv'
  <2> SUFFICES ASSUME ViewInv, CountInv, [Next]_vars PROVE CountInv'
    OBVIOUS
  <2>1. CASE UNCHANGED vars
    BY <2>1 DEF vars, tableVars, pageVars, CountInv, Counted, PageCounted
  <2> QED
    BY <2>1, AnswersCount, ShowingCounts, LookUpCounts, RatedCounts DEF Next, EffectStep
<1> QED
  BY <1>1, <1>2, Inductive, PTL DEF Spec

-----------------------------------------------------------------------------
\* The numbers above the ratings are theirs, unless the list is full or a rating
\* came in between (internal/store/store.go:185-209).
THEOREM NumbersAgree == Spec => []NumbersAgreeWithRatings
<1>1. ViewInv /\ CountInv => NumbersAgreeWithRatings
  <2> SUFFICES ASSUME ViewInv, CountInv, page.rep # None, page.steady,
                      Cardinality(page.recs) # ListLimit
               PROVE  /\ Up(page.recs) = page.rep.sums.positive
                      /\ Down(page.recs) = page.rep.sums.negative
                      /\ Up(page.recs) - Down(page.recs) = page.rep.sums.net
    BY DEF NumbersAgreeWithRatings
  <2>1. PICK rows \in SUBSET feedback :
          /\ rows = About(rows, address)
          /\ page.rep.sums = ReputationIn(rows, address)
          /\ page.recs = {Listed(r) : r \in Newest(rows)}
    BY DEF CountInv, PageCounted
  <2>2. IsFiniteSet(rows) /\ RowsInv /\ ListLimit \in Nat
    BY FS_Subset, ListingsAssumption DEF CountInv, ViewInv
  <2>3. Newest(rows) \in SUBSET feedback /\ IsFiniteSet(Newest(rows))
    BY <2>2, ListingHasAll DEF Newest
  <2>4. Cardinality(page.recs) = Cardinality(Newest(rows))
    BY <2>1, <2>2, <2>3, ListedOneByOne
  <2>5. Newest(rows) = rows
    BY <2>2, <2>4, ListingHasAll
  <2>6. /\ Ups(rows) \in SUBSET feedback /\ IsFiniteSet(Ups(rows))
        /\ Downs(rows) \in SUBSET feedback /\ IsFiniteSet(Downs(rows))
    BY <2>2, FS_Subset DEF Ups, Downs
  <2>7. /\ {r \in page.recs : r.score > 0} = {Listed(r) : r \in Ups(rows)}
        /\ {r \in page.recs : r.score < 0} = {Listed(r) : r \in Downs(rows)}
    <3>1. \A r \in rows : Listed(r).score = r.score
      BY <2>2 DEF Listed, RowsInv, FeedbackRow
    <3> QED
      BY <2>1, <2>5, <3>1 DEF Ups, Downs
  <2>8. Up(page.recs) = Cardinality(Ups(rows)) /\ Down(page.recs) = Cardinality(Downs(rows))
    BY <2>2, <2>6, <2>7, ListedOneByOne DEF Up, Down
  <2>9. /\ page.rep.sums.positive = Cardinality(Ups(rows))
        /\ page.rep.sums.negative = Cardinality(Downs(rows))
    BY <2>1, SumsByName
  <2>10. page.rep.sums.net = page.rep.sums.positive - page.rep.sums.negative
    BY <2>1, <2>2, SumsAgree
  <2> QED
    BY <2>8, <2>9, <2>10
<1> QED
  BY <1>1, Inductive, Counts, PTL

\* The parts of TypeOK that neither ViewInv nor CountInv has.
RestOK ==
  /\ FaultsTypeOK /\ address \in Looked \cup {None}
  /\ page.rep \in [address: Address, sums: Sums] \cup {None}
  /\ page.recs # Failed /\ page.err \in BOOLEAN
  /\ \A e \in DOMAIN effects : effects[e].at \in {"loading", "verifying", "over"}

\* What one effect does keeps them.
LEMMA EffectsKeepTypes ==
  ASSUME ViewInv, CountInv, RestOK, NEW e \in DOMAIN effects, EffectStep(e)
  PROVE  RestOK'
<1>1. /\ DOMAIN effects[e] = Fields /\ Counted(effects[e])
      /\ DOMAIN page = {"rep", "recs", "verified", "err", "steady"}
  BY DEF ViewInv, ShapeInv, CountInv
<1>2. address' = address /\ FaultsTypeOK'
  <2>1. address' = address /\ (faults' = faults \/ Fault)
    BY DEF EffectStep, AnswerReputation, AnswerRatings, Loaded, LoadFails, Verified, Step
  <2> QED
    BY <2>1, FaultsAssumption DEF RestOK, FaultsTypeOK, Fault
<1>3. PICK effect : /\ effects' = [effects EXCEPT ![e] = effect]
                    /\ DOMAIN effect = Fields
                    /\ effect.at \in {"loading", "verifying", "over"}
  <2>1. \A rep, recs : /\ DOMAIN [effects[e] EXCEPT !.rep = rep] = Fields
                       /\ DOMAIN [effects[e] EXCEPT !.recs = recs] = Fields
                       /\ [effects[e] EXCEPT !.rep = rep].at = effects[e].at
                       /\ [effects[e] EXCEPT !.recs = recs].at = effects[e].at
    BY <1>1 DEF Fields
  <2>2. /\ DOMAIN [effects[e] EXCEPT !.at = "verifying"] = Fields
        /\ [effects[e] EXCEPT !.at = "verifying"].at = "verifying"
        /\ DOMAIN Over(effects[e]) = Fields /\ Over(effects[e]).at = "over"
    BY <1>1 DEF Fields, Over
  <2>3. CASE AnswerReputation(e)
    BY <2>1, <2>3 DEF AnswerReputation, Step
  <2>4. CASE AnswerRatings(e)
    BY <2>1, <2>4 DEF AnswerRatings, Step
  <2>5. CASE Loaded(e) \/ LoadFails(e) \/ Verified(e)
    BY <2>2, <2>5 DEF Loaded, LoadFails, Verified, Step
  <2> QED
    BY <2>3, <2>4, <2>5 DEF EffectStep
<1>4. \A f \in DOMAIN effects' : effects'[f].at \in {"loading", "verifying", "over"}
  BY <1>3, OneEffect DEF ViewInv, RestOK
<1>5. /\ page'.rep \in [address: Address, sums: Sums] \cup {None}
      /\ page'.recs # Failed /\ page'.err \in BOOLEAN
  <2>1. \/ page'.rep = page.rep /\ page'.recs = page.recs
        \/ page'.rep = effects[e].rep /\ page'.recs = effects[e].recs /\ BothThere(e)
    BY <1>1 DEF EffectStep, AnswerReputation, AnswerRatings, Loaded, LoadFails, Verified
  <2>2. page'.err = page.err \/ page'.err = (page.err \/ ~effects[e].cancelled)
    BY <1>1 DEF EffectStep, AnswerReputation, AnswerRatings, Loaded, LoadFails, Verified
  <2> QED
    BY <1>1, <2>1, <2>2 DEF RestOK, Counted, BothThere
<1> QED
  BY <1>2, <1>4, <1>5 DEF RestOK

\* The page, its effects and the table are what they are declared to be.
THEOREM ViewTypeCorrect == Spec => []TypeOK
<1>1. Init => RestOK
  <2> SUFFICES ASSUME Init PROVE RestOK
    OBVIOUS
  <2>1. DOMAIN effects = {} /\ faults = 0 /\ address = None
    BY DEF Init, FaultsInit
  <2>2. page.rep = None /\ page.recs # Failed /\ page.err \in BOOLEAN
    BY ListingsAssumption DEF Init, Blank
  <2>3. FaultsTypeOK
    BY <2>1, FaultsAssumption DEF FaultsTypeOK
  <2> QED
    BY <2>1, <2>2, <2>3 DEF RestOK
<1>2. ViewInv /\ CountInv /\ RestOK /\ [Next]_vars => RestOK'
  <2> SUFFICES ASSUME ViewInv, CountInv, RestOK, [Next]_vars PROVE RestOK'
    OBVIOUS
  <2>1. CASE Rated
    BY <2>1 DEF Rated, pageVars, RestOK, FaultsTypeOK
  <2>2. ASSUME NEW a \in Looked \cup {None}, LookUp(a) PROVE RestOK'
    <3>1. /\ address' = a /\ page' = Blank /\ faults' = faults
          /\ effects' = LET over == [e \in DOMAIN effects |->
                                       [effects[e] EXCEPT !.cancelled = TRUE]]
                        IN  IF a = None THEN over ELSE Append(over, Effect(a))
      BY <2>2 DEF LookUp
    <3>2. \A e \in DOMAIN effects' : effects'[e].at \in {"loading", "verifying", "over"}
      <4> DEFINE over == [e \in DOMAIN effects |->
                            [effects[e] EXCEPT !.cancelled = TRUE]]
                 S == {s \in {over[e] : e \in DOMAIN effects} \cup {Effect(a)} :
                         s.at \in {"loading", "verifying", "over"}}
      <4>1. PICK T : effects \in Seq(T)
        BY DEF ViewInv, ShapeInv, IsSequence
      <4>2. \A e \in DOMAIN effects : over[e] \in S
        BY DEF ViewInv, ShapeInv, Fields, RestOK
      <4>3. Effect(a) \in S
        BY DEF Effect
      <4>4. over \in Seq(S)
        <5>1. over \in [1..Len(effects) -> S]
          BY <4>1, <4>2
        <5> HIDE DEF over, S
        <5> QED
          BY <4>1, <5>1
      <4>5. effects' \in Seq(S)
        <5>1. effects' = IF a = None THEN over ELSE Append(over, Effect(a))
          BY <3>1
        <5> HIDE DEF over, S
        <5> QED
          BY <4>3, <4>4, <5>1
      <4>6. \A e \in DOMAIN effects' : effects'[e] \in S
        <5> HIDE DEF over, S
        <5> QED
          BY <4>5
      <4> QED
        BY <4>6
    <3> QED
      BY <3>1, <3>2, ListingsAssumption DEF RestOK, FaultsTypeOK, Blank
  <2>3. CASE UNCHANGED vars
    BY <2>3 DEF vars, pageVars, RestOK, FaultsTypeOK
  <2> QED
    BY <2>1, <2>2, <2>3, EffectsKeepTypes DEF Next
<1>3. ViewInv /\ RestOK => TypeOK
  <2> SUFFICES ASSUME ViewInv, RestOK PROVE TypeOK
    OBVIOUS
  <2>1. page.recs \subseteq {Listed(r) : r \in feedback}
    BY DEF ViewInv, PageInv
  <2>2. \A r \in page.recs : r.id \in 1..nextId
    <3>1. \A r \in feedback : Listed(r).id \in 1..nextId
      BY ListedRow DEF ViewInv, RowsInv, FeedbackRow
    <3> QED
      BY <2>1, <3>1
  <2>3. \A r : VerifyRecord(r) \in BOOLEAN
    BY DEF VerifyRecord
  <2>4. page.verified \subseteq (1..nextId) \X BOOLEAN
    BY <2>2, <2>3 DEF ViewInv, PageInv, Judged
  <2> QED
    BY <2>1, <2>4 DEF TypeOK, RestOK, ViewInv, RowsInv, FeedbackTableTypeOK
<1> QED
  BY <1>1, <1>2, <1>3, Inductive, Counts, PTL DEF Spec

-----------------------------------------------------------------------------
\* The encoders, character by character.

\* What is read back after marshalling is the text that JSON can carry.
LEMMA ReadBack == ASSUME NEW c \in Char PROVE Unescape(GoEscape(c)) = Carry(c)
  BY DEF Char, Named, Paged, Html, GoEscape, Unescape, Carry, Raw, Short, Hex

\* What JSON can carry it carries unchanged, and the port writes it as before.
LEMMA CarriedOnce ==
  ASSUME NEW c \in Char
  PROVE  /\ Carry(c) \in Char \ {"invalid"} /\ Carry(Carry(c)) = Carry(c)
         /\ GoJsonString(Carry(c)) = GoJsonString(c)
  BY DEF Char, Named, Paged, Html, Carry, GoJsonString, Raw, Short, Hex

\* The encoders differ for backspace, form feed and what JSON cannot carry.
LEMMA EncodersAgree ==
  ASSUME NEW c \in Char \ {"invalid"}, c \notin Paged
  PROVE  GoEscape(c) = GoJsonString(c)
  BY DEF Char, Named, Paged, Html, GoEscape, GoJsonString, Raw, Short, Hex

-----------------------------------------------------------------------------
\* Texts.

Texts == Seq(Char)

\* The bytes of a text are those of its characters.
LEMMA BytesOfText ==
  ASSUME NEW s \in Texts
  PROVE  /\ CanonicalBytes(s) = [k \in DOMAIN s |-> GoEscape(Carry(s[k]))]
         /\ CanonicalFeedbackBytes(s) = [k \in DOMAIN s |-> GoJsonString(s[k])]
         /\ Carried(s) = [k \in DOMAIN s |-> Carry(s[k])]
         /\ Carried(s) \in Texts /\ DOMAIN Carried(s) = DOMAIN s
<1>1. \A k \in DOMAIN s : s[k] \in Char
  BY DEF Texts
<1>2. CanonicalBytes(s) = [k \in DOMAIN s |-> GoEscape(Unescape(GoEscape(s[k])))]
  BY DEF CanonicalBytes, GoMarshal, Unmarshal, Each
<1>3. CanonicalBytes(s) = [k \in DOMAIN s |-> GoEscape(Carry(s[k]))]
  BY <1>1, <1>2, ReadBack
<1>4. CanonicalFeedbackBytes(s) = [k \in DOMAIN s |-> GoJsonString(s[k])]
  BY DEF CanonicalFeedbackBytes, Each
<1>5. Carried(s) = [k \in DOMAIN s |-> Carry(s[k])]
  BY DEF Carried, Each
<1>6. Carried(s) \in Texts
  BY <1>1, <1>5, CarriedOnce DEF Texts
<1> QED
  BY <1>3, <1>4, <1>5, <1>6

\* A text that was carried once is carried as it is, and gives the same bytes.
LEMMA CarriedText ==
  ASSUME NEW s \in Texts
  PROVE  /\ Carried(Carried(s)) = Carried(s)
         /\ CanonicalBytes(Carried(s)) = CanonicalBytes(s)
         /\ CanonicalFeedbackBytes(Carried(s)) = CanonicalFeedbackBytes(s)
<1> DEFINE t == Carried(s)
<1>1. t \in Texts /\ DOMAIN t = DOMAIN s /\ \A k \in DOMAIN s : t[k] = Carry(s[k])
  BY BytesOfText
<1>2. \A k \in DOMAIN s : s[k] \in Char
  BY DEF Texts
<1>3. \A k \in DOMAIN s : /\ Carry(t[k]) = Carry(s[k])
                          /\ GoJsonString(t[k]) = GoJsonString(s[k])
  BY <1>1, <1>2, CarriedOnce
<1> HIDE DEF t
<1>4. Carried(t) = [k \in DOMAIN s |-> Carry(s[k])]
  BY <1>1, <1>3, BytesOfText
<1>5. CanonicalBytes(t) = [k \in DOMAIN s |-> GoEscape(Carry(s[k]))]
  BY <1>1, <1>3, BytesOfText
<1>6. CanonicalFeedbackBytes(t) = [k \in DOMAIN s |-> GoJsonString(s[k])]
  BY <1>1, <1>3, BytesOfText
<1> QED
  BY <1>4, <1>5, <1>6, BytesOfText DEF t

\* Both encoders write the same bytes for a carried text without backspace and
\* form feed.
LEMMA TextsAgree ==
  ASSUME NEW s \in Texts, Carried(s) = s, Paged \cap ToSet(s) = {}
  PROVE  CanonicalBytes(s) = CanonicalFeedbackBytes(s)
<1>1. ASSUME NEW k \in DOMAIN s PROVE GoEscape(Carry(s[k])) = GoJsonString(s[k])
  <2>1. s[k] \in Char /\ s[k] = Carry(s[k])
    BY BytesOfText DEF Texts
  <2>2. s[k] \notin Paged
    BY DEF ToSet
  <2> QED
    BY <2>1, <2>2, CarriedOnce, EncodersAgree
<1> QED
  BY <1>1, BytesOfText

-----------------------------------------------------------------------------
\* The bytes that were signed are those of the text where it is now.

SignedInv ==
  /\ text \in Texts /\ signer \in {"tool", "page"}
  /\ at # "written" =>
       /\ Carried(text) = text
       /\ signed = IF signer = "tool" THEN CanonicalBytes(text)
                   ELSE CanonicalFeedbackBytes(text)
  /\ at = "unauthorized" => CanonicalBytes(text) # signed
  /\ at \in {"stored", "invalid"} => CanonicalBytes(text) = signed
  /\ at = "invalid" => CanonicalFeedbackBytes(text) # signed

\* SignedInv is inductive.
LEMMA TextInductive == TextSpec => []SignedInv
<1>1. TextInit => SignedInv
  <2> SUFFICES ASSUME TextInit PROVE SignedInv
    OBVIOUS
  <2>1. PICK m \in 0..MaxLength : text \in [1..m -> Char]
    BY DEF TextInit, BoundedSeq, SeqOf
  <2>2. text \in Texts
    BY <2>1, CanonicalTextAssumption DEF Texts
  <2> QED
    BY <2>2 DEF TextInit, SignedInv
<1>2. SignedInv /\ [TextNext]_textVars => SignedInv'
  <2> SUFFICES ASSUME SignedInv, [TextNext]_textVars PROVE SignedInv'
    OBVIOUS
  <2>1. CASE SignText
    <3>1. text' = Carried(text) /\ text' \in Texts /\ at' = "posted"
          /\ signer' = signer
      BY <2>1, BytesOfText DEF SignText, SignedInv
    <3>2. signed' = IF signer = "tool" THEN CanonicalBytes(text')
                    ELSE CanonicalFeedbackBytes(text')
      BY <2>1, CarriedText DEF SignText, SignedInv
    <3>3. Carried(text') = text'
      BY <3>1, CarriedText DEF SignedInv
    <3> QED
      BY <3>1, <3>2, <3>3 DEF SignedInv
  <2>2. CASE CheckText
    BY <2>2 DEF CheckText, SignedInv
  <2>3. CASE ReverifyText
    <3>1. text' = text /\ at' \in {"verified", "invalid"} /\ UNCHANGED <<signer, signed>>
      BY <2>3 DEF ReverifyText, SignedInv
    <3>2. at' = "invalid" => CanonicalFeedbackBytes(text') # signed
      BY <2>3 DEF ReverifyText
    <3> QED
      BY <2>3, <3>1, <3>2 DEF SignedInv, ReverifyText
  <2>4. CASE UNCHANGED textVars
    BY <2>4 DEF textVars, SignedInv
  <2> QED
    BY <2>1, <2>2, <2>3, <2>4 DEF TextNext
<1> QED
  BY <1>1, <1>2, PTL DEF TextSpec

\* What the tool signs the server verifies, for a text of any length
\* (internal/adr036/adr036.go:238-251).
THEOREM ToolTextsVerify == TextSpec => []ToolSignaturesVerify
<1>1. SignedInv => ToolSignaturesVerify
  BY DEF SignedInv, ToolSignaturesVerify
<1> QED
  BY <1>1, TextInductive, PTL

\* Backspace and form feed are all that the encoders differ on, in a text of any
\* length (web/src/adr036.ts:10-35).
THEOREM PortAgreesOnTexts == TextSpec => []PortAgrees
<1>1. SignedInv => PortAgrees
  BY TextsAgree DEF SignedInv, PortAgrees
<1> QED
  BY <1>1, TextInductive, PTL

\* The signed bytes, the text and its stage are what they are declared to be.
THEOREM TextTypeCorrect == TextSpec => []TextTypeOK
<1> DEFINE Unit == [form: {"raw", "short", "hex"}, char: Char \ {"invalid"}]
           Stage == {"written", "posted", "stored", "verified", "unauthorized",
                     "invalid", "insert failed"}
           Typed == /\ Len(text) <= MaxLength /\ signed \in Seq(Unit) /\ at \in Stage
<1>1. \A c \in Char : GoEscape(Carry(c)) \in Unit /\ GoJsonString(c) \in Unit
  BY DEF Char, Named, Paged, Html, GoEscape, GoJsonString, Carry, Raw, Short, Hex
<1>2. ASSUME NEW s \in Texts
      PROVE  /\ CanonicalBytes(s) \in Seq(Unit) /\ CanonicalFeedbackBytes(s) \in Seq(Unit)
             /\ Len(Carried(s)) = Len(s)
  <2>1. Len(s) \in Nat /\ DOMAIN s = 1..Len(s) /\ \A k \in 1..Len(s) : s[k] \in Char
    BY DEF Texts
  <2>2. /\ CanonicalBytes(s) = [k \in 1..Len(s) |-> GoEscape(Carry(s[k]))]
        /\ CanonicalFeedbackBytes(s) = [k \in 1..Len(s) |-> GoJsonString(s[k])]
        /\ Carried(s) = [k \in 1..Len(s) |-> Carry(s[k])]
    BY <2>1, BytesOfText
  <2>3. /\ CanonicalBytes(s) \in [1..Len(s) -> Unit]
        /\ CanonicalFeedbackBytes(s) \in [1..Len(s) -> Unit]
    BY <1>1, <2>1, <2>2
  <2>4. Len(Carried(s)) = Len(s)
    BY <2>1, <2>2
  <2> HIDE DEF Unit
  <2> QED
    BY <2>1, <2>3, <2>4
<1>3. TextInit => Typed
  <2> SUFFICES ASSUME TextInit PROVE Typed
    OBVIOUS
  <2>1. PICK m \in 0..MaxLength : text \in [1..m -> Char]
    BY DEF TextInit, BoundedSeq, SeqOf
  <2>2. Len(text) = m
    BY <2>1, CanonicalTextAssumption
  <2> QED
    BY <2>1, <2>2, CanonicalTextAssumption DEF TextInit
<1>4. SignedInv /\ Typed /\ [TextNext]_textVars => Typed'
  <2> SUFFICES ASSUME SignedInv, Typed, [TextNext]_textVars PROVE Typed'
    OBVIOUS
  <2>1. text \in Texts
    BY DEF SignedInv
  <2>2. signed' \in Seq(Unit)
    <3> HIDE DEF Unit
    <3> QED
      BY <1>2, <2>1 DEF TextNext, SignText, CheckText, ReverifyText, textVars
  <2>3. at' \in Stage
    BY DEF TextNext, SignText, CheckText, ReverifyText, textVars
  <2>4. Len(text') <= MaxLength
    BY <1>2, <2>1 DEF TextNext, SignText, CheckText, ReverifyText, textVars
  <2> QED
    BY <2>2, <2>3, <2>4
<1>5. SignedInv /\ Typed => TextTypeOK
  BY DEF SignedInv, TextTypeOK, Texts
<1> QED
  BY <1>3, <1>4, <1>5, TextInductive, PTL DEF TextSpec
=============================================================================
