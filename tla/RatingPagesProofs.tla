--------------------------- MODULE RatingPagesProofs ---------------------------
(***************************************************************************)
(* Theorems about RatingPages, for any number of accounts, of approvals    *)
(* and of lists asked for at a time.                                       *)
(***************************************************************************)
EXTENDS RatingPages, TLAPS

\* Whose leases the page should list.
Target == IF page.kind = "dashboard" THEN page.deployer ELSE conn

\* Lists are asked for by a page that is there, by a dashboard once a deployer
\* was searched for.  A list that is not raced is the only one on its way, and
\* is of the one shown.
ListsInv ==
  /\ page.due => page.kind = "rate"
  /\ page.kind = "dashboard" => conn = Provider
  /\ page.kind = "none" => loads = {} /\ page.rows = None
  /\ ~page.due /\ ~page.raced => loads \subseteq {Target}
  /\ page.kind = "dashboard" /\ page.deployer = None => loads = {} /\ page.rows = None
  /\ ListsTheirLeasesUnlessRaced

OfOneself(s) ==
  /\ s.message.provider = Provider
  /\ s.by = IF s.message.role = "provider"
            THEN s.message.provider ELSE s.message.deployer

PagesInv == (\A s \in signing : OfOneself(s)) /\ SignedAsOneself /\ ListsInv

-----------------------------------------------------------------------------

\* The page for an account and a tab: there is one only for a connected account,
\* and the dashboard is for the provider.
LEMMA KindIsOfThePages ==
  ASSUME NEW c \in Account \cup {None}, NEW v \in {"lookup", "rate"}
  PROVE  /\ Kind(c, v) \in {"none", "dashboard", "rate"}
         /\ Kind(c, v) # "none" => c \in Account /\ v = "rate"
         /\ Kind(c, v) = "dashboard" => c = Provider
  BY DEF Kind

\* The pages that are mounted and the ratings that are detached.
LEMMA MountedIsAPage ==
  ASSUME NEW k \in {"none", "dashboard", "rate"}
  PROVE  /\ Mounted(k) \in PageState /\ Mounted(k).kind = k
         /\ Mounted(k).rows = None /\ Mounted(k).deployer = None
         /\ Mounted(k).due <=> k = "rate"
         /\ ~Mounted(k).raced
  BY DEF Mounted, PageState

\* Ratings whose form is gone are ratings still.
LEMMA DetachedKeepsTypes ==
  ASSUME signing \subseteq Signing
  PROVE  Detached \subseteq Signing
  BY DEF Detached, Signing

\* Another account or tab: the page that stays and the one that is mounted.
LEMMA RenderKeepsTypes ==
  ASSUME TypeOK, NEW c \in Account \cup {None}, NEW v \in {"lookup", "rate"},
         Render(c, v), pending' \subseteq Account
  PROVE  TypeOK'
<1>1. CASE Kind(c, v) = page.kind
  <2>1. page' \in PageState /\ page'.kind = page.kind
    BY <1>1 DEF Render, TypeOK, PageState
  <2> QED
    BY <1>1, <2>1 DEF Render, TypeOK
<1>2. CASE Kind(c, v) # page.kind
  BY <1>2, KindIsOfThePages, MountedIsAPage, DetachedKeepsTypes DEF Render, TypeOK
<1> QED
  BY <1>1, <1>2

\* A list is asked for.
LEMMA AskKeepsTypes ==
  ASSUME TypeOK, NEW d \in Account \cup {None}, NEW o \in Account, Ask(d, o)
  PROVE  TypeOK'
<1>1. page' \in PageState /\ page'.kind = page.kind
  <2>1. (loads \ {o} # {}) \in BOOLEAN
    OBVIOUS
  <2> QED
    BY <2>1 DEF Ask, TypeOK, PageState
<1> QED
  BY <1>1, DetachedKeepsTypes DEF Ask, TypeOK

\* The message of a form that is there: a dashboard has rows only once a
\* deployer was searched for.
LEMMA FormIsAMessage ==
  ASSUME TypeOK, page.kind # "none",
         page.kind = "dashboard" => page.deployer # None
  PROVE  Form \in Message /\ conn \in Account
  BY KindIsOfThePages, RatingPagesAssumption
     DEF Form, Message, TypeOK, PageState

IInv == TypeOK /\ PagesInv

\* Each step keeps the types, for a Submit because its form is there.
LEMMA StepKeepsTypes == IInv /\ [Next]_vars => TypeOK'
<1> SUFFICES ASSUME TypeOK, PagesInv, [Next]_vars PROVE TypeOK'
  BY DEF IInv
<1>1. ASSUME NEW a \in Account, ClickConnect(a) \/ Reject(a) PROVE TypeOK'
  BY <1>1 DEF ClickConnect, Reject, TypeOK
<1>2. ASSUME NEW a \in Account, Approve(a) PROVE TypeOK'
  BY <1>2, RenderKeepsTypes DEF Approve, TypeOK
<1>3. ASSUME NEW a \in Account, Search(a) PROVE TypeOK'
  BY <1>3, AskKeepsTypes DEF Search
<1>4. ASSUME NEW a \in Account, Listed(a) PROVE TypeOK'
  <2>1. page' \in PageState /\ page'.kind = page.kind
    BY <1>4 DEF Listed, TypeOK, PageState
  <2> QED
    BY <1>4, <2>1 DEF Listed, TypeOK
<1>5. CASE Disconnect
  BY <1>5, RenderKeepsTypes DEF Disconnect, TypeOK
<1>6. CASE Tab
  <2>1. PICK v \in {"lookup", "rate"} : Render(conn, v)
    BY <1>6 DEF Tab
  <2> QED
    BY <1>6, <2>1, RenderKeepsTypes DEF Tab, TypeOK
<1>7. CASE RateEffect
  <2>1. page.kind = "rate"
    BY <1>7 DEF RateEffect, PagesInv, ListsInv
  <2>2. conn \in Account
    <3>1. /\ conn \in Account \cup {None} /\ view \in {"lookup", "rate"}
          /\ page.kind = Kind(conn, view)
      BY DEF TypeOK
    <3> QED
      BY <2>1, <3>1, KindIsOfThePages
  <2> QED
    BY <1>7, <2>2, AskKeepsTypes DEF RateEffect
<1>8. CASE Submit
  <2>1. Form \in Message /\ conn \in Account
    BY <1>8, FormIsAMessage DEF Submit, PagesInv, ListsInv
  <2>2. page' \in PageState /\ page'.kind = page.kind
    BY <1>8 DEF Submit, TypeOK, PageState
  <2>3. signing' \subseteq Signing
    <3>1. [message |-> Form, by |-> conn, shown |-> TRUE] \in Signing
      BY <2>1 DEF Signing
    <3> QED
      BY <1>8, <3>1 DEF Submit, TypeOK
  <2> QED
    BY <1>8, <2>2, <2>3 DEF Submit, TypeOK
<1>9. ASSUME NEW s \in signing, Signed(s) PROVE TypeOK'
  <2>1. s.shown \in BOOLEAN /\ s.message \in Message /\ s.by \in Account
    BY DEF TypeOK, Signing
  <2>2. page' \in PageState /\ page'.kind = page.kind
    BY <1>9, <2>1 DEF Signed, TypeOK, PageState
  <2> QED
    BY <1>9, <2>1, <2>2 DEF Signed, TypeOK
<1>10. CASE UNCHANGED vars
  BY <1>10 DEF vars, TypeOK
<1> QED
  BY <1>1, <1>2, <1>3, <1>4, <1>5, <1>6, <1>7, <1>8, <1>9, <1>10 DEF Next

-----------------------------------------------------------------------------

\* What waits for a signature is in order when the form is submitted, and the
\* account that signs it is the one of that moment.
LEMMA SignedPart ==
  IInv /\ [Next]_vars =>
    (\A s \in signing' : OfOneself(s)) /\ (\A s \in sent' : OfOneself(s))
<1> SUFFICES ASSUME TypeOK, PagesInv, [Next]_vars
             PROVE  (\A s \in signing' : OfOneself(s)) /\ (\A s \in sent' : OfOneself(s))
  BY DEF IInv
<1>0. (\A s \in signing : OfOneself(s)) /\ (\A s \in sent : OfOneself(s))
  BY DEF PagesInv, SignedAsOneself, OfOneself
<1>d. \A s \in Detached : OfOneself(s)
  <2>1. signing \subseteq Signing
    BY DEF TypeOK
  <2>2. \A s \in Detached : \E t \in signing : s.message = t.message /\ s.by = t.by
    BY <2>1 DEF Detached, Signing
  <2> QED
    BY <1>0, <2>2 DEF OfOneself
<1>r. ASSUME NEW c, NEW v, Render(c, v)
      PROVE  signing' \in {signing, Detached} /\ sent' = sent
  BY <1>r DEF Render
<1>1. CASE sent' = sent /\ signing' \in {signing, Detached}
  BY <1>0, <1>d, <1>1
<1>2. CASE Submit
  <2> DEFINE new == [message |-> Form, by |-> conn, shown |-> TRUE]
  <2>1. OfOneself(new)
    <3>1. page.kind # "none"
      BY <1>2 DEF Submit, PagesInv, ListsInv
    <3>2. CASE page.kind = "dashboard"
      BY <3>2 DEF OfOneself, Form, PagesInv, ListsInv
    <3>3. CASE page.kind # "dashboard"
      BY <3>3 DEF OfOneself, Form
    <3> QED
      BY <3>2, <3>3
  <2>2. signing' = signing \cup {new} /\ sent' = sent
    BY <1>2 DEF Submit
  <2> QED
    BY <1>0, <2>1, <2>2
<1>3. ASSUME NEW s \in signing, Signed(s)
      PROVE  (\A t \in signing' : OfOneself(t)) /\ (\A t \in sent' : OfOneself(t))
  BY <1>0, <1>3 DEF Signed, OfOneself
<1>4. ASSUME NEW a \in Account, ClickConnect(a) \/ Approve(a) \/ Reject(a)
                                \/ Search(a) \/ Listed(a)
      PROVE  sent' = sent /\ signing' \in {signing, Detached}
  BY <1>4, <1>r DEF ClickConnect, Approve, Reject, Search, Listed, Ask
<1>5. CASE Disconnect \/ Tab \/ RateEffect \/ UNCHANGED vars
  BY <1>1, <1>5, <1>r DEF Disconnect, Tab, RateEffect, Ask, vars
<1> QED
  BY <1>1, <1>2, <1>3, <1>4, <1>5 DEF Next

-----------------------------------------------------------------------------

\* The page that stays is due for the new account; the one that is mounted
\* lists nothing.
LEMMA RenderKeepsLists ==
  ASSUME TypeOK, ListsInv, NEW c \in Account \cup {None},
         NEW v \in {"lookup", "rate"}, Render(c, v)
  PROVE  ListsInv'
<1>0. /\ page.kind = Kind(conn, view) /\ page \in PageState
      /\ conn \in Account \cup {None} /\ view \in {"lookup", "rate"}
  BY DEF TypeOK
<1>1. CASE Kind(c, v) = page.kind
  <2>1. /\ page'.kind = page.kind /\ page'.rows = page.rows
        /\ page'.deployer = page.deployer /\ page'.raced = page.raced
        /\ page'.due <=> (page.due \/ (c # conn /\ page.kind = "rate"))
    BY <1>0, <1>1 DEF Render, PageState
  <2>2. loads' = loads /\ conn' = c
    BY <1>1 DEF Render
  <2>3. page.kind = "dashboard" => c = Provider
    BY <1>1, KindIsOfThePages
  <2>4. page.kind = "none" => loads = {} /\ page.rows = None
    BY DEF ListsInv
  <2>5. ~page'.due => ~page.due /\ (page.kind = "rate" => c = conn)
    BY <2>1
  <2>6. ~page'.due /\ ~page'.raced /\ page.kind # "none" => Target' = Target
    BY <2>1, <2>2, <2>5, <1>0 DEF Target, PageState
  <2>7. ~page'.due /\ ~page'.raced => loads' \subseteq {Target'}
    BY <2>1, <2>2, <2>4, <2>5, <2>6 DEF ListsInv
  <2>8. ListsTheirLeasesUnlessRaced'
    BY <2>1, <2>4, <2>5, <2>6 DEF ListsInv, ListsTheirLeasesUnlessRaced, Target
  <2>9. page'.due => page'.kind = "rate"
    BY <2>1 DEF ListsInv
  <2> QED
    BY <2>1, <2>2, <2>3, <2>7, <2>8, <2>9 DEF ListsInv
<1>2. CASE Kind(c, v) # page.kind
  <2>1. page' = Mounted(Kind(c, v)) /\ loads' = {} /\ conn' = c
    BY <1>2 DEF Render
  <2>2. /\ Mounted(Kind(c, v)).kind = Kind(c, v)
        /\ Mounted(Kind(c, v)).rows = None
        /\ Mounted(Kind(c, v)).due <=> Kind(c, v) = "rate"
    BY MountedIsAPage, KindIsOfThePages
  <2>3. Kind(c, v) = "dashboard" => c = Provider
    BY KindIsOfThePages
  <2> QED
    BY <2>1, <2>2, <2>3 DEF ListsInv, Target, ListsTheirLeasesUnlessRaced
<1> QED
  BY <1>1, <1>2

\* A list is asked for of the one to be shown.
LEMMA AskKeepsLists ==
  ASSUME TypeOK, ListsInv, NEW d \in Account \cup {None}, NEW o \in Account,
         Ask(d, o), page.kind # "none",
         page.kind = "dashboard" => d = o,
         page.kind # "dashboard" => o = conn
  PROVE  ListsInv'
<1>1. page \in PageState
  BY DEF TypeOK
<1>2. /\ page'.kind = page.kind /\ page'.deployer = d /\ page'.rows = None
      /\ ~page'.due /\ (page'.raced <=> loads \ {o} # {})
  BY <1>1 DEF Ask, PageState
<1>3. loads' = loads \cup {o} /\ conn' = conn
  BY DEF Ask
<1>4. o # None
  BY RatingPagesAssumption
<1>5. ~page'.raced => loads' = {o}
  BY <1>2, <1>3
<1> QED
  BY <1>2, <1>3, <1>4, <1>5 DEF ListsInv, Target, ListsTheirLeasesUnlessRaced

\* The lists do not depend on whether a form is busy.
LEMMA BusyKeepsLists ==
  ASSUME ListsInv, conn' = conn, loads' = loads,
         page'.kind = page.kind, page'.deployer = page.deployer,
         page'.rows = page.rows, page'.due = page.due, page'.raced = page.raced
  PROVE  ListsInv'
  BY DEF ListsInv, Target, ListsTheirLeasesUnlessRaced

\* A list arrives: without a race it is of the one to be shown.
LEMMA ListedKeepsLists ==
  ASSUME TypeOK, ListsInv, NEW a \in Account, Listed(a)
  PROVE  ListsInv'
<1>1. page \in PageState
  BY DEF TypeOK
<1>2. /\ page'.kind = page.kind /\ page'.deployer = page.deployer
      /\ page'.due = page.due /\ page'.raced = page.raced
      /\ page'.rows \in {page.rows, a}
  BY <1>1 DEF Listed, PageState
<1>3. loads' = loads \ {a} /\ a \in loads /\ conn' = conn
  BY DEF Listed
<1>4. ~page.due /\ ~page.raced => a = Target
  BY <1>3 DEF ListsInv
<1> QED
  BY <1>2, <1>3, <1>4 DEF ListsInv, Target, ListsTheirLeasesUnlessRaced

\* Each step keeps ListsInv.
LEMMA ListsPart == IInv /\ [Next]_vars => ListsInv'
<1> SUFFICES ASSUME TypeOK, ListsInv, [Next]_vars PROVE ListsInv'
  BY DEF IInv, PagesInv
<1>0. page \in PageState
  BY DEF TypeOK
<1>1. ASSUME NEW a \in Account, ClickConnect(a) \/ Reject(a) PROVE ListsInv'
  BY <1>1, BusyKeepsLists DEF ClickConnect, Reject
<1>2. ASSUME NEW a \in Account, Approve(a) PROVE ListsInv'
  BY <1>2, RenderKeepsLists DEF Approve
<1>3. ASSUME NEW a \in Account, Search(a) PROVE ListsInv'
  BY <1>3, AskKeepsLists DEF Search
<1>4. ASSUME NEW a \in Account, Listed(a) PROVE ListsInv'
  BY <1>4, ListedKeepsLists
<1>5. CASE Disconnect
  BY <1>5, RenderKeepsLists DEF Disconnect
<1>6. CASE Tab
  <2>1. PICK v \in {"lookup", "rate"} : Render(conn, v)
    BY <1>6 DEF Tab
  <2> QED
    BY <2>1, RenderKeepsLists DEF TypeOK
<1>7. CASE RateEffect
  <2>1. page.kind = "rate"
    BY <1>7 DEF RateEffect, ListsInv
  <2>2. conn \in Account
    <3>1. /\ conn \in Account \cup {None} /\ view \in {"lookup", "rate"}
          /\ page.kind = Kind(conn, view)
      BY DEF TypeOK
    <3> QED
      BY <2>1, <3>1, KindIsOfThePages
  <2> QED
    BY <1>7, <2>1, <2>2, AskKeepsLists DEF RateEffect
<1>8. CASE Submit
  BY <1>0, <1>8, BusyKeepsLists DEF Submit, PageState
<1>9. ASSUME NEW s \in signing, Signed(s) PROVE ListsInv'
  <2>1. /\ page'.kind = page.kind /\ page'.deployer = page.deployer
        /\ page'.rows = page.rows /\ page'.due = page.due
        /\ page'.raced = page.raced
    BY <1>0, <1>9 DEF Signed, PageState
  <2> QED
    BY <1>9, <2>1, BusyKeepsLists DEF Signed
<1>10. CASE UNCHANGED vars
  BY <1>10, BusyKeepsLists DEF vars
<1> QED
  BY <1>1, <1>2, <1>3, <1>4, <1>5, <1>6, <1>7, <1>8, <1>9, <1>10 DEF Next

-----------------------------------------------------------------------------

\* At first there is no page.
LEMMA Initially == Init => IInv
<1> SUFFICES ASSUME Init PROVE IInv
  OBVIOUS
<1>1. /\ page \in PageState /\ page.kind = "none" /\ page.rows = None
      /\ ~page.due
  BY MountedIsAPage DEF Init
<1>2. Kind(conn, view) = "none"
  BY DEF Init, Kind
<1>3. TypeOK
  BY <1>1, <1>2 DEF Init, TypeOK
<1>4. ListsInv
  BY <1>1 DEF Init, ListsInv, ListsTheirLeasesUnlessRaced
<1> QED
  BY <1>3, <1>4 DEF Init, IInv, PagesInv, SignedAsOneself

\* IInv is inductive.
LEMMA Inductive == Spec => []IInv
<1>1. IInv /\ [Next]_vars => IInv'
  BY StepKeepsTypes, SignedPart, ListsPart
     DEF IInv, PagesInv, SignedAsOneself, OfOneself
<1> QED
  BY Initially, <1>1, PTL DEF Spec

\* The pages keep to their types: in particular what is below the tabs is always
\* the page for the connected account and the tab (web/src/App.tsx:60-67).
THEOREM PagesTypeCorrect == Spec => []TypeOK
<1>1. IInv => TypeOK
  BY DEF IInv
<1> QED
  BY <1>1, Inductive, PTL

\* For any number of accounts and pending approvals, a rating is posted under
\* the address of the account that signs it (web/src/components/RateForm.tsx).
THEOREM PagesSignAsOneself == Spec => []SignedAsOneself
<1>1. IInv => SignedAsOneself
  BY DEF IInv, PagesInv
<1> QED
  BY <1>1, Inductive, PTL

\* Without a race of two answers the page lists the leases it says it lists
\* (web/src/pages/ProviderDashboard.tsx:14-26, Rate.tsx:14-18).
THEOREM PagesListTheirLeases == Spec => []ListsTheirLeasesUnlessRaced
<1>1. IInv => ListsTheirLeasesUnlessRaced
  BY DEF IInv, PagesInv, ListsInv
<1> QED
  BY <1>1, Inductive, PTL
=============================================================================
