----------------------------- MODULE RatingPages -----------------------------
(***************************************************************************)
(* web/src/App.tsx, components/WalletButton.tsx and RateForm.tsx,          *)
(* pages/ProviderDashboard.tsx and Rate.tsx: connecting a wallet, listing  *)
(* the leases it may rate, and signing a rating.  Approvals of a wallet,   *)
(* answers of the service and signatures come back in any order, after     *)
(* the user has gone on to something else.                                 *)
(***************************************************************************)
EXTENDS Integers, FiniteSets

CONSTANTS
  Account,      \* the accounts in the user's wallets
  Provider,     \* the provider of /info
  None,         \* no account, no address, no leases
  MaxPending,   \* bound: approvals a user asks for at a time
  MaxLoads      \* bound: lists of leases asked for at a time

ASSUME RatingPagesAssumption ==
  Provider \in Account /\ None \notin Account /\ {MaxPending, MaxLoads} \subseteq Nat

VARIABLES
  conn,       \* the connected account
  view,       \* the tab
  pending,    \* accounts whose approval is asked for
  page,       \* the component below the tabs
  loads,      \* the lists it has asked for, each by the owner of the leases
  signing,    \* ratings that wait for a wallet
  sent        \* ratings that were signed and posted

vars == <<conn, view, pending, page, loads, signing, sent>>

Kind(c, v) ==
  IF v = "lookup" \/ c = None THEN "none"
  ELSE IF c = Provider THEN "dashboard" ELSE "rate"

\* deployer is what was searched for, rows whose leases are listed; while there
\* are rows there is a form, which is busy from a click to its signature.
\* due: an effect on the connected address is still to run.  raced is auxiliary:
\* the list was asked for while another list was on its way.
Mounted(kind) ==
  [kind |-> kind, deployer |-> None, rows |-> None, busy |-> FALSE,
   due |-> kind = "rate", raced |-> FALSE]

PageState == [kind: {"none", "dashboard", "rate"},
              deployer: Account \cup {None}, rows: Account \cup {None},
              busy: BOOLEAN, due: BOOLEAN, raced: BOOLEAN]

Message == [role: {"provider", "deployer"}, provider: Account,
            deployer: Account]

Signing == [message: Message, by: Account, shown: BOOLEAN]

TypeOK ==
  /\ conn \in Account \cup {None} /\ view \in {"lookup", "rate"}
  /\ pending \subseteq Account
  /\ page \in PageState /\ page.kind = Kind(conn, view)
  /\ loads \subseteq Account
  /\ signing \subseteq Signing
  /\ sent \subseteq [message: Message, by: Account]

Init ==
  /\ conn = None /\ view = "lookup" /\ pending = {}
  /\ page = Mounted("none") /\ loads = {} /\ signing = {} /\ sent = {}

Detached == {[s EXCEPT !.shown = FALSE] : s \in signing}

\* The state of App changes.  React keeps a component of the same kind, with its
\* state and its requests, and runs its effect if the connected address is
\* another; otherwise it mounts a new one, and answers to the old one go
\* nowhere.
Render(c, v) ==
  /\ conn' = c /\ view' = v
  /\ IF Kind(c, v) = page.kind
     THEN /\ page' = [page EXCEPT !.due = @ \/ (c # conn /\ page.kind = "rate")]
          /\ UNCHANGED <<loads, signing>>
     ELSE /\ page' = Mounted(Kind(c, v))
          /\ loads' = {} /\ signing' = Detached
  /\ UNCHANGED sent

-----------------------------------------------------------------------------
\* App and WalletButton.

ClickConnect(a) ==
  /\ conn = None /\ Cardinality(pending) < MaxPending
  /\ pending' = pending \cup {a}
  /\ UNCHANGED <<conn, view, page, loads, signing, sent>>

Approve(a) ==
  a \in pending /\ pending' = pending \ {a} /\ Render(a, "rate")

Reject(a) ==
  /\ a \in pending /\ pending' = pending \ {a}
  /\ UNCHANGED <<conn, view, page, loads, signing, sent>>

Disconnect == conn # None /\ Render(None, "lookup") /\ UNCHANGED pending

Tab == /\ \E v \in {"lookup", "rate"} : v # view /\ (v = "rate" => conn # None)
                                        /\ Render(conn, v)
       /\ UNCHANGED pending

-----------------------------------------------------------------------------
\* The pages.

\* Variant: the rows stay until there are new ones.
Ask_keepsRows(deployer, owner) ==
  /\ Cardinality(loads \cup {owner}) <= MaxLoads
  /\ page' = [page EXCEPT !.deployer = deployer, !.busy = FALSE, !.due = FALSE,
                          !.raced = loads \ {owner} # {}]
  /\ loads' = loads \cup {owner} /\ signing' = Detached
  /\ UNCHANGED <<conn, view, pending, sent>>

\* The rows go, the form with them, and the leases of owner are asked for.
Ask(deployer, owner) ==
  /\ Cardinality(loads \cup {owner}) <= MaxLoads
  /\ page' = [page EXCEPT !.deployer = deployer, !.rows = None, !.busy = FALSE,
                          !.due = FALSE, !.raced = loads \ {owner} # {}]
  /\ loads' = loads \cup {owner} /\ signing' = Detached
  /\ UNCHANGED <<conn, view, pending, sent>>

\* Variant: the deployer is set once, by a form that has none yet.
Search_noDeployer(a) == page.kind = "dashboard" /\ Ask(page.deployer, a)

Search(a) == page.kind = "dashboard" /\ Ask(a, a)

RateEffect == page.due /\ Ask(None, conn)

\* An answer is shown, whichever request it is for; or it is an error.
Listed(owner) ==
  /\ owner \in loads /\ loads' = loads \ {owner}
  /\ page' \in {page, [page EXCEPT !.rows = owner]}
  /\ UNCHANGED <<conn, view, pending, signing, sent>>

\* What the form signs: its props, as they are at the click.
Form ==
  IF page.kind = "dashboard"
  THEN [role |-> "provider", provider |-> conn, deployer |-> page.deployer]
  ELSE [role |-> "deployer", provider |-> Provider, deployer |-> conn]

Submit ==
  /\ page.rows # None /\ ~page.busy
  /\ page' = [page EXCEPT !.busy = TRUE]
  /\ signing' = signing \cup {[message |-> Form, by |-> conn, shown |-> TRUE]}
  /\ UNCHANGED <<conn, view, pending, loads, sent>>

\* Variant: the wallet that signs is the one connected by now.
Signed_now(s) ==
  /\ s \in signing /\ signing' = signing \ {s} /\ conn # None
  /\ sent' = sent \cup {[message |-> s.message, by |-> conn]}
  /\ page' = [page EXCEPT !.busy = @ /\ ~s.shown]
  /\ UNCHANGED <<conn, view, pending, loads>>

\* The wallet of the click signs and the rating is posted, or the user refuses.
Signed(s) ==
  /\ s \in signing /\ signing' = signing \ {s}
  /\ sent' \in {sent, sent \cup {[message |-> s.message, by |-> s.by]}}
  /\ page' = [page EXCEPT !.busy = @ /\ ~s.shown]
  /\ UNCHANGED <<conn, view, pending, loads>>

Next ==
  \/ \E a \in Account :
       ClickConnect(a) \/ Approve(a) \/ Reject(a) \/ Search(a) \/ Listed(a)
  \/ Disconnect \/ Tab \/ RateEffect \/ Submit
  \/ \E s \in signing : Signed(s)

Spec == Init /\ [][Next]_vars

-----------------------------------------------------------------------------
\* Properties.

\* A rating is posted in the role and under the address of the account that
\* signs it, and between a deployer and this provider, however wallets were
\* connected and disconnected while it waited for its signature
\* (ProviderDashboard.tsx:53-59, Rate.tsx:30-36, wallet.ts:50-55).
SignedAsOneself ==
  \A s \in sent :
    /\ s.message.provider = Provider
    /\ s.by = IF s.message.role = "provider"
              THEN s.message.provider ELSE s.message.deployer

\* The leases listed are those of the deployer searched for, or of the connected
\* account once its effect has run, unless they were asked for while others were
\* on their way: ProviderDashboard.tsx:20 and Rate.tsx:14-16 show an answer
\* without asking whether it is still wanted, and a race of two answers is the
\* only way for the page to be wrong about whose leases it lists.
ListsTheirLeasesUnlessRaced ==
  page.rows # None /\ ~page.due /\ ~page.raced =>
    page.rows = IF page.kind = "dashboard" THEN page.deployer ELSE conn

\* ProviderDashboard.tsx:30-31: "Enter a deployer address to see your leases
\* with them": the leases listed are those of the deployer that was searched
\* for last.
LeasesWithThem ==
  page.kind = "dashboard" /\ page.rows # None => page.rows = page.deployer

\* docs/USAGE.md:258-260: "If your wallet is a deployer that leased from this
\* provider, the app finds your deployments automatically; pick one": the
\* leases listed, once the effect on the connected account has run, are its own.
YourDeployments ==
  page.kind = "rate" /\ page.rows # None /\ ~page.due => page.rows = conn
=============================================================================
