------------------------------ MODULE WebPages ------------------------------
(***************************************************************************)
(* How the pages of the frontend load what they show: an effect that runs  *)
(* on mount and when something it depends on changes, requests that are    *)
(* never cancelled, answers that arrive in any order, and the session the  *)
(* requests carry. One page is mounted at a time, next to WebSession.      *)
(***************************************************************************)
EXTENDS Naturals, FiniteSets, WebSession

CONSTANTS Queries,   \* values of a filter, a page number, a year or an id
          NoAnswer,  \* nothing shown yet
          NoPage,
          MaxAsks    \* bound on the requests under way at once

VARIABLES page,     \* the mounted page
          query,    \* its filter
          asked,    \* requests under way: [n, query, as]
          shown,    \* the answer on the screen
          loading,  \* the spinner
          failed,   \* the last request to end failed
          mixed     \* history: the last request was sent next to one with another query

pageVars == <<page, query, asked, shown, loading, failed, mixed>>
webVars == <<sessionPageVars, pageVars>>

-----------------------------------------------------------------------------
(* The pages: what the effect depends on, whether it waits for a wallet,    *)
(* whether the routes it calls ask for a session, whether each load turns   *)
(* the spinner on, whether a failure empties the page, and whether the page *)
(* asks again by itself (polls) or at a button (refreshes). Pages that load  *)
(* alike are one member of Pages.                                            *)

Page(deps, needs_wallet, private, spins, clears, again) ==
    [deps |-> deps, needs_wallet |-> needs_wallet, private |-> private,
     spins |-> spins, clears |-> clears, again |-> again]

CreditsPage == Page({"query"}, FALSE, FALSE, TRUE, FALSE, "no")
CreditDetailPage == Page({"query"}, FALSE, FALSE, FALSE, FALSE, "no")
ProvenanceGraph == Page({"query"}, FALSE, FALSE, FALSE, TRUE, "no")
CertificatePage == Page({"query"}, FALSE, FALSE, FALSE, FALSE, "no")
StatsCards == Page({}, FALSE, FALSE, FALSE, FALSE, "no")
RetirementsFeed == Page({}, FALSE, FALSE, FALSE, FALSE, "no")
FeaturedProjects == Page({}, FALSE, FALSE, FALSE, FALSE, "no")
BridgeLedger == Page({"query"}, FALSE, FALSE, TRUE, FALSE, "refreshes")
RegistryRoots == Page({}, FALSE, FALSE, TRUE, TRUE, "refreshes")
VerifierPage == Page({}, FALSE, FALSE, TRUE, FALSE, "refreshes")
MarketplaceOrderbook == Page({"query"}, FALSE, TRUE, FALSE, FALSE, "polls")
MarketplaceStats == Page({}, FALSE, TRUE, FALSE, FALSE, "no")
PriceChart == Page({"query"}, FALSE, TRUE, TRUE, TRUE, "no")
AdminPanel == Page({}, FALSE, TRUE, FALSE, FALSE, "no")
PortfolioPage == Page({"wallet"}, TRUE, TRUE, FALSE, TRUE, "no")
RetirePageCredits == Page({"wallet"}, TRUE, TRUE, FALSE, FALSE, "no")
WebhooksPage == Page({"connected"}, TRUE, TRUE, FALSE, FALSE, "refreshes")
ReportingPage == Page({"wallet", "query"}, TRUE, TRUE, TRUE, TRUE, "no")

Pages ==
    {CreditsPage, CreditDetailPage, ProvenanceGraph, CertificatePage, StatsCards,
     RetirementsFeed, FeaturedProjects, BridgeLedger, RegistryRoots, VerifierPage,
     MarketplaceOrderbook, MarketplaceStats, PriceChart, AdminPanel, PortfolioPage,
     RetirePageCredits, WebhooksPage, ReportingPage}

ASSUME PagesAssumption == NoPage \notin Pages

WebPagesInit ==
    /\ WebSessionInit
    /\ page = NoPage /\ query \in Queries /\ asked = {} /\ shown = NoAnswer
    /\ loading = FALSE /\ failed = FALSE /\ mixed = FALSE

-----------------------------------------------------------------------------
\* The request interceptor of api.ts puts the token of this moment on a request.
request(n, q, token) == [n |-> n, query |-> q, as |-> token]

\* The next free name for a request; none where MaxAsks are under way.
free_slots(pending) ==
    LET free == (1 .. MaxAsks) \ {r.n : r \in pending}
    IN {n \in free : \A m \in free : n <= m}

\* The effect runs, on page p with query q and wallet w, next to the requests
\* `pending`; a page that waits for a wallet stops its spinner instead.
load(p, q, w, pending, token, spinning) ==
    IF p.needs_wallet /\ w = NoKey
    THEN /\ loading' = FALSE
         /\ asked' = pending
         /\ UNCHANGED mixed
    ELSE /\ loading' = (spinning \/ p.spins)
         /\ \E n \in free_slots(pending) : asked' = pending \cup {request(n, q, token)}
         /\ mixed' = \E r \in pending : r.query # q

no_page ==
    /\ page' = NoPage /\ asked' = {} /\ shown' = NoAnswer /\ loading' = FALSE
    /\ failed' = FALSE /\ mixed' = FALSE
    /\ UNCHANGED query

\* Going to a page mounts it: useState(true) for the spinner, then the effect.
mount(p) ==
    /\ page = NoPage
    /\ page' = p
    /\ IF p.needs_wallet /\ wallet = NoKey
       THEN loading' = FALSE /\ asked' = {}
       ELSE loading' = TRUE /\ asked' = {request(1, query, auth_token)}
    /\ UNCHANGED <<query, shown, failed, mixed, sessionPageVars>>

\* Going elsewhere; what the page asked for is answered into nothing.
unmount ==
    /\ page # NoPage
    /\ no_page
    /\ UNCHANGED sessionPageVars

change_query_NotAsked(q) ==
    /\ page # NoPage /\ "query" \in page.deps /\ q # query
    /\ query' = q
    /\ UNCHANGED <<page, asked, shown, loading, failed, mixed, sessionPageVars>>

\* The user changes a filter, a page number, a year, or follows a link to
\* another id. The reporting page shows its selector to a connected wallet only
\* and not beside its spinner.
change_query(q) ==
    /\ page # NoPage /\ "query" \in page.deps /\ q # query
    /\ page.needs_wallet => wallet # NoKey /\ ~loading
    /\ query' = q
    /\ load(page, q, wallet, asked, auth_token, loading)
    /\ UNCHANGED <<page, shown, failed, sessionPageVars>>

\* setInterval asks again every 30 seconds, counted anew from each change of the
\* filter: by then every request for an earlier filter has ended, as axios
\* gives up after 15.
poll ==
    /\ page # NoPage /\ page.again = "polls"
    /\ \A r \in asked : r.query = query
    /\ load(page, query, wallet, asked, auth_token, loading)
    /\ UNCHANGED <<page, query, shown, failed, sessionPageVars>>

\* A refresh button, or the reload after a form of the page succeeded.
refresh ==
    /\ page # NoPage /\ page.again # "no"
    /\ load(page, query, wallet, asked, auth_token, loading)
    /\ UNCHANGED <<page, query, shown, failed, sessionPageVars>>

\* then: the answer is shown, whichever request it belongs to. A route that
\* asks for a session answers a request without one with an error.
answer(r) ==
    /\ r \in asked
    /\ page.private => r.as # NoKey
    /\ shown' = [query |-> r.query, as |-> r.as]
    /\ asked' = asked \ {r}
    /\ loading' = FALSE /\ failed' = FALSE
    /\ UNCHANGED <<page, query, mixed, sessionPageVars>>

\* catch and finally: the API answers with an error, or axios gives up.
fail(r) ==
    /\ r \in asked
    /\ shown' = IF page.clears THEN NoAnswer ELSE shown
    /\ asked' = asked \ {r}
    /\ loading' = FALSE /\ failed' = TRUE
    /\ UNCHANGED <<page, query, mixed, sessionPageVars>>

\* Whether the effect of page p runs again when the wallet changes from w to v.
effect_depends(p, w, v) ==
    \/ "wallet" \in p.deps /\ w # v
    \/ "connected" \in p.deps /\ (w = NoKey) # (v = NoKey)

\* A step of the session, and the effect it sets off.
session_step ==
    /\ SessionStep
    /\ IF page # NoPage /\ effect_depends(page, wallet, wallet')
       THEN /\ load(page, query, wallet', asked, auth_token', loading)
            /\ UNCHANGED <<page, query, shown, failed>>
       ELSE UNCHANGED pageVars

\* Loading the browser page again leaves no page mounted until mount.
reload_page == reload /\ no_page

WebPagesNext ==
    \/ session_step \/ reload_page
    \/ \E p \in Pages : mount(p)
    \/ unmount
    \/ \E q \in Queries : change_query(q)
    \/ poll \/ refresh
    \/ \E r \in asked : answer(r) \/ fail(r)

WebPagesSpec == WebPagesInit /\ [][WebPagesNext]_webVars

-----------------------------------------------------------------------------
\* A page that shows its spinner has a request under way: no order of wallet
\* changes, failures and answers leaves one spinning for good (the effects'
\* finally branches and their early returns).
SpinnerHasRequest == loading => asked # {}

\* When a page has nothing under way and its last request succeeded, it shows
\* what its filter says, unless requests for different filters overlapped; a
\* page that polls corrects itself even then (orderbook POLL_INTERVAL).
QuietPagesMatch ==
    asked = {} /\ ~failed /\ ~mixed /\ shown # NoAnswer => shown.query = query

=============================================================================
