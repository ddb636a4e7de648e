---------------------------- MODULE MC_Services ----------------------------
(***************************************************************************)
(* The parts of CarbonVeritas that share no state with the others, in      *)
(* small instances for TLC: a behaviour is one of one part, the rest keep  *)
(* their initial states.                                                   *)
(***************************************************************************)
EXTENDS VerifierStake, RevenueSplit, Webhooks, Sessions, RateLimit,
        WebPages, RetirePage, ConfigForm, PagedLists, Reports, Gateway

CONSTANTS u1, u2, v1, v2, k1, k2, h1, h2, e1, e2, x1, x2, a1, a2, q1, q2, c1, c2

MCPayments == {-1, 600}

VARIABLE part

Parts == {"stake", "split", "webhooks", "sessions", "rate",
          "wallet", "web", "retire", "forms", "lists", "reports", "gateway"}

servicesVars == <<part, stakeVars, splitVars, webhookVars, sessionVars, rateVars,
                  webVars, retireVars, formVars, listVars, booked, gate>>

\* The browser's session is taken alone with two accounts in the extension, and
\* next to the pages with one. One initial state of the parts that have several is
\* enough beside another.
OneStart ==
    /\ part # "forms" => chainConfig = form
    /\ active = NoKey /\ query = q1

ServicesInit ==
    /\ part \in Parts
    /\ StakeInit /\ SplitInit /\ WebhooksInit /\ SessionsInit /\ RateInit
    /\ WebPagesInit /\ RetirePageInit /\ ConfigFormInit /\ PagedListsInit /\ ReportsInit
    /\ GatewayInit
    /\ OneStart

ServicesNext ==
    /\ UNCHANGED part
    /\ IF part = "stake" THEN StakeNext ELSE UNCHANGED stakeVars
    /\ IF part = "split" THEN SplitNext ELSE UNCHANGED splitVars
    /\ IF part = "webhooks" THEN WebhooksNext ELSE UNCHANGED webhookVars
    /\ IF part = "sessions" THEN SessionsNext ELSE UNCHANGED sessionVars
    /\ IF part = "rate" THEN RateNext ELSE UNCHANGED rateVars
    /\ IF part = "wallet" THEN WebSessionNext /\ UNCHANGED pageVars
       ELSE IF part = "web" THEN WebPagesNext /\ active' # a2 ELSE UNCHANGED webVars
    /\ IF part = "retire" THEN RetirePageNext ELSE UNCHANGED retireVars
    /\ IF part = "forms" THEN ConfigFormNext ELSE UNCHANGED formVars
    /\ IF part = "lists" THEN PagedListsNext ELSE UNCHANGED listVars
    /\ IF part = "reports" THEN ReportsNext ELSE UNCHANGED booked
    /\ IF part = "gateway" THEN GatewayNext ELSE UNCHANGED gate

ServicesSpec ==
    /\ ServicesInit /\ [][ServicesNext]_servicesVars
    /\ \A e \in Emitters : WF_webhookVars(EmitStep(e))

=============================================================================
