------------------------------ MODULE Gateway ------------------------------
(***************************************************************************)
(* A request on its way through the API: Express finds the route, the      *)
(* guards run in the order in which AppModule provides them, the pipe      *)
(* validates, and the handler runs. What the rate limiter decides is in    *)
(* RateLimit, what a handler does in the modules of the services.          *)
(***************************************************************************)
EXTENDS Clients

CONSTANT NoRequest

\* Who calls: nobody in particular, someone whose session has expired or whose
\* user is gone, a user, an administrator (a user named in ADMIN_WALLETS).
Callers == {"visitor", "expired", "user", "admin"}

SignedIn == {"user", "admin"}

VARIABLE gate  \* NoRequest or the request: the call, the caller, and how far it is

-----------------------------------------------------------------------------
moves(to) == gate' = [gate EXCEPT !.at = to]

\* The callers' clients bring a session to every call, once they have one.
send(call, who) ==
    /\ gate = NoRequest
    /\ gate' = [call |-> call, who |-> who, at |-> "express"]

route ==
    /\ gate # NoRequest /\ gate.at = "express"
    /\ moves(IF candidates(gate.call) = {} THEN "no_route" ELSE "limiter")

RateLimitGuard ==
    /\ gate # NoRequest /\ gate.at = "limiter"
    /\ \E to \in {"session", "too_many"} : moves(to)

JwtAuthGuard ==
    /\ gate # NoRequest /\ gate.at = "session"
    /\ moves(IF first_route(gate.call).admits = "anyone" \/ gate.who \in SignedIn
             THEN "administrator" ELSE "unauthorized")

\* Mutant: a session is enough.
AdminGuard_AnySession ==
    /\ gate # NoRequest /\ gate.at = "administrator"
    /\ moves("pipe")

AdminGuard ==
    /\ gate # NoRequest /\ gate.at = "administrator"
    /\ moves(IF first_route(gate.call).admits = "admin" /\ gate.who # "admin"
             THEN "forbidden" ELSE "pipe")

ValidationPipe ==
    /\ gate # NoRequest /\ gate.at = "pipe"
    /\ moves(IF validates(first_route(gate.call).dto, gate.call.fields, gate.call.typed)
             THEN "handled" ELSE "bad_request")

Ends == {"no_route", "too_many", "unauthorized", "forbidden", "bad_request", "handled"}

respond ==
    /\ gate # NoRequest /\ gate.at \in Ends
    /\ gate' = NoRequest

GatewayInit == gate = NoRequest

GatewayNext ==
    \/ \E call \in Calls, who \in Callers : send(call, who)
    \/ route \/ RateLimitGuard \/ JwtAuthGuard \/ AdminGuard \/ ValidationPipe \/ respond

GatewaySpec == GatewayInit /\ [][GatewayNext]_gate

-----------------------------------------------------------------------------
(* Properties. *)

ended == gate # NoRequest /\ gate.at \in Ends

MayCall(who, admits) ==
    CASE admits = "anyone" -> TRUE
      [] admits = "session" -> who \in SignedIn
      [] admits = "admin" -> who = "admin"

\* What no caller is served: methods of the SDK without a route, the list of
\* owned certificates behind the route of one certificate, a heartbeat without
\* the verifier's id, a registration without a stake, a page number from the CLI.
Unserved ==
    {c \in Calls :
        \/ c.means \in {"transfer", "getOffer", "getRecord", "getOwnedCertificates", "heartbeat"}
        \/ c.means = "register" /\ c.by = "frontend"
        \/ ~c.typed}

\* Clients and controllers are written in four packages and meet only here: but
\* for those calls, each reaches the handler that its client means, with fields
\* the handler's DTO takes, exactly when its caller may run that handler.
CallsAreServed ==
    ended /\ gate.at # "too_many" =>
        ((gate.at = "handled" /\ first_route(gate.call).handler = gate.call.means)
            <=> /\ gate.call \notin Unserved
                /\ MayCall(gate.who, route_of(gate.call.means).admits))

\* A handler that reads the session's user never runs without one, and what
\* governs the protocol is run by administrators only, on whichever path a
\* request comes.
Governing == {"updateProtocolConfig", "addVerifier", "removeVerifier", "updateRegistryRoot", "configure"}

HandlersMayRun ==
    ended /\ gate.at = "handled" =>
        LET r == first_route(gate.call) IN
            /\ r.reads_user => gate.who \in SignedIn
            /\ r.handler \in Governing => gate.who = "admin"

=============================================================================
