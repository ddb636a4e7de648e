--------------------------- MODULE SorobanClient ---------------------------
(***************************************************************************)
(* The requests the API is working on, and how each settles its contract   *)
(* call (src/api/src/stellar/soroban-client.ts): the transaction is built  *)
(* from the key's account sequence, sent, and its receipt polled until a   *)
(* timeout.  The API runs one request in each slot; every await of a       *)
(* handler ends an action.  The RPC node and the network are external:     *)
(* they take a transaction as it is sent, and drop one at any time, for    *)
(* its fee, its time bounds, its sequence number or a call that panics.    *)
(***************************************************************************)
CONSTANTS Slots, NoRequest

VARIABLE request  \* per slot, NoRequest or [op, wallet, arg, key, at, val]

\* Where a request stands.  "orphan": the caller was told that the call timed
\* out, and the transaction is still on its way.
Stages == {"check", "send", "pending", "orphan", "applied", "insert", "tally", "update"}

idle(s) == request[s] = NoRequest
at(s, stage) == ~idle(s) /\ request[s].at = stage
goes(s, stage) == request' = [request EXCEPT ![s].at = stage]
goes_with(s, stage, v) == request' = [request EXCEPT ![s].at = stage, ![s].val = v]

\* The request is answered, with a result or an error.
ends(s) == request' = [request EXCEPT ![s] = NoRequest]

\* A request q arrives whose contract call is to be signed with key.
begins(s, q, key) ==
    /\ idle(s)
    /\ request' = [request EXCEPT ![s] = [op |-> q.op, wallet |-> q.wallet, arg |-> q.arg,
                                          key |-> key, at |-> "check", val |-> 0]]

in_flight(s) == ~idle(s) /\ request[s].at \in {"pending", "orphan"}

-----------------------------------------------------------------------------
\* getAccount, build, sign and sendTransaction.
invoke(s) == at(s, "send") /\ goes(s, "pending")

\* The transaction of s enters a ledger with the result v.  The other ones in
\* flight that the same key signed carry the same sequence number and die.
enters_ledger(s, v) ==
    /\ in_flight(s)
    /\ request' = [t \in Slots |->
          IF t = s THEN IF at(s, "orphan") THEN NoRequest
                        ELSE [request[s] EXCEPT !.at = "applied", !.val = v]
          ELSE IF in_flight(t) /\ request[t].key = request[s].key THEN NoRequest
          ELSE request[t]]

\* The transaction is refused, fails or expires; a waiting caller gets an error.
transaction_lost(s) == in_flight(s) /\ ends(s)

\* Mutant: a wait that ran out counts as settled.
wait_ends_Settled(s, stage) ==
    \/ at(s, "applied") /\ goes(s, stage)
    \/ at(s, "pending") /\ goes(s, stage)

\* Mutant: the wait has no end of its own.
wait_ends_Never(s, stage) == at(s, "applied") /\ goes(s, stage)

\* waitForReceipt: the receipt arrives and the handler goes on, or the time is
\* up before it is seen and the handler throws, applied or not.
wait_ends(s, stage) ==
    \/ at(s, "applied") /\ goes(s, stage)
    \/ at(s, "applied") /\ ends(s)
    \/ at(s, "pending") /\ goes(s, "orphan")

\* The process ends: its handlers are gone, what they sent is not.
handlers_end == request' = [s \in Slots |->
    IF in_flight(s) THEN [request[s] EXCEPT !.at = "orphan"] ELSE NoRequest]

\* A statement of the database fails and the handler throws.
statement_fails(s) == ~idle(s) /\ request[s].at \in {"check", "insert", "tally", "update"} /\ ends(s)

=============================================================================
