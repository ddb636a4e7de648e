--------------------------- MODULE ApiCreditsProofs ---------------------------
(***************************************************************************)
(* What the rows of issuance and voting say of the registry, for any users *)
(* and requests, any number of handlers side by side, and a network that   *)
(* drops and delays transactions as it likes.                              *)
(***************************************************************************)
EXTENDS ApiCredits, CreditRegistryProofs

ApiStep == [ApiCreditsNext]_apiCreditsVars

Asked == [op : {q.op : q \in Requests}, wallet : Accounts, arg : {q.arg : q \in Requests},
          key : {q.key : q \in Requests}, at : Stages, val : Nat]

\* Type invariant of the rows and of the requests under way.
ApiTypeOK ==
    /\ request \in [Slots -> Asked \cup {NoRequest}]
    /\ creditRow \in [CreditIds -> CreditRow \cup {None}]
    /\ approvalRow \in [Ballot -> Nat]
    /\ \A s \in Slots : ~idle(s) =>
          /\ request[s].op = "issue" => request[s].arg \in Metadata
          /\ request[s].op \in {"approve", "reject"} =>
                /\ request[s].arg \in CreditIds
                /\ request[s].at # "check" => creditRow[request[s].arg] # None

-----------------------------------------------------------------------------
(* The registry under the API. *)

\* Whatever handlers, administrators and others do is, for the registry, one of
\* its own steps.
LEMMA RegistryKept ==
    ASSUME ApiTypeOK, ApiStep
    PROVE  Step
  <1> USE RegistryAssumption, ApiCreditsAssumption DEF Address
  <1>1. CASE UNCHANGED registryVars
    BY <1>1 DEF Step
  <1>2. ASSUME NEW s \in Slots, transaction(s)
        PROVE  Step
    <2> DEFINE r == request[s]
    <2>1. ~idle(s) /\ r \in Asked /\ r.wallet \in Accounts
      BY <1>2 DEF transaction, in_flight, idle, ApiTypeOK, Asked
    <2>2. CASE submitCredit(r)
      BY <2>1, <2>2 DEF submitCredit, ApiTypeOK, Step, RegistryNext, CreditNext
    <2>3. CASE approveAndMint(r)
      BY <2>1, <2>3 DEF approveAndMint, ApiTypeOK, Step, RegistryNext, CreditNext
    <2>4. CASE rejectCredit(r)
      BY <2>1, <2>4 DEF rejectCredit, ApiTypeOK, Step, RegistryNext, CreditNext
    <2>5. CASE registerVerifier(r)
      BY <1>1, <2>5 DEF registerVerifier
    <2> QED
      BY <1>2, <2>2, <2>3, <2>4, <2>5 DEF transaction
  <1>3. CASE admin_call
    <2>1. ASSUME NEW t \in Thresholds, updateProtocolConfig(t)
          PROVE  Step
      BY <2>1, DefaultParamsAssumption DEF updateProtocolConfig, Step, RegistryNext, AdminNext
    <2>2. ASSUME addVerifier(VERIFIER_KEY) \/ removeVerifier(VERIFIER_KEY)
          PROVE  Step
      BY <2>2 DEF addVerifier, removeVerifier, add_verifier, remove_verifier, require_admin,
                  Step, RegistryNext, AdminNext
    <2> QED
      BY <1>3, <2>1, <2>2 DEF admin_call
  <1>4. CASE direct_call
    BY <1>4 DEF direct_call, CreditNext, Step, RegistryNext
  <1> QED
    BY <1>1, <1>2, <1>3, <1>4
       DEF ApiStep, ApiCreditsNext, apiCreditsVars, asks, HandlerStep, fails, checks, settles,
           issueCredit, recordsDecision, register

-----------------------------------------------------------------------------
(* Types. *)

\* The same request, further on.
SameAsk(t) ==
    /\ request'[t].op = request[t].op
    /\ request'[t].wallet = request[t].wallet
    /\ request'[t].arg = request[t].arg

\* A slot that goes on keeps what was asked, and the other slots stay.
LEMMA Going ==
    ASSUME ApiTypeOK, NEW s \in Slots, ~idle(s), NEW stage \in Stages, goes(s, stage)
    PROVE  /\ SameAsk(s) /\ request'[s].at = stage /\ request'[s].val = request[s].val
           /\ \A t \in Slots \ {s} : request'[t] = request[t]
           /\ request' \in [Slots -> Asked \cup {NoRequest}]
  <1>1. request[s] \in Asked /\ request \in [Slots -> Asked \cup {NoRequest}]
    BY DEF ApiTypeOK, idle
  <1> QED
    BY <1>1 DEF goes, Asked, SameAsk

\* The same, with a new value.
LEMMA GoingWith ==
    ASSUME ApiTypeOK, NEW s \in Slots, ~idle(s), NEW stage \in Stages, NEW v \in Nat,
           goes_with(s, stage, v)
    PROVE  /\ SameAsk(s) /\ request'[s].at = stage /\ request'[s].val = v
           /\ \A t \in Slots \ {s} : request'[t] = request[t]
           /\ request' \in [Slots -> Asked \cup {NoRequest}]
  <1>1. request[s] \in Asked /\ request \in [Slots -> Asked \cup {NoRequest}]
    BY DEF ApiTypeOK, idle
  <1> QED
    BY <1>1 DEF goes_with, Asked, SameAsk

\* A new request.
Fresh(t) == \E q \in Requests :
    request'[t].op = q.op /\ request'[t].arg = q.arg /\ request'[t].at = "check"

\* How a step may leave a request that is still under way: untouched, new, on
\* its way to the ledger or into it, or further in the issuance or the decision.
Moves(t) ==
    \/ request'[t] = request[t]
    \/ Fresh(t)
    \/ /\ ~idle(t) /\ SameAsk(t)
       /\ \/ request[t].op \notin {"approve", "reject"}
          \/ request[t].at = "check" /\ request'[t].at = "send" /\ passes(request[t])
          \/ request[t].at # "check" /\ request'[t].at \in {"pending", "orphan"}
          \/ /\ transaction(t) /\ request[t].at = "pending" /\ request'[t].at = "applied"
             /\ request'[t].val = receipt(request[t])
          \/ /\ request[t].at = "applied" /\ request'[t].at = "insert"
             /\ request'[t].val = request[t].val
          \/ /\ recordsDecision(t) /\ request[t].at = "insert" /\ request'[t].at = "tally"
             /\ request'[t].val = request[t].val
          \/ /\ request[t].at = "tally" /\ request'[t].at = "update"
             /\ request'[t].val = request[t].val /\ verdict(request[t])

\* What the steps of the handlers do to the requests.
LEMMA RequestMoves ==
    ASSUME ApiTypeOK, ApiStep
    PROVE  /\ request' \in [Slots -> Asked \cup {NoRequest}]
           /\ \A t \in Slots : request'[t] # NoRequest => Moves(t)
  <1> DEFINE Fine == /\ request' \in [Slots -> Asked \cup {NoRequest}]
                     /\ \A t \in Slots : request'[t] # NoRequest => Moves(t)
  <1>0. request \in [Slots -> Asked \cup {NoRequest}]
    BY DEF ApiTypeOK
  <1>1. CASE UNCHANGED request
    BY <1>0, <1>1 DEF Moves
  <1>2. ASSUME NEW s \in Slots, ends(s)
        PROVE  Fine
    BY <1>0, <1>2 DEF ends, Moves
  <1>3. ASSUME NEW s \in Slots, asks(s)
        PROVE  Fine
    <2>1. PICK q \in Requests : begins(s, q, q.key)
      BY <1>3 DEF asks
    <2> DEFINE new == [op |-> q.op, wallet |-> q.wallet, arg |-> q.arg,
                       key |-> q.key, at |-> "check", val |-> 0]
    <2>2. new \in Asked /\ new.at = "check" /\ new.op = q.op /\ new.arg = q.arg
      BY ApiCreditsAssumption DEF Asked, Stages
    <2>3. request' = [request EXCEPT ![s] = new]
      BY <2>1 DEF begins
    <2> HIDE DEF new
    <2> QED
      BY <1>0, <2>2, <2>3 DEF Moves, Fresh
  <1>4. ASSUME NEW s \in Slots, checks(s)
        PROVE  Fine
    <2>1. CASE passes(request[s]) /\ goes(s, "send")
      BY <1>4, <2>1, Going DEF checks, at, Stages, Moves
    <2> QED
      BY <1>2, <1>4, <2>1 DEF checks
  <1>5. ASSUME NEW s \in Slots, settles(s)
        PROVE  Fine
    <2> DEFINE stage == IF request[s].op = "issue" THEN "tally" ELSE "insert"
    <2>1. CASE at(s, "send") /\ goes(s, "pending")
      BY <2>1, Going DEF at, Stages, Moves
    <2>2. CASE at(s, "applied") /\ goes(s, stage)
      <3>1. CASE request[s].op = "issue"
        <4>1. goes(s, "tally")
          BY <2>2, <3>1
        <4> QED
          BY <2>2, <3>1, <4>1, Going DEF at, Stages, Moves
      <3>2. CASE request[s].op # "issue"
        <4>1. goes(s, "insert")
          BY <2>2, <3>2
        <4> QED
          BY <2>2, <4>1, Going DEF at, Stages, Moves
      <3> QED
        BY <3>1, <3>2
    <2>3. CASE at(s, "pending") /\ goes(s, "orphan")
      BY <2>3, Going DEF at, Stages, Moves
    <2> QED
      BY <1>2, <1>5, <2>1, <2>2, <2>3 DEF settles, invoke, wait_ends
  <1>6. ASSUME NEW s \in Slots, issueCredit(s)
        PROVE  Fine
    <2>1. ASSUME NEW n \in 1 .. MaxCredits + 1, goes_with(s, "insert", n)
          PROVE  Fine
      <3>1. n \in Nat /\ ~idle(s)
        BY <1>6, RegistryAssumption DEF issueCredit
      <3> QED
        BY <1>6, <2>1, <3>1, GoingWith DEF issueCredit, Stages, Moves, SameAsk
    <2> QED
      BY <1>2, <1>6, <2>1 DEF issueCredit
  <1>7. ASSUME NEW s \in Slots, recordsDecision(s)
        PROVE  Fine
    <2>1. CASE at(s, "insert") /\ goes(s, "tally")
      BY <1>7, <2>1, Going DEF at, Stages, Moves
    <2>2. CASE at(s, "tally") /\ verdict(request[s]) /\ goes(s, "update")
      BY <2>2, Going DEF at, Stages, Moves
    <2> QED
      BY <1>2, <1>7, <2>1, <2>2 DEF recordsDecision
  <1>8. ASSUME NEW s \in Slots, transaction(s)
        PROVE  Fine
    <2>1. ~idle(s) /\ request[s] \in Asked /\ request[s].at \in {"pending", "orphan"}
      BY <1>8 DEF transaction, in_flight, idle, ApiTypeOK
    <2> DEFINE v == receipt(request[s])
               new == [request[s] EXCEPT !.at = "applied", !.val = v]
    <2>2. v \in Nat
      BY DEF receipt
    <2> HIDE DEF v
    <2>3. /\ new \in Asked /\ new.at = "applied" /\ new.val = v
          /\ new.op = request[s].op /\ new.wallet = request[s].wallet /\ new.arg = request[s].arg
      BY <2>1, <2>2 DEF Asked, Stages
    <2>4. request'[s] = IF at(s, "orphan") THEN NoRequest ELSE new
      BY <1>8 DEF transaction, enters_ledger, v
    <2>5. \A t \in Slots \ {s} : request'[t] \in {request[t], NoRequest}
      BY <1>8 DEF transaction, enters_ledger
    <2>6. request' = [t \in Slots |-> request'[t]]
      BY <1>8 DEF transaction, enters_ledger
    <2> HIDE DEF new
    <2>7. request' \in [Slots -> Asked \cup {NoRequest}]
      BY <1>0, <2>3, <2>4, <2>5, <2>6
    <2>8. request'[s] # NoRequest => Moves(s)
      BY <1>8, <2>1, <2>3, <2>4 DEF Moves, SameAsk, at, v
    <2>9. \A t \in Slots \ {s} : request'[t] # NoRequest => Moves(t)
      BY <2>5 DEF Moves
    <2> QED
      BY <2>7, <2>8, <2>9
  <1> QED
    BY <1>1, <1>2, <1>3, <1>4, <1>5, <1>6, <1>7, <1>8
       DEF ApiStep, ApiCreditsNext, apiCreditsVars, HandlerStep, register, fails,
           transaction_lost, statement_fails, admin_call, direct_call

\* The status a decision writes.
decided(op) == IF op = "approve" THEN "ACTIVE" ELSE "REJECTED"

\* A credit's row is created as PENDING or gets the status of a decision that
\* reached its last statement; it is never removed.
LEMMA CreditRowMoves ==
    ASSUME ApiTypeOK, ApiStep
    PROVE  /\ creditRow' \in [CreditIds -> CreditRow \cup {None}]
           /\ \A c \in CreditIds : creditRow[c] # None => creditRow'[c] # None
           /\ \A c \in CreditIds :
                 creditRow'[c] # None /\ creditRow'[c].status = "ACTIVE" =>
                    \/ creditRow[c] # None /\ creditRow[c].status = "ACTIVE"
                    \/ \E s \in Slots : at(s, "update") /\ request[s].op = "approve"
                                       /\ request[s].arg = c
  <1> DEFINE Fine ==
        /\ creditRow' \in [CreditIds -> CreditRow \cup {None}]
        /\ \A c \in CreditIds : creditRow[c] # None => creditRow'[c] # None
        /\ \A c \in CreditIds :
              creditRow'[c] # None /\ creditRow'[c].status = "ACTIVE" =>
                 \/ creditRow[c] # None /\ creditRow[c].status = "ACTIVE"
                 \/ \E s \in Slots : at(s, "update") /\ request[s].op = "approve"
                                    /\ request[s].arg = c
  <1>0. creditRow \in [CreditIds -> CreditRow \cup {None}] /\ None \notin CreditRow
    BY ApiCreditsAssumption DEF ApiTypeOK
  <1>1. CASE UNCHANGED creditRow
    BY <1>0, <1>1
  <1>2. ASSUME NEW s \in Slots, issueCredit(s)
        PROVE  Fine
    <2>1. CASE creditRow[request[s].val] = None /\ creditRow' = [creditRow EXCEPT
                  ![request[s].val] = [status |-> "PENDING", project |-> request[s].arg.project_id]]
      <3> DEFINE new == [status |-> "PENDING", project |-> request[s].arg.project_id]
      <3>1. request[s].arg \in Metadata
        BY <1>2 DEF issueCredit, ApiTypeOK
      <3>2. new \in CreditRow /\ new.status = "PENDING"
        BY <3>1 DEF CreditRow
      <3> HIDE DEF new
      <3>3. creditRow' = [creditRow EXCEPT ![request[s].val] = new]
        BY <2>1 DEF new
      <3>4. \A c \in CreditIds : creditRow'[c] = creditRow[c] \/ creditRow'[c] = new
        BY <1>0, <3>3
      <3>5. \A c \in CreditIds : creditRow[c] # None => creditRow'[c] = creditRow[c]
        BY <1>0, <2>1, <3>3
      <3>6. creditRow' \in [CreditIds -> CreditRow \cup {None}]
        BY <1>0, <3>2, <3>3
      <3> QED
        BY <3>2, <3>4, <3>5, <3>6
    <2> QED
      BY <1>1, <1>2, <2>1 DEF issueCredit
  <1>3. ASSUME NEW s \in Slots, recordsDecision(s)
        PROVE  Fine
    <2>1. CASE /\ at(s, "update")
               /\ creditRow' = [creditRow EXCEPT ![request[s].arg].status =
                                   IF request[s].op = "approve" THEN "ACTIVE" ELSE "REJECTED"]
      <3> DEFINE c == request[s].arg
                 new == [creditRow[c] EXCEPT !.status = decided(request[s].op)]
      <3>1. c \in CreditIds /\ creditRow[c] \in CreditRow
        BY <1>0, <1>3, <2>1 DEF recordsDecision, ApiTypeOK, at
      <3>2. /\ new \in CreditRow
            /\ new.status = "ACTIVE" => request[s].op = "approve"
        BY <3>1 DEF CreditRow, decided
      <3>3. creditRow' = [creditRow EXCEPT ![c] = new]
        BY <2>1 DEF decided
      <3> HIDE DEF new
      <3> QED
        BY <1>0, <2>1, <3>1, <3>2, <3>3
    <2> QED
      BY <1>1, <1>3, <2>1 DEF recordsDecision
  <1> QED
    BY <1>1, <1>2, <1>3
       DEF ApiStep, ApiCreditsNext, apiCreditsVars, rowVars, asks, HandlerStep, checks, settles,
           register, transaction, fails, admin_call, direct_call

ballot_of(s) == [credit |-> request[s].arg, verifier |-> request[s].wallet,
                 approved |-> request[s].op = "approve"]

\* Only the insert of a decision adds an approval row, one for its ballot.
LEMMA ApprovalRowMoves ==
    ASSUME ApiTypeOK, ApiStep
    PROVE  \/ UNCHANGED approvalRow
           \/ \E s \in Slots :
                 /\ recordsDecision(s) /\ at(s, "insert") /\ goes(s, "tally")
                 /\ request[s].op \in {"approve", "reject"} /\ ballot_of(s) \in Ballot
                 /\ approvalRow' = [approvalRow EXCEPT ![ballot_of(s)] = @ + 1]
  <1>1. ASSUME NEW s \in Slots, recordsDecision(s)
        PROVE  \/ UNCHANGED approvalRow
               \/ /\ at(s, "insert") /\ goes(s, "tally")
                  /\ request[s].op \in {"approve", "reject"} /\ ballot_of(s) \in Ballot
                  /\ approvalRow' = [approvalRow EXCEPT ![ballot_of(s)] = @ + 1]
    <2>1. /\ request[s].op \in {"approve", "reject"}
          /\ request[s].arg \in CreditIds /\ request[s].wallet \in Accounts
      BY <1>1 DEF recordsDecision, ApiTypeOK, idle, Asked
    <2> QED
      BY <1>1, <2>1 DEF recordsDecision, ballot_of, Ballot
  <1> QED
    BY <1>1
       DEF ApiStep, ApiCreditsNext, apiCreditsVars, rowVars, asks, HandlerStep, checks, settles,
           issueCredit, register, transaction, fails, admin_call, direct_call

\* The rows and the requests keep their types.
LEMMA ApiTypeStep == ApiTypeOK /\ ApiStep => ApiTypeOK'
  <1> SUFFICES ASSUME ApiTypeOK, ApiStep PROVE ApiTypeOK'
    OBVIOUS
  <1>1. approvalRow' \in [Ballot -> Nat]
    BY ApprovalRowMoves DEF ApiTypeOK
  <1>2. ASSUME NEW t \in Slots, request'[t] # NoRequest
        PROVE  /\ request'[t].op = "issue" => request'[t].arg \in Metadata
               /\ request'[t].op \in {"approve", "reject"} =>
                     /\ request'[t].arg \in CreditIds
                     /\ request'[t].at # "check" => creditRow'[request'[t].arg] # None
    <2>1. Moves(t)
      BY <1>2, RequestMoves
    <2>2. \A c \in CreditIds : creditRow[c] # None => creditRow'[c] # None
      BY CreditRowMoves
    <2>3. CASE request'[t] = request[t]
      BY <1>2, <2>2, <2>3 DEF ApiTypeOK, idle
    <2>4. CASE Fresh(t)
      BY <2>4, ApiCreditsAssumption DEF Fresh
    <2>5. CASE ~idle(t) /\ SameAsk(t) /\ request[t].at # "check"
      BY <2>2, <2>5 DEF ApiTypeOK, SameAsk
    <2>6. CASE ~idle(t) /\ SameAsk(t) /\ request[t].op \notin {"approve", "reject"}
      BY <2>6 DEF ApiTypeOK, SameAsk
    <2>7. CASE ~idle(t) /\ SameAsk(t) /\ request[t].op \in {"approve", "reject"}
                /\ passes(request[t])
      <3>1. creditRow[request[t].arg] # None
        BY <2>7 DEF passes, may_decide
      <3> QED
        BY <2>2, <2>7, <3>1 DEF ApiTypeOK, SameAsk
    <2> QED
      BY <2>1, <2>3, <2>4, <2>5, <2>6, <2>7 DEF Moves
  <1> QED
    BY <1>1, <1>2, RequestMoves, CreditRowMoves DEF ApiTypeOK, idle

\* The registry starts with its types and its book in order.
LEMMA ApiStarts ==
    ASSUME ApiCreditsInit
    PROVE  RegistryTypeOK /\ Book /\ ApiTypeOK
  <1> USE RegistryAssumption, ApiCreditsAssumption, DefaultParamsAssumption
  <1>1. config \in Config
    BY DEF ApiCreditsInit, Config
  <1>2. RegistryTypeOK
    BY <1>1 DEF ApiCreditsInit, RegistryTypeOK, CreditIds
  <1>3. Book
    BY DEF ApiCreditsInit, Book, IdsUsedOnce, OwnerFindsCredit, TokenIffMinted,
           UnmintedStaysWithIssuer, exists, issued, CreditIds
  <1>4. ApiTypeOK
    BY DEF ApiCreditsInit, ApiTypeOK, idle
  <1> QED
    BY <1>2, <1>3, <1>4

\* Along every behaviour the registry behaves like one that is called directly.
LEMMA ApiRegistry == ApiCreditsSpec => [](ApiTypeOK /\ RegistryTypeOK /\ Book)
  <1>1. ApiTypeOK /\ RegistryTypeOK /\ Book /\ ApiStep
           => ApiTypeOK' /\ RegistryTypeOK' /\ Book'
    <2> SUFFICES ASSUME ApiTypeOK, RegistryTypeOK, Book, ApiStep
                 PROVE  ApiTypeOK' /\ RegistryTypeOK' /\ Book'
      OBVIOUS
    <2>1. Step
      BY RegistryKept
    <2>2. RegistryTypeOK'
      BY <2>1, AdminType, CreditType DEF Step, RegistryNext, RegistryTypeOK, registryVars
    <2> QED
      BY <2>1, <2>2, BookStep, ApiTypeStep
  <1> QED
    BY <1>1, ApiStarts, PTL DEF ApiCreditsSpec, ApiStep

-----------------------------------------------------------------------------
(* Every approval row is a vote on the chain. *)

OnChainVote(b) == \E i \in 1..Len(votes[b.credit]) :
    votes[b.credit][i] = [verifier |-> b.verifier, approved |-> b.approved]

\* The registry never takes a vote back.
LEMMA VoteStays ==
    ASSUME RegistryTypeOK, Step, NEW b \in Ballot, OnChainVote(b)
    PROVE  OnChainVote(b)'
  <1>1. CASE UNCHANGED votes
    BY <1>1 DEF OnChainVote
  <1>2. CASE ~ UNCHANGED votes
    <2>1. PICK v \in Address, c \in CreditIds, yes \in BOOLEAN :
              may_vote(v, c) /\ write_approval(v, c, yes)
      BY <1>2, VotesFrame
    <2>2. PICK i \in 1..Len(votes[b.credit]) :
              votes[b.credit][i] = [verifier |-> b.verifier, approved |-> b.approved]
      BY DEF OnChainVote
    <2>3. b.credit \in CreditIds /\ votes[b.credit] \in Seq(Vote)
      BY DEF Ballot, RegistryTypeOK
    <2> DEFINE new == [verifier |-> v, approved |-> yes]
    <2>4. votes'[b.credit] \in {votes[b.credit], Append(votes[b.credit], new)}
      BY <2>1, <2>3 DEF write_approval, RegistryTypeOK
    <2> HIDE DEF new
    <2>5. i \in 1..Len(votes'[b.credit]) /\ votes'[b.credit][i] = votes[b.credit][i]
      BY <2>2, <2>3, <2>4
    <2> QED
      BY <2>2, <2>5 DEF OnChainVote
  <1> QED
    BY <1>1, <1>2

\* A decision's transaction records a vote that was not there.
LEMMA VoteArrives ==
    ASSUME ApiTypeOK, RegistryTypeOK, NEW s \in Slots, transaction(s),
           request[s].op \in {"approve", "reject"}, NEW b \in Ballot, b = ballot_of(s)
    PROVE  ~OnChainVote(b) /\ OnChainVote(b)'
  <1> DEFINE r == request[s]
             new == [verifier |-> r.wallet, approved |-> r.op = "approve"]
  <1>1. r.arg \in CreditIds /\ r.wallet \in Accounts
    BY DEF transaction, in_flight, idle, ApiTypeOK, Asked
  <1>2. may_vote(r.wallet, r.arg) /\ write_approval(r.wallet, r.arg, r.op = "approve")
    BY DEF transaction, submitCredit, approveAndMint, rejectCredit, registerVerifier,
           approve_and_mint, reject_credit
  <1>3. b.credit = r.arg /\ [verifier |-> b.verifier, approved |-> b.approved] = new
        /\ b.verifier = r.wallet
    BY DEF ballot_of
  <1>4. ~OnChainVote(b)
    BY <1>2, <1>3 DEF OnChainVote, may_vote, has_approval
  <1>5. votes[r.arg] \in Seq(Vote) /\ votes'[r.arg] = Append(votes[r.arg], new)
    BY <1>1, <1>2 DEF write_approval, RegistryTypeOK
  <1> HIDE DEF new
  <1>6. Len(votes[r.arg]) + 1 \in 1..Len(votes'[r.arg])
        /\ votes'[r.arg][Len(votes[r.arg]) + 1] = new
    BY <1>5
  <1>7. OnChainVote(b)'
    BY <1>3, <1>6 DEF OnChainVote
  <1> QED
    BY <1>4, <1>7

\* A decision whose vote is on the chain and has no row yet.
RowIsDue(s) == /\ ~idle(s) /\ request[s].op \in {"approve", "reject"}
               /\ request[s].at \in {"applied", "insert"}

\* Approval rows are votes on the chain; a row that is due is one too, is not
\* there yet, and is due to one request.
VoteInv ==
    /\ \A b \in Ballot : approvalRow[b] > 0 => approvalRow[b] = 1 /\ OnChainVote(b)
    /\ \A s \in Slots : RowIsDue(s) =>
          OnChainVote(ballot_of(s)) /\ approvalRow[ballot_of(s)] = 0
    /\ \A s, t \in Slots : RowIsDue(s) /\ RowIsDue(t) /\ ballot_of(s) = ballot_of(t) => s = t

\* A row becomes due only in the transaction of its decision.
LEMMA DueMoves ==
    ASSUME ApiTypeOK, ApiStep, NEW t \in Slots, RowIsDue(t)'
    PROVE  /\ ballot_of(t)' = ballot_of(t) /\ ballot_of(t) \in Ballot
           /\ RowIsDue(t) \/ (transaction(t) /\ request[t].op \in {"approve", "reject"})
  <1>1. /\ request'[t] # NoRequest /\ request'[t].op \in {"approve", "reject"}
        /\ request'[t].at \in {"applied", "insert"}
    BY DEF RowIsDue, idle
  <1>2. Moves(t)
    BY <1>1, RequestMoves
  <1>3. /\ ~idle(t) /\ SameAsk(t)
        /\ RowIsDue(t) \/ (transaction(t) /\ request[t].op \in {"approve", "reject"})
    BY <1>1, <1>2 DEF Moves, Fresh, SameAsk, RowIsDue, idle
  <1>4. ballot_of(t)' = ballot_of(t)
    BY <1>3 DEF SameAsk, ballot_of
  <1>5. ballot_of(t) \in Ballot
    BY <1>3 DEF ballot_of, Ballot, ApiTypeOK, SameAsk, idle, Asked, RowIsDue
  <1> QED
    BY <1>3, <1>4, <1>5

\* What is due already has its ballot in Ballot.
LEMMA DueBallot ==
    ASSUME ApiTypeOK, NEW t \in Slots, RowIsDue(t)
    PROVE  ballot_of(t) \in Ballot
  BY DEF ApiTypeOK, RowIsDue, idle, Asked, ballot_of, Ballot

\* The database's check may be stale when the transaction goes out; what keeps
\* the rows true is that the registry takes a verifier's vote only once.
LEMMA VoteInvStep == ApiTypeOK /\ RegistryTypeOK /\ VoteInv /\ ApiStep => VoteInv'
  <1> SUFFICES ASSUME ApiTypeOK, RegistryTypeOK, VoteInv, ApiStep PROVE VoteInv'
    OBVIOUS
  <1>1. \A b \in Ballot : OnChainVote(b) => OnChainVote(b)'
    BY RegistryKept, VoteStays
  <1>2. approvalRow \in [Ballot -> Nat]
    BY DEF ApiTypeOK
  <1>3. CASE \E s \in Slots :
                /\ recordsDecision(s) /\ at(s, "insert") /\ goes(s, "tally")
                /\ request[s].op \in {"approve", "reject"} /\ ballot_of(s) \in Ballot
                /\ approvalRow' = [approvalRow EXCEPT ![ballot_of(s)] = @ + 1]
    <2>1. PICK s \in Slots :
                /\ recordsDecision(s) /\ at(s, "insert") /\ goes(s, "tally")
                /\ request[s].op \in {"approve", "reject"} /\ ballot_of(s) \in Ballot
                /\ approvalRow' = [approvalRow EXCEPT ![ballot_of(s)] = @ + 1]
      BY <1>3
    <2> DEFINE b == ballot_of(s)
    <2>2. RowIsDue(s)
      BY <2>1 DEF RowIsDue, at, idle
    <2>3. OnChainVote(b) /\ approvalRow[b] = 0 /\ b \in Ballot
      BY <2>1, <2>2 DEF VoteInv
    <2>4. /\ approvalRow'[b] = 1
          /\ \A d \in Ballot \ {b} : approvalRow'[d] = approvalRow[d]
      BY <1>2, <2>1, <2>3
    <2>5. request'[s].at = "tally"
      BY <2>1, Going DEF at, Stages
    <2>6. ASSUME NEW t \in Slots, RowIsDue(t)'
          PROVE  /\ ballot_of(t)' = ballot_of(t) /\ ballot_of(t) \in Ballot \ {b}
                 /\ RowIsDue(t)
      <3>1. t # s
        BY <2>5, <2>6 DEF RowIsDue
      <3>2. request'[t] = request[t]
        BY <3>1, <2>1, Going DEF at, Stages
      <3>3. RowIsDue(t)
        BY <2>6, <3>2 DEF RowIsDue, idle
      <3>4. ballot_of(t) # b
        BY <2>2, <3>1, <3>3 DEF VoteInv
      <3> QED
        BY <2>6, <3>3, <3>4, DueMoves
    <2> HIDE DEF b
    <2>7. \A d \in Ballot : approvalRow'[d] > 0 => approvalRow'[d] = 1 /\ OnChainVote(d)'
      BY <1>1, <2>3, <2>4 DEF VoteInv
    <2>8. \A t \in Slots : RowIsDue(t)' =>
             OnChainVote(ballot_of(t))' /\ approvalRow'[ballot_of(t)'] = 0
      <3> SUFFICES ASSUME NEW t \in Slots, RowIsDue(t)'
                   PROVE  OnChainVote(ballot_of(t))' /\ approvalRow'[ballot_of(t)'] = 0
        OBVIOUS
      <3>1. PICK d \in Ballot \ {b} : d = ballot_of(t) /\ d = ballot_of(t)' /\ RowIsDue(t)
        BY <2>6
      <3>2. OnChainVote(d) /\ approvalRow[d] = 0
        BY <3>1 DEF VoteInv
      <3>3. OnChainVote(d)' /\ approvalRow'[d] = 0
        BY <1>1, <2>4, <3>2
      <3> QED
        BY <3>1, <3>3 DEF OnChainVote
    <2>9. \A t, u \in Slots :
             RowIsDue(t)' /\ RowIsDue(u)' /\ ballot_of(t)' = ballot_of(u)' => t = u
      BY <2>6 DEF VoteInv
    <2> QED
      BY <2>7, <2>8, <2>9 DEF VoteInv
  <1>4. CASE UNCHANGED approvalRow
    <2>1. \A d \in Ballot : approvalRow'[d] > 0 => approvalRow'[d] = 1 /\ OnChainVote(d)'
      BY <1>1, <1>4 DEF VoteInv
    <2>2. ASSUME NEW t \in Slots, RowIsDue(t)', ~RowIsDue(t)
          PROVE  /\ transaction(t) /\ ~OnChainVote(ballot_of(t))
                 /\ OnChainVote(ballot_of(t))' /\ approvalRow[ballot_of(t)] = 0
      <3>1. PICK d \in Ballot : d = ballot_of(t) /\ d = ballot_of(t)'
        BY <2>2, DueMoves
      <3>2. transaction(t) /\ ~OnChainVote(d) /\ OnChainVote(d)'
        BY <2>2, <3>1, DueMoves, VoteArrives
      <3>3. approvalRow[d] = 0
        BY <1>2, <3>2 DEF VoteInv
      <3> QED
        BY <3>1, <3>2, <3>3 DEF OnChainVote
    <2>3. \A t \in Slots : RowIsDue(t)' =>
             OnChainVote(ballot_of(t))' /\ approvalRow'[ballot_of(t)'] = 0
      <3> SUFFICES ASSUME NEW t \in Slots, RowIsDue(t)'
                   PROVE  OnChainVote(ballot_of(t))' /\ approvalRow'[ballot_of(t)'] = 0
        OBVIOUS
      <3>1. PICK d \in Ballot : d = ballot_of(t) /\ d = ballot_of(t)'
        BY DueMoves
      <3>2. CASE RowIsDue(t)
        <4>1. OnChainVote(d) /\ approvalRow[d] = 0
          BY <3>1, <3>2 DEF VoteInv
        <4>2. OnChainVote(d)'
          BY <1>1, <4>1
        <4> QED
          BY <1>4, <3>1, <4>1, <4>2 DEF OnChainVote
      <3> QED
        BY <1>4, <2>2, <3>1, <3>2
    <2>4. ASSUME NEW t \in Slots, NEW u \in Slots, RowIsDue(t)', RowIsDue(u)',
                 ballot_of(t)' = ballot_of(u)'
          PROVE  t = u
      <3>1. ballot_of(t) = ballot_of(u)
        BY <2>4, DueMoves
      <3>2. CASE RowIsDue(t) /\ RowIsDue(u)
        BY <3>1, <3>2 DEF VoteInv
      <3>3. CASE ~RowIsDue(t) /\ RowIsDue(u)
        <4>1. ~OnChainVote(ballot_of(t)) /\ OnChainVote(ballot_of(u))
          BY <2>2, <2>4, <3>3 DEF VoteInv
        <4> QED
          BY <3>1, <4>1 DEF OnChainVote
      <3>4. CASE RowIsDue(t) /\ ~RowIsDue(u)
        <4>1. OnChainVote(ballot_of(t)) /\ ~OnChainVote(ballot_of(u))
          BY <2>2, <2>4, <3>4 DEF VoteInv
        <4> QED
          BY <3>1, <4>1 DEF OnChainVote
      <3>5. CASE ~RowIsDue(t) /\ ~RowIsDue(u)
        <4>1. transaction(t) /\ transaction(u)
          BY <2>2, <2>4, <3>5
        <4>2. request'[t] # NoRequest /\ request'[t].at \in {"applied", "insert"}
          BY <2>4 DEF RowIsDue, idle
        <4>3. transaction(t) /\ request[u].at \in {"pending", "orphan"}
          BY <4>1 DEF transaction, in_flight
        <4> QED
          BY <2>4, <3>5, <4>1, <4>2 DEF transaction, enters_ledger, in_flight, RowIsDue, idle, at
      <3> QED
        BY <3>2, <3>3, <3>4, <3>5
    <2> QED
      BY <2>1, <2>3, <2>4 DEF VoteInv
  <1> QED
    BY <1>3, <1>4, ApprovalRowMoves

\* A row of the Approval table is never an echo: no lost answer, no repeated
\* request and no pair of requests side by side makes a second row or a row
\* without its vote in the registry.
THEOREM RowsAreVotes == ApiCreditsSpec => []VoteRowsOnChain
  <1>1. ApiCreditsInit => VoteInv
    BY DEF ApiCreditsInit, VoteInv, RowIsDue, idle
  <1>2. VoteInv => VoteRowsOnChain
    BY DEF VoteInv, VoteRowsOnChain, OnChainVote
  <1> QED
    BY <1>1, <1>2, ApiRegistry, VoteInvStep, PTL DEF ApiCreditsSpec, ApiStep

-----------------------------------------------------------------------------
(* An ACTIVE row is a minted credit. *)

Minted(c) == token[c] = c /\ status[c] \in {"Active", "Retired"}

\* Past its transaction, an approval that brought back a token; one that
\* reached its last statement did.
MintInv ==
    /\ \A c \in CreditIds : creditRow[c] # None /\ creditRow[c].status = "ACTIVE" => Minted(c)
    /\ \A s \in Slots : ~idle(s) /\ request[s].op = "approve" =>
          /\ request[s].at \in {"applied", "insert", "tally", "update"} /\ request[s].val = 1
                => Minted(request[s].arg)
          /\ request[s].at = "update" => request[s].val = 1

\* Only a retirement changes the status of a minted credit.
LEMMA MintedStays ==
    ASSUME RegistryTypeOK, RegistryTypeOK', Book, Step, NEW c \in CreditIds, Minted(c)
    PROVE  Minted(c)'
  <1>0. TokenIffMinted'
    BY BookStep DEF Book
  <1> SUFFICES status'[c] \in {"Active", "Retired"}
    BY <1>0 DEF Minted, TokenIffMinted
  <1>1. status[c] \in {"Active", "Retired"}
    BY DEF Minted
  <1>2. CASE UNCHANGED registryVars \/ AdminNext(Address)
    BY <1>1, <1>2, AdminFrame DEF registryVars, creditVars
  <1>3. ASSUME NEW s \in {"Pending", "Active"}, NEW tok \in Nat, NEW m \in Metadata,
               NEW to \in Address, store_credit(s, tok, m, to)
        PROVE  status'[c] \in {"Active", "Retired"}
    <2>1. counter + 1 \in CreditIds /\ status[counter + 1] = "Absent"
      BY <1>3, NewId DEF store_credit, Book
    <2> QED
      BY <1>1, <1>3, <2>1 DEF store_credit, RegistryTypeOK
  <1>4. ASSUME NEW v \in Address, NEW d \in CreditIds,
               approve_and_mint(v, d) \/ reject_credit(v, d)
        PROVE  status'[c] \in {"Active", "Retired"}
    BY <1>1, <1>4 DEF approve_and_mint, reject_credit, may_vote, RegistryTypeOK
  <1>5. ASSUME NEW from \in Address, NEW to \in Address, NEW d \in CreditIds,
               transfer_credit(from, to, d)
        PROVE  status'[c] \in {"Active", "Retired"}
    BY <1>1, <1>5 DEF transfer_credit
  <1>6. ASSUME NEW k \in Address, NEW d \in CreditIds, mark_retired(k, d)
        PROVE  status'[c] \in {"Active", "Retired"}
    BY <1>1, <1>6 DEF mark_retired, RegistryTypeOK
  <1>7. CASE \E a \in Address, m \in Metadata : submit_credit(a, m)
    BY <1>3, <1>7 DEF submit_credit
  <1>8. CASE \E b, to \in Address, m \in Metadata : mint_bridged(b, to, m)
    <2>1. counter + 1 \in Nat
      BY RegistryAssumption DEF RegistryTypeOK
    <2> QED
      BY <1>3, <1>8, <2>1 DEF mint_bridged
  <1> QED
    BY <1>2, <1>4, <1>5, <1>6, <1>7, <1>8 DEF Step, RegistryNext, CreditNext

\* The token an approval brings back is that of its credit.
LEMMA ReceiptIsMinted ==
    ASSUME ApiTypeOK, RegistryTypeOK, NEW s \in Slots, transaction(s),
           request[s].op = "approve", receipt(request[s]) = 1,
           NEW c \in CreditIds, c = request[s].arg
    PROVE  Minted(c)'
  <1>1. approve_and_mint(request[s].wallet, c)
    BY DEF transaction, submitCredit, approveAndMint, rejectCredit, registerVerifier
  <1>2. status'[c] = "Active" /\ status[c] = "Pending"
    BY <1>1 DEF receipt, approve_and_mint, may_vote
  <1>3. token'[c] = c
    BY <1>1, <1>2 DEF approve_and_mint, RegistryTypeOK
  <1> QED
    BY <1>2, <1>3 DEF Minted

\* Approvals carry what the ledger told them from step to step.
LEMMA MintInvStep ==
    ApiTypeOK /\ RegistryTypeOK /\ RegistryTypeOK' /\ Book /\ MintInv /\ ApiStep => MintInv'
  <1> SUFFICES ASSUME ApiTypeOK, RegistryTypeOK, RegistryTypeOK', Book, MintInv, ApiStep
               PROVE  MintInv'
    OBVIOUS
  <1> DEFINE Minted2(c) == token'[c] = c /\ status'[c] \in {"Active", "Retired"}
  <1>1. \A c \in CreditIds : Minted(c) => Minted2(c)
    BY RegistryKept, MintedStays DEF Minted
  <1>2. ASSUME NEW c \in CreditIds, creditRow'[c] # None, creditRow'[c].status = "ACTIVE"
        PROVE  Minted2(c)
    <2>1. CASE creditRow[c] # None /\ creditRow[c].status = "ACTIVE"
      BY <1>1, <2>1 DEF MintInv
    <2>2. CASE \E s \in Slots : at(s, "update") /\ request[s].op = "approve"
                             /\ request[s].arg = c
      BY <1>1, <2>2 DEF MintInv, at
    <2> QED
      BY <1>2, <2>1, <2>2, CreditRowMoves
  <1>3. ASSUME NEW t \in Slots, request'[t] # NoRequest, request'[t].op = "approve"
        PROVE  /\ request'[t].at \in {"applied", "insert", "tally", "update"}
                    /\ request'[t].val = 1 => Minted2(request'[t].arg)
               /\ request'[t].at = "update" => request'[t].val = 1
    <2>1. Moves(t)
      BY <1>3, RequestMoves
    <2>2. CASE request'[t] = request[t]
      <3>1. ~idle(t) /\ request[t].op = "approve" /\ request[t].arg \in CreditIds
        BY <1>3, <2>2 DEF idle, ApiTypeOK
      <3> QED
        BY <1>1, <2>2, <3>1 DEF MintInv, Minted
    <2>3. CASE Fresh(t)
      BY <2>3 DEF Fresh
    <2>4. CASE ~idle(t) /\ SameAsk(t) /\ ~Fresh(t) /\ request'[t] # request[t]
      <3>1. /\ request[t].op = "approve" /\ request[t].arg \in CreditIds
            /\ request'[t].arg = request[t].arg
        BY <1>3, <2>4 DEF SameAsk, ApiTypeOK
      <3>2. CASE request'[t].at \in {"send", "pending", "orphan"}
        BY <1>3, <3>2
      <3>3. CASE transaction(t) /\ request'[t].at = "applied"
                 /\ request'[t].val = receipt(request[t])
        BY <1>3, <2>4, <3>1, <3>3, ReceiptIsMinted DEF Minted
      <3>4. CASE /\ request[t].at \in {"applied", "insert"}
                 /\ request'[t].at \in {"insert", "tally"}
                 /\ request'[t].val = request[t].val
        BY <1>1, <2>4, <3>1, <3>4 DEF MintInv, Minted
      <3>5. CASE /\ request[t].at = "tally" /\ request'[t].at = "update"
                 /\ request'[t].val = request[t].val /\ verdict(request[t])
        BY <1>1, <2>4, <3>1, <3>5 DEF MintInv, Minted, verdict
      <3> QED
        BY <2>1, <2>4, <3>1, <3>2, <3>3, <3>4, <3>5 DEF Moves
    <2> QED
      BY <2>1, <2>2, <2>3, <2>4 DEF Moves
  <1> QED
    BY <1>2, <1>3 DEF MintInv, idle, Minted

\* The API never calls a credit ACTIVE that the registry has not minted, even
\* when its own threshold is lower than the registry's or an administrator
\* changes the registry's while the approval is under way.
THEOREM ActiveRowsAreMinted == ApiCreditsSpec => []ActiveRowIsMinted
  <1>1. ApiCreditsInit => MintInv
    BY DEF ApiCreditsInit, MintInv, idle
  <1>2. MintInv => ActiveRowIsMinted
    BY DEF MintInv, ActiveRowIsMinted, Minted
  <1> QED
    BY <1>1, <1>2, ApiRegistry, MintInvStep, PTL DEF ApiCreditsSpec, ApiStep

=============================================================================
