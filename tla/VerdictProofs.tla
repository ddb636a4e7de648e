--------------------------- MODULE VerdictProofs ---------------------------
(***************************************************************************)
(* What the votes on a credit and its status say of each other, where the  *)
(* voting rule stays as the first init set it.                             *)
(***************************************************************************)
EXTENDS SettledRegistry, CreditRegistryProofs

\* A step of the registry whose administration changes lists but no configuration.
SettledStep == Step /\ (config # None => config' = config)

\* A status that the records, counted by verifier, account for.
Agrees(s, r) ==
    LET ayes == Cardinality(Approvers(r))
        nays == Cardinality(Rejecters(r))
        slack == config.verifier_quorum - config.verifier_threshold
    IN  /\ s = "Pending" => ayes < config.verifier_threshold /\ nays <= slack
        /\ s \in {"Active", "Retired"} => ayes = config.verifier_threshold /\ nays <= slack
        /\ s = "Rejected" => nays = slack + 1 /\ ayes < config.verifier_threshold

\* Nobody votes and no bridge mints before there is a rule, and the rule asks for at least one
\* approval and allows it.
TallyInv ==
    /\ config = None => /\ bridges = {}
                        /\ \A c \in CreditIds : status[c] \in {"Absent", "Pending"} /\ votes[c] = << >>
    /\ config # None => /\ 0 < config.verifier_threshold
                        /\ config.verifier_threshold <= config.verifier_quorum
                        /\ \A c \in CreditIds : issued(c) => Agrees(status[c], votes[c])

\* A sequence of records names finitely many verifiers.
LEMMA FiniteSides ==
    ASSUME NEW r \in Seq(Vote)
    PROVE  /\ IsFiniteSet(Approvers(r)) /\ Cardinality(Approvers(r)) \in Nat
           /\ IsFiniteSet(Rejecters(r)) /\ Cardinality(Rejecters(r)) \in Nat
  <1>1. IsFiniteSet(1..Len(r))
    <2>1. Len(r) \in Int /\ 1 \in Int
      OBVIOUS
    <2> QED
      BY <2>1, FS_Interval
  <1>2. IsFiniteSet({r[i].verifier : i \in 1..Len(r)})
    <2> DEFINE S == 1..Len(r)
               T == {r[i].verifier : i \in S}
               f == [i \in S |-> r[i].verifier]
    <2>1. f \in [S -> T] /\ \A x \in T : \E i \in S : f[i] = x
      OBVIOUS
    <2> HIDE DEF f, T
    <2>2. f \in Surjection(S, T)
      BY <2>1 DEF Surjection
    <2>3. IsFiniteSet(T)
      BY <1>1, <2>2, FS_Surjection DEF ExistsSurjection
    <2> QED
      BY <2>3 DEF T
  <1>3. Approvers(r) \subseteq {r[i].verifier : i \in 1..Len(r)}
        /\ Rejecters(r) \subseteq {r[i].verifier : i \in 1..Len(r)}
    BY DEF Approvers, Rejecters
  <1>4. IsFiniteSet(Approvers(r)) /\ IsFiniteSet(Rejecters(r))
    BY <1>2, <1>3, FS_Subset
  <1> QED
    BY <1>4, FS_CardinalityType

\* Without records nobody is on a side.
LEMMA NoSides ==
    Cardinality(Approvers(<< >>)) = 0 /\ Cardinality(Rejecters(<< >>)) = 0
  <1>1. Approvers(<< >>) = {} /\ Rejecters(<< >>) = {}
    BY DEF Approvers, Rejecters
  <1> QED
    BY <1>1, FS_EmptySet

\* A credit that no issuer's list names has no votes; the next id is one.
LEMMA NextIdIsFresh ==
    ASSUME RegistryTypeOK, Book, counter < MaxCredits
    PROVE  ~issued(counter + 1) /\ votes[counter + 1] = << >>
  <1>1. counter \in Nat /\ counter + 1 \in CreditIds
    BY NewId DEF RegistryTypeOK, Book
  <1>2. ~issued(counter + 1)
    BY <1>1 DEF Book, IdsUsedOnce, issued
  <1> QED
    BY <1>1, <1>2 DEF Book, UnmintedStaysWithIssuer

\* A vote for a credit mints it exactly when the approvers reach the threshold.
LEMMA ApprovalAgrees ==
    ASSUME RegistryTypeOK, RegistryTypeOK', OneVotePerVerifier', config # None, config' = config,
           NEW v \in Address, NEW c \in CreditIds, approve_and_mint(v, c),
           Agrees(status[c], votes[c])
    PROVE  Agrees(status[c], votes[c])'
  <1> DEFINE A == Approvers(votes[c])
             N == Rejecters(votes[c])
             t == config.verifier_threshold
             q == config.verifier_quorum
             w == votes'[c]
  <1>1. /\ votes[c] \in Seq(Vote) /\ w \in Seq(Vote)
        /\ w = Append(votes[c], [verifier |-> v, approved |-> TRUE])
        /\ status[c] = "Pending" /\ ~has_approval(v, c)
        /\ status'[c] = IF minted(w) THEN "Active" ELSE "Pending"
    BY DEF approve_and_mint, write_approval, may_vote, RegistryTypeOK
  <1>2. Approvers(w) = A \cup {v} /\ Rejecters(w) = N /\ v \notin A
    BY <1>1, ApprovalRecord, NoSideYet
  <1>3. IsFiniteSet(A) /\ Cardinality(A) \in Nat /\ Cardinality(N) \in Nat
    BY <1>1, FiniteSides
  <1>4. Cardinality(Approvers(w)) = Cardinality(A) + 1
    BY <1>2, <1>3, FS_AddElement
  <1>5. minted(w) <=> Cardinality(Approvers(w)) >= t
    <2>1. \A i, j \in 1..Len(w) : w[i].verifier = w[j].verifier => i = j
      BY DEF OneVotePerVerifier
    <2> QED
      BY <1>1, <2>1, CountIsApprovers DEF minted
  <1>6. t \in Nat /\ q \in Nat
    BY RegistryAssumption DEF RegistryTypeOK, Config, VoteCount
  <1>7. Cardinality(A) < t /\ Cardinality(N) <= q - t
    BY <1>1 DEF Agrees
  <1> HIDE DEF w, A, N, t, q
  <1>8. /\ status'[c] = "Pending" => Cardinality(Approvers(w)) < t /\ Cardinality(Rejecters(w)) <= q - t
        /\ status'[c] \in {"Active", "Retired"} =>
              Cardinality(Approvers(w)) = t /\ Cardinality(Rejecters(w)) <= q - t
        /\ status'[c] # "Rejected"
    BY <1>1, <1>2, <1>3, <1>4, <1>5, <1>6, <1>7
  <1> QED
    BY <1>8 DEF Agrees, w, t, q

\* A vote against a credit rejects it exactly when the rejecters exceed what the
\* quorum leaves beside the threshold.
LEMMA RejectionAgrees ==
    ASSUME RegistryTypeOK, RegistryTypeOK', OneVotePerVerifier', config # None, config' = config,
           NEW v \in Address, NEW c \in CreditIds, reject_credit(v, c),
           Agrees(status[c], votes[c])
    PROVE  Agrees(status[c], votes[c])'
  <1> DEFINE A == Approvers(votes[c])
             N == Rejecters(votes[c])
             t == config.verifier_threshold
             q == config.verifier_quorum
             w == votes'[c]
  <1>1. /\ votes[c] \in Seq(Vote) /\ w \in Seq(Vote)
        /\ w = Append(votes[c], [verifier |-> v, approved |-> FALSE])
        /\ status[c] = "Pending" /\ ~has_approval(v, c)
        /\ status'[c] = IF rejected(w) THEN "Rejected" ELSE "Pending"
    BY DEF reject_credit, write_approval, may_vote, RegistryTypeOK
  <1>2. Rejecters(w) = N \cup {v} /\ Approvers(w) = A /\ v \notin N
    BY <1>1, RejectionRecord, NoSideYet
  <1>3. IsFiniteSet(N) /\ Cardinality(A) \in Nat /\ Cardinality(N) \in Nat
    BY <1>1, FiniteSides
  <1>4. Cardinality(Rejecters(w)) = Cardinality(N) + 1
    BY <1>2, <1>3, FS_AddElement
  <1>5. rejected(w) <=> Cardinality(Rejecters(w)) > q - t
    <2>1. \A i, j \in 1..Len(w) : w[i].verifier = w[j].verifier => i = j
      BY DEF OneVotePerVerifier
    <2> QED
      BY <1>1, <2>1, CountIsRejecters DEF rejected
  <1>6. t \in Nat /\ q \in Nat
    BY RegistryAssumption DEF RegistryTypeOK, Config, VoteCount
  <1>7. Cardinality(A) < t /\ Cardinality(N) <= q - t
    BY <1>1 DEF Agrees
  <1> HIDE DEF w, A, N, t, q
  <1>8. /\ status'[c] = "Pending" => Cardinality(Approvers(w)) < t /\ Cardinality(Rejecters(w)) <= q - t
        /\ status'[c] \notin {"Active", "Retired"}
        /\ status'[c] = "Rejected" => Cardinality(Rejecters(w)) = q - t + 1 /\ Cardinality(Approvers(w)) < t
    BY <1>1, <1>2, <1>3, <1>4, <1>5, <1>6, <1>7
  <1> QED
    BY <1>8 DEF Agrees, w, t, q

\* The administration only sets the first rule, before anybody voted.
LEMMA AdminKeepsTally ==
    ASSUME RegistryTypeOK, RegistryTypeOK', TallyInv, config # None => config' = config,
           AdminNext(Address)
    PROVE  TallyInv'
  <1>1. UNCHANGED creditVars
    BY AdminFrame
  <1>2. UNCHANGED <<status, votes, issuerList>>
    BY <1>1 DEF creditVars
  <1>3. CASE config' = config
    <2>1. config = None => UNCHANGED bridges
      BY <1>3, RegistryAssumption, DefaultParamsAssumption
         DEF AdminNext, init, update_config, add_verifier, remove_verifier, add_bridge,
             remove_bridge, add_retirer, remove_retirer, require_admin
    <2> QED
      BY <1>2, <1>3, <2>1 DEF TallyInv, Agrees, issued
  <1>4. CASE config' # config
    <2>1. config = None
      BY <1>4
    <2>2. PICK a \in Admins, t \in VoteCount, q \in VoteCount : init(a, t, q)
      BY <1>4, <2>1 DEF AdminNext, update_config, add_verifier, remove_verifier, add_bridge,
         remove_bridge, add_retirer, remove_retirer
    <2>3. /\ t > 0 /\ t <= q /\ t \in Nat /\ q \in Nat
          /\ config'.verifier_threshold = t /\ config'.verifier_quorum = q
      BY <2>2, RegistryAssumption DEF init, VoteCount
    <2>4. config' # None
      BY <2>2, RegistryAssumption, DefaultParamsAssumption DEF init
    <2>5. \A c \in CreditIds : Agrees(status[c], votes[c])'
      <3> SUFFICES ASSUME NEW c \in CreditIds PROVE Agrees(status[c], votes[c])'
        OBVIOUS
      <3>1. status'[c] \in {"Absent", "Pending"} /\ votes'[c] = << >>
        BY <1>2, <2>1 DEF TallyInv
      <3> QED
        BY <2>3, <3>1, NoSides DEF Agrees
    <2> QED
      BY <2>3, <2>4, <2>5 DEF TallyInv
  <1> QED
    BY <1>3, <1>4

\* Every step keeps it.
LEMMA TallyStep ==
    ASSUME RegistryTypeOK, RegistryTypeOK', OneVotePerVerifier', Book, Book', TallyInv, SettledStep
    PROVE  TallyInv'
  <1> USE DEF SettledStep
  <1>0. CASE UNCHANGED registryVars
    BY <1>0 DEF registryVars, TallyInv, Agrees, issued
  <1>1. CASE AdminNext(Address)
    BY <1>1, AdminKeepsTally
  <1>2. ASSUME NEW a \in Address, NEW m \in Metadata, submit_credit(a, m) PROVE TallyInv'
    <2>0. PICK id \in CreditIds : id = counter + 1
      BY <1>2, NewId DEF submit_credit, store_credit, Book
    <2>1. /\ status' = [status EXCEPT ![id] = "Pending"]
          /\ votes' = votes /\ config' = config /\ bridges' = bridges
          /\ issuerList' = [issuerList EXCEPT ![a] = Append(@, id)]
          /\ votes[id] = << >>
      BY <1>2, <2>0, NextIdIsFresh DEF submit_credit, store_credit, adminVars
    <2>2. status'[id] = "Pending" /\ \A c \in CreditIds \ {id} : status'[c] = status[c]
      BY <2>1 DEF RegistryTypeOK
    <2>3. ASSUME NEW c \in CreditIds, c # id, issued(c)' PROVE issued(c)
      <3>0. PICK b \in Address : \E i \in 1..Len(issuerList'[b]) : issuerList'[b][i] = c
        BY <2>3 DEF issued
      <3>1. PICK i \in 1..Len(issuerList'[b]) : issuerList'[b][i] = c
        BY <3>0
      <3>2. issuerList[a] \in Seq(CreditIds) /\ issuerList'[a] = Append(issuerList[a], id)
        BY <2>1 DEF RegistryTypeOK
      <3>3. CASE b = a
        <4>1. Len(issuerList[a]) \in Nat /\ Len(issuerList'[a]) = Len(issuerList[a]) + 1
              /\ issuerList'[a][Len(issuerList[a]) + 1] = id
              /\ \A j \in 1..Len(issuerList[a]) : issuerList'[a][j] = issuerList[a][j]
          BY <3>2
        <4>2. i \in 1..Len(issuerList[a]) /\ issuerList[a][i] = c
          BY <2>3, <3>1, <3>3, <4>1
        <4> QED
          BY <4>2 DEF issued
      <3>4. CASE b # a
        BY <2>1, <3>1, <3>4 DEF issued, RegistryTypeOK
      <3> QED
        BY <3>3, <3>4
    <2>4. CASE config = None
      BY <2>1, <2>2, <2>4 DEF TallyInv
    <2>5. CASE config # None
      <3>1. Agrees(status[id], votes[id])'
        <4>1. config.verifier_threshold \in Nat /\ config.verifier_quorum \in Nat
          BY <2>5, RegistryAssumption DEF RegistryTypeOK, Config, VoteCount
        <4>2. 0 < config'.verifier_threshold
              /\ 0 <= config'.verifier_quorum - config'.verifier_threshold
          BY <2>1, <2>5, <4>1 DEF TallyInv
        <4>3. votes'[id] = << >> /\ status'[id] = "Pending"
          BY <2>1, <2>2
        <4> QED
          BY <4>2, <4>3, NoSides DEF Agrees
      <3>2. ASSUME NEW c \in CreditIds, c # id, issued(c)' PROVE Agrees(status[c], votes[c])'
        <4>1. Agrees(status[c], votes[c])
          BY <2>3, <2>5, <3>2 DEF TallyInv
        <4> QED
          BY <2>1, <2>2, <3>2, <4>1 DEF Agrees
      <3> QED
        BY <2>1, <2>5, <3>1, <3>2 DEF TallyInv
    <2> QED
      BY <2>4, <2>5
  <1>3. ASSUME NEW b \in Address, NEW to \in Address, NEW m \in Metadata, mint_bridged(b, to, m)
        PROVE  TallyInv'
    <2> DEFINE id == counter + 1
    <2>1. /\ id \in CreditIds /\ status' = [status EXCEPT ![id] = "Active"]
          /\ UNCHANGED <<votes, config, issuerList>>
          /\ ~issued(id)
      BY <1>3, NewId, NextIdIsFresh DEF mint_bridged, store_credit, adminVars, Book
    <2> HIDE DEF id
    <2>2. \A c \in CreditIds \ {id} : status'[c] = status[c]
      BY <2>1 DEF RegistryTypeOK
    <2>3. config # None
      BY <1>3 DEF mint_bridged, TallyInv
    <2> QED
      BY <2>1, <2>2, <2>3 DEF TallyInv, Agrees, issued
  <1>4. ASSUME NEW v \in Address, NEW c \in CreditIds, approve_and_mint(v, c) \/ reject_credit(v, c)
        PROVE  TallyInv'
    <2>1. /\ config # None /\ UNCHANGED <<config, issuerList>> /\ status[c] = "Pending"
          /\ \A d \in CreditIds \ {c} : status'[d] = status[d] /\ votes'[d] = votes[d]
      BY <1>4 DEF approve_and_mint, reject_credit, may_vote, write_approval, adminVars, RegistryTypeOK
    <2>2. issued(c)
      BY <2>1 DEF Book, UnmintedStaysWithIssuer, OwnerFindsCredit, exists, issued
    <2>3. Agrees(status[c], votes[c])
      BY <2>1, <2>2 DEF TallyInv
    <2>4. Agrees(status[c], votes[c])'
      BY <1>4, <2>1, <2>3, ApprovalAgrees, RejectionAgrees
    <2>5. ASSUME NEW d \in CreditIds, d # c, issued(d)' PROVE Agrees(status[d], votes[d])'
      BY <2>1, <2>5 DEF TallyInv, Agrees, issued
    <2> QED
      BY <2>1, <2>4, <2>5 DEF TallyInv
  <1>5. ASSUME NEW from \in Address, NEW to \in Address, NEW c \in CreditIds, transfer_credit(from, to, c)
        PROVE  TallyInv'
    BY <1>5 DEF transfer_credit, adminVars, TallyInv, Agrees, issued
  <1>6. ASSUME NEW k \in Address, NEW c \in CreditIds, mark_retired(k, c)
        PROVE  TallyInv'
    <2>1. /\ status[c] = "Active" /\ UNCHANGED <<votes, config, issuerList>>
          /\ status'[c] = "Retired" /\ \A d \in CreditIds \ {c} : status'[d] = status[d]
      BY <1>6 DEF mark_retired, adminVars, RegistryTypeOK
    <2>2. config # None
      BY <2>1 DEF TallyInv
    <2> QED
      BY <2>1, <2>2 DEF TallyInv, Agrees, issued
  <1> QED
    BY <1>0, <1>1, <1>2, <1>3, <1>4, <1>5, <1>6 DEF Step, RegistryNext, CreditNext

\* While the rule stays, a credit that was submitted waits exactly as long as the
\* votes on it decide nothing, and its verdict is the one they give: the two
\* verdicts exclude each other and no vote is taken after one.
THEOREM VotesDecide == SettledSpec => []SettledVerdicts
  <1>1. SettledInit => RegistryInit /\ (settled => TallyInv)
    BY DEF SettledInit, RegistryInit, TallyInv
  <1>2. SettledSpec => RegistrySpec
    <2>1. [SettledNext]_settledVars => [RegistryNext(Address, Address)]_registryVars
      BY DEF SettledNext, settledVars
    <2> QED
      BY <1>1, <2>1, PTL DEF SettledSpec, RegistrySpec
  <1>3. ASSUME RegistryTypeOK, RegistryTypeOK', OneVotePerVerifier', Book, Book',
               settled => TallyInv, [SettledNext]_settledVars
        PROVE  settled' => TallyInv'
    <2> SUFFICES ASSUME settled' PROVE TallyInv'
      OBVIOUS
    <2>1. settled /\ SettledStep
      BY <1>3 DEF SettledNext, settledVars, SettledStep, Step, registryVars, adminVars
    <2> QED
      BY <1>3, <2>1, TallyStep
  <1>4. (settled => TallyInv) => SettledVerdicts
    BY DEF TallyInv, SettledVerdicts, VerdictMatchesTally, Agrees
  <1> QED
    BY <1>1, <1>2, <1>3, <1>4, TypeCorrect, VoteOnce, BookInOrder, PTL DEF SettledSpec

=============================================================================
