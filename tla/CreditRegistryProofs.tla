------------------------ MODULE CreditRegistryProofs ------------------------
(***************************************************************************)
(* Theorems about the credit registry, for any accounts, contracts,        *)
(* verifiers and bounds.                                                   *)
(***************************************************************************)
EXTENDS CreditRegistry, FiniteSetTheorems, TLAPS

Step == [RegistryNext(Address, Address)]_registryVars

-----------------------------------------------------------------------------
(* Type correctness. *)

\* Creating a credit, by submission or by a bridge, keeps the types of what
\* both ways write.
LEMMA StoreCreditType ==
    ASSUME RegistryTypeOK, NEW s \in Status, NEW tok \in CreditIds \cup {0},
           NEW m \in Metadata, NEW to \in Address, store_credit(s, tok, m, to)
    PROVE  /\ counter' \in 0..MaxCredits
           /\ status' \in [CreditIds -> Status \cup {"Absent"}]
           /\ token' \in [CreditIds -> {0} \cup CreditIds]
           /\ metadata' \in [CreditIds -> Metadata \cup {None}]
           /\ owner' \in [CreditIds -> Address \cup {None}]
           /\ ownerList' \in [Address -> SUBSET CreditIds]
           /\ counter + 1 \in CreditIds
  <1>1. counter + 1 \in CreditIds /\ counter' \in 0..MaxCredits
    BY RegistryAssumption DEF RegistryTypeOK, store_credit, CreditIds
  <1> QED
    BY <1>1 DEF RegistryTypeOK, store_credit

\* The functions of the verifiers, the bridges and the retirers, and the two
\* setters of the configuration, keep the type invariant.
LEMMA AdminType == RegistryTypeOK /\ AdminNext(Address) => RegistryTypeOK'
  <1> SUFFICES ASSUME RegistryTypeOK, AdminNext(Address) PROVE RegistryTypeOK'
    OBVIOUS
  <1>1. CASE \E a \in Admins, t, q \in VoteCount : init(a, t, q)
    BY <1>1, DefaultParamsAssumption DEF RegistryTypeOK, init, Config, creditVars
  <1>2. CASE \E a \in Address, t, q \in VoteCount, p \in Params : update_config(a, t, q, p)
    BY <1>2 DEF RegistryTypeOK, update_config, Config, creditVars
  <1>3. CASE \E v \in Voters : add_verifier(Address, v) \/ remove_verifier(Address, v)
    BY <1>3 DEF RegistryTypeOK, add_verifier, remove_verifier, creditVars
  <1>4. CASE \E b \in BridgeContracts : add_bridge(Address, b) \/ remove_bridge(Address, b)
    BY <1>4 DEF RegistryTypeOK, add_bridge, remove_bridge, creditVars
  <1>5. CASE \E r \in RetirerContracts : add_retirer(Address, r) \/ remove_retirer(Address, r)
    BY <1>5 DEF RegistryTypeOK, add_retirer, remove_retirer, creditVars
  <1> QED
    BY <1>1, <1>2, <1>3, <1>4, <1>5 DEF AdminNext

\* A vote keeps the records of every credit a sequence of votes.
LEMMA WriteApprovalType ==
    ASSUME RegistryTypeOK, NEW v \in Address, NEW c \in CreditIds, NEW yes \in BOOLEAN,
           write_approval(v, c, yes)
    PROVE  votes' \in [CreditIds -> Seq(Vote)]
  <1>1. [verifier |-> v, approved |-> yes] \in Vote
    BY DEF Vote
  <1>2. votes[c] \in Seq(Vote)
    BY DEF RegistryTypeOK
  <1>3. Append(votes[c], [verifier |-> v, approved |-> yes]) \in Seq(Vote)
    BY <1>1, <1>2
  <1> QED
    BY <1>3 DEF write_approval, RegistryTypeOK

\* The steps of the credits keep the types.
LEMMA CreditType == RegistryTypeOK /\ CreditNext(Address, Address) => RegistryTypeOK'
  <1> SUFFICES ASSUME RegistryTypeOK, CreditNext(Address, Address) PROVE RegistryTypeOK'
    OBVIOUS
  <1>1. ASSUME NEW issuer \in Address, NEW m \in Metadata, submit_credit(issuer, m)
        PROVE  RegistryTypeOK'
    <2>1. store_credit("Pending", 0, m, issuer)
      BY <1>1 DEF submit_credit
    <2>2. /\ counter' \in 0..MaxCredits
          /\ status' \in [CreditIds -> Status \cup {"Absent"}]
          /\ token' \in [CreditIds -> {0} \cup CreditIds]
          /\ metadata' \in [CreditIds -> Metadata \cup {None}]
          /\ owner' \in [CreditIds -> Address \cup {None}]
          /\ ownerList' \in [Address -> SUBSET CreditIds]
          /\ counter + 1 \in CreditIds
      BY <2>1, StoreCreditType DEF Status
    <2>3. issuerList' \in [Address -> Seq(CreditIds)]
      BY <1>1, <2>2 DEF submit_credit, RegistryTypeOK
    <2> QED
      BY <1>1, <2>2, <2>3 DEF submit_credit, RegistryTypeOK, adminVars
  <1>2. ASSUME NEW v \in Address, NEW c \in CreditIds, approve_and_mint(v, c)
        PROVE  RegistryTypeOK'
    <2>1. votes' \in [CreditIds -> Seq(Vote)]
      BY <1>2, WriteApprovalType DEF approve_and_mint
    <2>2. status' \in [CreditIds -> Status \cup {"Absent"}]
      BY <1>2 DEF approve_and_mint, Status, RegistryTypeOK
    <2>3. token' \in [CreditIds -> {0} \cup CreditIds]
      BY <1>2 DEF approve_and_mint, RegistryTypeOK
    <2> QED
      BY <1>2, <2>1, <2>2, <2>3 DEF approve_and_mint, RegistryTypeOK, adminVars
  <1>3. ASSUME NEW v \in Address, NEW c \in CreditIds, reject_credit(v, c)
        PROVE  RegistryTypeOK'
    <2>1. votes' \in [CreditIds -> Seq(Vote)]
      BY <1>3, WriteApprovalType DEF reject_credit
    <2>2. status' \in [CreditIds -> Status \cup {"Absent"}]
      BY <1>3 DEF reject_credit, Status, RegistryTypeOK
    <2>3. token' \in [CreditIds -> {0} \cup CreditIds]
      BY <1>3 DEF reject_credit, RegistryTypeOK
    <2> QED
      BY <1>3, <2>1, <2>2, <2>3 DEF reject_credit, RegistryTypeOK, adminVars
  <1>4. ASSUME NEW from \in Address, NEW to \in Address, NEW c \in CreditIds,
               transfer_credit(from, to, c)
        PROVE  RegistryTypeOK'
    BY <1>4 DEF transfer_credit, RegistryTypeOK, adminVars
  <1>5. ASSUME NEW k \in Address, NEW c \in CreditIds, mark_retired(k, c)
        PROVE  RegistryTypeOK'
    BY <1>5 DEF mark_retired, Status, RegistryTypeOK, adminVars
  <1>6. ASSUME NEW b \in Address, NEW to \in Address, NEW m \in Metadata, mint_bridged(b, to, m)
        PROVE  RegistryTypeOK'
    <2>1. store_credit("Active", counter + 1, m, to) /\ counter + 1 \in CreditIds
      BY <1>6, RegistryAssumption DEF mint_bridged, store_credit, RegistryTypeOK, CreditIds
    <2> QED
      BY <1>6, <2>1, StoreCreditType DEF mint_bridged, Status, RegistryTypeOK, adminVars
  <1> QED
    BY <1>1, <1>2, <1>3, <1>4, <1>5, <1>6 DEF CreditNext

\* Every storage key of the registry holds a value of its type: in particular
\* the id counter stays within the stored ids, and every vote names an address.
THEOREM TypeCorrect == RegistrySpec => []RegistryTypeOK
  <1>1. RegistryInit => RegistryTypeOK
    BY RegistryAssumption DEF RegistryInit, RegistryTypeOK, CreditIds
  <1>2. RegistryTypeOK /\ Step => RegistryTypeOK'
    <2>1. CASE UNCHANGED registryVars
      BY <2>1 DEF RegistryTypeOK, registryVars
    <2> QED
      BY <2>1, AdminType, CreditType DEF Step, RegistryNext
  <1> QED
    BY <1>1, <1>2, PTL DEF RegistrySpec, Step

-----------------------------------------------------------------------------
(* Votes. *)

\* The administration never touches a credit.
LEMMA AdminFrame == AdminNext(Address) => UNCHANGED creditVars
  BY DEF AdminNext, init, update_config, add_verifier, remove_verifier, add_bridge,
         remove_bridge, add_retirer, remove_retirer

\* The records of a credit change only by one vote of a verifier that may vote.
LEMMA VotesFrame ==
    ASSUME Step, UNCHANGED votes => FALSE
    PROVE  \E v \in Address, c \in CreditIds, yes \in BOOLEAN :
              may_vote(v, c) /\ write_approval(v, c, yes)
  <1>1. ~ UNCHANGED registryVars /\ ~ AdminNext(Address)
    BY AdminFrame DEF registryVars, creditVars
  <1>2. CreditNext(Address, Address)
    BY <1>1 DEF Step, RegistryNext
  <1>3. \E v \in Address, c \in CreditIds : approve_and_mint(v, c) \/ reject_credit(v, c)
    BY <1>2 DEF CreditNext, submit_credit, transfer_credit, mark_retired, mint_bridged
  <1> QED
    BY <1>3 DEF approve_and_mint, reject_credit

\* has_approval keeps the records of a credit free of second votes.
LEMMA VoteOnceStep == RegistryTypeOK /\ OneVotePerVerifier /\ Step => OneVotePerVerifier'
  <1> SUFFICES ASSUME RegistryTypeOK, OneVotePerVerifier, Step PROVE OneVotePerVerifier'
    OBVIOUS
  <1>1. CASE UNCHANGED votes
    BY <1>1 DEF OneVotePerVerifier
  <1>2. CASE ~ UNCHANGED votes
    <2>1. PICK v \in Address, c \in CreditIds, yes \in BOOLEAN :
              may_vote(v, c) /\ write_approval(v, c, yes)
      BY <1>2, VotesFrame
    <2>2. SUFFICES ASSUME NEW d \in CreditIds,
                          NEW i \in 1..Len(votes'[d]), NEW j \in 1..Len(votes'[d]),
                          votes'[d][i].verifier = votes'[d][j].verifier
                   PROVE  i = j
      BY DEF OneVotePerVerifier
    <2>3. CASE d # c
      BY <2>1, <2>2, <2>3 DEF write_approval, OneVotePerVerifier, RegistryTypeOK
    <2>4. CASE d = c
      <3> DEFINE new == [verifier |-> v, approved |-> yes]
      <3>1. votes[c] \in Seq(Vote) /\ votes'[c] = Append(votes[c], new)
        BY <2>1 DEF write_approval, RegistryTypeOK
      <3>2. /\ Len(votes'[c]) = Len(votes[c]) + 1
            /\ votes'[c][Len(votes[c]) + 1] = new
            /\ \A k \in 1..Len(votes[c]) : votes'[c][k] = votes[c][k]
        BY <3>1
      <3>3. \A k \in 1..Len(votes[c]) : votes[c][k].verifier # v
        BY <2>1 DEF may_vote, has_approval
      <3>4. new.verifier = v
        OBVIOUS
      <3>5. Len(votes[c]) \in Nat
        BY <3>1
      <3> HIDE DEF new
      <3>6. ASSUME i <= Len(votes[c]), j <= Len(votes[c]) PROVE i = j
        <4>1. i \in 1..Len(votes[c]) /\ j \in 1..Len(votes[c])
          BY <3>6, <2>2, <2>4, <3>5
        <4>2. votes[c][i].verifier = votes[c][j].verifier
          BY <4>1, <2>2, <2>4, <3>2
        <4> QED
          BY <4>1, <4>2 DEF OneVotePerVerifier
      <3>7. ASSUME i <= Len(votes[c]), j = Len(votes[c]) + 1 PROVE FALSE
        BY <3>7, <2>2, <2>4, <3>2, <3>3, <3>4, <3>5
      <3>8. ASSUME j <= Len(votes[c]), i = Len(votes[c]) + 1 PROVE FALSE
        BY <3>8, <2>2, <2>4, <3>2, <3>3, <3>4, <3>5
      <3> QED
        BY <2>2, <2>4, <3>2, <3>5, <3>6, <3>7, <3>8
    <2> QED
      BY <2>3, <2>4
  <1> QED
    BY <1>1, <1>2

\* A verifier never has two records on one credit, however often the admins
\* remove it and add it again.
THEOREM VoteOnce == RegistrySpec => []OneVotePerVerifier
  <1>1. RegistryInit => OneVotePerVerifier
    BY DEF RegistryInit, OneVotePerVerifier
  <1> QED
    BY <1>1, TypeCorrect, VoteOnceStep, PTL DEF RegistrySpec, Step

\* When no verifier has two records, the number of approving records is the
\* number of approving verifiers.
LEMMA CountIsApprovers ==
    ASSUME NEW r \in Seq(Vote),
           \A i, j \in 1..Len(r) : r[i].verifier = r[j].verifier => i = j
    PROVE  Cardinality(Approvers(r)) = count_approvals(r)
  <1> DEFINE I == {i \in 1..Len(r) : r[i].approved}
             f == [i \in I |-> r[i].verifier]
  <1>1. IsFiniteSet(I)
    <2>1. Len(r) \in Int /\ 1 \in Int
      OBVIOUS
    <2>2. IsFiniteSet(1..Len(r))
      BY <2>1, FS_Interval
    <2>3. I \in SUBSET (1..Len(r))
      OBVIOUS
    <2> QED
      BY <2>2, <2>3, FS_Subset
  <1>2. f \in [I -> Approvers(r)]
    BY DEF Approvers
  <1>3. \A i, j \in I : f[i] = f[j] => i = j
    OBVIOUS
  <1>4. \A v \in Approvers(r) : \E i \in I : f[i] = v
    BY DEF Approvers
  <1>5. f \in Bijection(I, Approvers(r))
    <2> HIDE DEF f, I
    <2> QED
      BY <1>2, <1>3, <1>4 DEF Bijection, Injection, Surjection, IsInjective
  <1>6. Cardinality(Approvers(r)) = Cardinality(I)
    BY <1>1, <1>5, FS_Bijection DEF ExistsBijection
  <1> QED
    BY <1>6 DEF count_approvals

-----------------------------------------------------------------------------
(* The book of the credits: their ids, lists, owners and tokens. *)

\* What the registry's bookkeeping keeps true at every step.
Book == IdsUsedOnce /\ OwnerFindsCredit /\ TokenIffMinted /\ UnmintedStaysWithIssuer

\* A new credit gets the first unused id.
LEMMA NewId ==
    ASSUME RegistryTypeOK, IdsUsedOnce, counter < MaxCredits
    PROVE  counter + 1 \in CreditIds /\ status[counter + 1] = "Absent"
  BY RegistryAssumption DEF RegistryTypeOK, IdsUsedOnce, CreditIds, exists

\* The issuers' lists hold natural numbers.
LEMMA ListedIds ==
    ASSUME RegistryTypeOK, NEW a \in Address
    PROVE  /\ Len(issuerList[a]) \in Nat
           /\ \A i \in 1..Len(issuerList[a]) : issuerList[a][i] \in Nat
  <1>1. issuerList[a] \in Seq(CreditIds)
    BY DEF RegistryTypeOK
  <1>2. \A i \in 1..Len(issuerList[a]) : issuerList[a][i] \in CreditIds
    BY <1>1
  <1> QED
    BY <1>1, <1>2 DEF CreditIds

\* submit_credit hands out the next id, lists it with the issuer, and leaves
\* every other credit as it was.
LEMMA SubmitBook ==
    ASSUME RegistryTypeOK, RegistryTypeOK', Book,
           NEW issuer \in Address, NEW m \in Metadata, submit_credit(issuer, m)
    PROVE  Book'
  <1> DEFINE id == counter + 1
  <1>1. id \in CreditIds /\ counter' = id /\ id \in Nat /\ counter \in Nat /\ status[id] = "Absent"
    BY NewId DEF submit_credit, store_credit, RegistryTypeOK, CreditIds, Book
  <1>2. /\ status' = [status EXCEPT ![id] = "Pending"]
        /\ token' = [token EXCEPT ![id] = 0]
        /\ owner' = [owner EXCEPT ![id] = issuer]
        /\ ownerList' = [ownerList EXCEPT ![issuer] = @ \cup {id}]
        /\ votes' = votes
    BY DEF submit_credit, store_credit
  <1>3. /\ issuerList' = [issuerList EXCEPT ![issuer] = Append(issuerList[issuer], id)]
        /\ issuerList \in [Address -> Seq(CreditIds)]
    BY DEF submit_credit, RegistryTypeOK
  <1>4. /\ Len(issuerList[issuer]) \in Nat
        /\ Len(issuerList'[issuer]) = Len(issuerList[issuer]) + 1
        /\ issuerList'[issuer][Len(issuerList[issuer]) + 1] = id
        /\ \A i \in 1..Len(issuerList[issuer]) : issuerList'[issuer][i] = issuerList[issuer][i]
        /\ \A a \in Address \ {issuer} : issuerList'[a] = issuerList[a]
        /\ \A a \in Address : issuerList[a] \in Seq(CreditIds)
    BY <1>1, <1>3
  <1> HIDE DEF id
  <1>5. IdsUsedOnce'
    <2>1. \A c \in CreditIds : exists(c)' <=> c <= counter'
      BY <1>1, <1>2 DEF exists, IdsUsedOnce, Book, RegistryTypeOK, CreditIds, id
    <2>2. \A a \in Address : \A i \in 1..Len(issuerList[a]) :
             issuerList[a][i] <= counter /\ issuerList[a][i] \in Nat
      BY ListedIds DEF IdsUsedOnce, Book
    <2>3. \A a \in Address : \A i \in 1..Len(issuerList'[a]) :
             \/ i \in 1..Len(issuerList[a]) /\ issuerList'[a][i] = issuerList[a][i]
             \/ a = issuer /\ i = Len(issuerList[issuer]) + 1 /\ issuerList'[a][i] = id
      BY <1>4
    <2>4. ASSUME NEW a \in Address, NEW i \in 1..Len(issuerList'[a])
          PROVE  issuerList'[a][i] <= counter'
      <3>1. CASE i \in 1..Len(issuerList[a]) /\ issuerList'[a][i] = issuerList[a][i]
        <4>1. issuerList[a][i] <= counter /\ issuerList[a][i] \in Nat
          BY <2>2, <3>1
        <4> QED
          BY <1>1, <3>1, <4>1 DEF id
      <3>2. CASE issuerList'[a][i] = id
        BY <1>1, <3>2
      <3> QED
        BY <2>3, <3>1, <3>2
    <2>5. ASSUME NEW a \in Address, NEW b \in Address,
                 NEW i \in 1..Len(issuerList'[a]), NEW j \in 1..Len(issuerList'[b]),
                 issuerList'[a][i] = issuerList'[b][j]
          PROVE  a = b /\ i = j
      <3> DEFINE old(x, k) == k \in 1..Len(issuerList[x]) /\ issuerList'[x][k] = issuerList[x][k]
                 fresh(x, k) == x = issuer /\ k = Len(issuerList[issuer]) + 1 /\ issuerList'[x][k] = id
      <3>1. /\ old(a, i) \/ fresh(a, i)
            /\ old(b, j) \/ fresh(b, j)
        BY <2>3
      <3>2. /\ old(a, i) => issuerList'[a][i] # id
            /\ old(b, j) => issuerList'[b][j] # id
        <4>1. \A x \in Address : \A k \in 1..Len(issuerList[x]) : issuerList[x][k] # id
          BY <1>1, <2>2 DEF id
        <4> QED
          BY <4>1
      <3>3. CASE old(a, i) /\ old(b, j)
        <4>1. /\ i \in 1..Len(issuerList[a]) /\ j \in 1..Len(issuerList[b])
              /\ issuerList[a][i] = issuerList[b][j]
          BY <2>5, <3>3
        <4> QED
          BY <4>1 DEF IdsUsedOnce, Book
      <3>4. CASE fresh(a, i) /\ fresh(b, j)
        BY <3>4
      <3> QED
        BY <2>5, <3>1, <3>2, <3>3, <3>4
    <2> QED
      BY <2>1, <2>4, <2>5 DEF IdsUsedOnce
  <1>6. OwnerFindsCredit'
    BY <1>1, <1>2 DEF OwnerFindsCredit, Book, exists, RegistryTypeOK
  <1>7. TokenIffMinted'
    BY <1>1, <1>2 DEF TokenIffMinted, Book, RegistryTypeOK
  <1>8. UnmintedStaysWithIssuer'
    <2>1. \A a \in Address : \A i \in 1..Len(issuerList[a]) :
             i \in 1..Len(issuerList'[a]) /\ issuerList'[a][i] = issuerList[a][i]
      BY <1>4
    <2>2. ASSUME NEW c \in CreditIds, status'[c] \in {"Pending", "Rejected"}
          PROVE  \E i \in 1..Len(issuerList'[owner'[c]]) : issuerList'[owner'[c]][i] = c
      <3>1. CASE c = id
        <4>1. owner'[c] = issuer
          BY <3>1, <1>1, <1>2 DEF RegistryTypeOK
        <4>2. Len(issuerList[issuer]) + 1 \in 1..Len(issuerList'[issuer])
          BY <1>4
        <4> QED
          BY <3>1, <4>1, <4>2, <1>4
      <3>2. CASE c # id
        <4>1. status'[c] = status[c] /\ owner'[c] = owner[c] /\ owner[c] \in Address
          BY <2>2, <3>2, <1>1, <1>2 DEF RegistryTypeOK, OwnerFindsCredit, Book, exists
        <4> QED
          BY <2>1, <2>2, <4>1 DEF UnmintedStaysWithIssuer, Book
      <3> QED
        BY <3>1, <3>2
    <2>3. ASSUME NEW c \in CreditIds, votes'[c] # << >> PROVE issued(c)'
      <3>1. issued(c)
        BY <1>2, <2>3 DEF UnmintedStaysWithIssuer, Book
      <3>2. PICK a \in Address : \E i \in 1..Len(issuerList[a]) : issuerList[a][i] = c
        BY <3>1 DEF issued
      <3> QED
        BY <2>1, <3>2 DEF issued
    <2> QED
      BY <2>2, <2>3 DEF UnmintedStaysWithIssuer
  <1> QED
    BY <1>5, <1>6, <1>7, <1>8 DEF Book

\* mint_bridged hands out the next id to an Active credit in no issuer's list.
LEMMA MintBridgedBook ==
    ASSUME RegistryTypeOK, RegistryTypeOK', Book, NEW b \in Address, NEW to \in Address,
           NEW m \in Metadata, mint_bridged(b, to, m)
    PROVE  Book'
  <1> DEFINE id == counter + 1
  <1>1. id \in CreditIds /\ counter' = id /\ id \in Nat /\ counter \in Nat /\ status[id] = "Absent"
    BY NewId DEF mint_bridged, store_credit, RegistryTypeOK, CreditIds, Book
  <1>2. /\ status' = [status EXCEPT ![id] = "Active"]
        /\ token' = [token EXCEPT ![id] = id]
        /\ owner' = [owner EXCEPT ![id] = to]
        /\ ownerList' = [ownerList EXCEPT ![to] = @ \cup {id}]
        /\ votes' = votes
        /\ issuerList' = issuerList
    BY DEF mint_bridged, store_credit
  <1> HIDE DEF id
  <1>3. IdsUsedOnce'
    <2>1. \A c \in CreditIds : exists(c)' <=> c <= counter'
      BY <1>1, <1>2 DEF exists, IdsUsedOnce, Book, RegistryTypeOK, CreditIds, id
    <2>2. \A a \in Address : \A i \in 1..Len(issuerList[a]) : issuerList[a][i] \in Nat
      BY ListedIds
    <2>3. \A a \in Address : \A i \in 1..Len(issuerList[a]) : issuerList[a][i] <= counter
      BY DEF IdsUsedOnce, Book
    <2>4. \A a \in Address : \A i \in 1..Len(issuerList[a]) : issuerList[a][i] <= counter'
      BY <1>1, <2>2, <2>3 DEF id
    <2>5. \A a, d \in Address : \A i \in 1..Len(issuerList'[a]), j \in 1..Len(issuerList'[d]) :
             issuerList'[a][i] = issuerList'[d][j] => a = d /\ i = j
      <3>1. issuerList' = issuerList
        BY <1>2
      <3> QED
        BY <3>1 DEF IdsUsedOnce, Book
    <2>6. \A a \in Address : \A i \in 1..Len(issuerList'[a]) : issuerList'[a][i] <= counter'
      BY <1>2, <2>4
    <2> QED
      BY <2>1, <2>5, <2>6 DEF IdsUsedOnce
  <1>4. OwnerFindsCredit'
    BY <1>1, <1>2 DEF OwnerFindsCredit, Book, exists, RegistryTypeOK
  <1>5. TokenIffMinted'
    BY <1>1, <1>2 DEF TokenIffMinted, Book, RegistryTypeOK
  <1>6. UnmintedStaysWithIssuer'
    <2>1. ASSUME NEW c \in CreditIds, status'[c] \in {"Pending", "Rejected"}
          PROVE  \E i \in 1..Len(issuerList'[owner'[c]]) : issuerList'[owner'[c]][i] = c
      <3>1. status'[c] = status[c] /\ owner'[c] = owner[c]
        BY <2>1, <1>1, <1>2 DEF RegistryTypeOK
      <3> QED
        BY <1>2, <2>1, <3>1 DEF UnmintedStaysWithIssuer, Book
    <2>2. ASSUME NEW c \in CreditIds, votes'[c] # << >> PROVE issued(c)'
      BY <1>2, <2>2 DEF UnmintedStaysWithIssuer, Book, issued
    <2> QED
      BY <2>1, <2>2 DEF UnmintedStaysWithIssuer
  <1> QED
    BY <1>3, <1>4, <1>5, <1>6 DEF Book

\* A vote leaves the ids, the lists and the owners alone, and mints or rejects
\* only a credit that its issuer still holds.
LEMMA VoteBook ==
    ASSUME RegistryTypeOK, RegistryTypeOK', Book, NEW v \in Address, NEW c \in CreditIds,
           approve_and_mint(v, c) \/ reject_credit(v, c)
    PROVE  Book'
  <1>1. /\ UNCHANGED <<counter, owner, issuerList, ownerList>>
        /\ status[c] = "Pending"
        /\ status'[c] \in {"Pending", "Active", "Rejected"}
        /\ status'[c] = "Active" => token'[c] = c
        /\ status'[c] # "Active" => token'[c] = token[c]
        /\ \A d \in CreditIds \ {c} : status'[d] = status[d] /\ token'[d] = token[d] /\ votes'[d] = votes[d]
    BY DEF approve_and_mint, reject_credit, may_vote, write_approval, RegistryTypeOK
  <1>2. IdsUsedOnce'
    BY <1>1 DEF IdsUsedOnce, Book, exists
  <1>3. OwnerFindsCredit'
    BY <1>1 DEF OwnerFindsCredit, Book, exists
  <1>4. TokenIffMinted'
    BY <1>1 DEF TokenIffMinted, Book
  <1>5. UnmintedStaysWithIssuer'
    <2>1. owner[c] \in Address /\ issued(c)
      BY <1>1 DEF UnmintedStaysWithIssuer, OwnerFindsCredit, Book, exists, issued
    <2> QED
      BY <1>1, <2>1 DEF UnmintedStaysWithIssuer, Book, issued
  <1> QED
    BY <1>2, <1>3, <1>4, <1>5 DEF Book

\* A transfer moves one Active credit and lists it with its new owner.
LEMMA TransferBook ==
    ASSUME RegistryTypeOK, Book, NEW from \in Address, NEW to \in Address,
           NEW c \in CreditIds, transfer_credit(from, to, c)
    PROVE  Book'
  <1>1. /\ UNCHANGED <<counter, status, token, votes, issuerList>>
        /\ status[c] = "Active"
        /\ owner' = [owner EXCEPT ![c] = to]
        /\ ownerList' = [ownerList EXCEPT ![to] = @ \cup {c}]
    BY DEF transfer_credit, may_transfer
  <1>2. IdsUsedOnce' /\ TokenIffMinted'
    BY <1>1 DEF IdsUsedOnce, TokenIffMinted, Book, exists
  <1>3. OwnerFindsCredit'
    BY <1>1 DEF OwnerFindsCredit, Book, exists, RegistryTypeOK
  <1>4. UnmintedStaysWithIssuer'
    <2>1. \A d \in CreditIds : status[d] \in {"Pending", "Rejected"} => owner'[d] = owner[d]
      BY <1>1 DEF RegistryTypeOK
    <2> QED
      BY <1>1, <2>1 DEF UnmintedStaysWithIssuer, Book, issued
  <1> QED
    BY <1>2, <1>3, <1>4 DEF Book

\* A retirement changes nothing but the status of one Active credit.
LEMMA RetireBook ==
    ASSUME RegistryTypeOK, Book, NEW k \in Address, NEW c \in CreditIds, mark_retired(k, c)
    PROVE  Book'
  <1>1. /\ UNCHANGED <<counter, token, owner, votes, issuerList, ownerList>>
        /\ status[c] = "Active"
        /\ status' = [status EXCEPT ![c] = "Retired"]
    BY DEF mark_retired
  <1>2. IdsUsedOnce' /\ OwnerFindsCredit'
    BY <1>1 DEF IdsUsedOnce, OwnerFindsCredit, Book, exists, RegistryTypeOK
  <1>3. TokenIffMinted'
    BY <1>1 DEF TokenIffMinted, Book, RegistryTypeOK
  <1>4. UnmintedStaysWithIssuer'
    <2>1. \A d \in CreditIds : status'[d] \in {"Pending", "Rejected"} => status'[d] = status[d]
      BY <1>1 DEF RegistryTypeOK
    <2> QED
      BY <1>1, <2>1 DEF UnmintedStaysWithIssuer, Book, issued
  <1> QED
    BY <1>2, <1>3, <1>4 DEF Book

\* Every step keeps the book.
LEMMA BookStep == RegistryTypeOK /\ RegistryTypeOK' /\ Book /\ Step => Book'
  <1> SUFFICES ASSUME RegistryTypeOK, RegistryTypeOK', Book, Step PROVE Book'
    OBVIOUS
  <1>1. CASE UNCHANGED creditVars
    BY <1>1 DEF Book, creditVars, IdsUsedOnce, OwnerFindsCredit, TokenIffMinted,
                UnmintedStaysWithIssuer, exists, issued
  <1>2. CASE CreditNext(Address, Address)
    BY <1>2, SubmitBook, MintBridgedBook, VoteBook, TransferBook, RetireBook DEF CreditNext
  <1> QED
    BY <1>1, <1>2, AdminFrame DEF Step, RegistryNext, registryVars, creditVars

\* The book stays in order: ids are used once, owners find their credits, exactly
\* the minted credits carry their token id, and what is not minted is its issuer's.
THEOREM BookInOrder == RegistrySpec => []Book
  <1>1. RegistryInit => Book
    BY DEF RegistryInit, Book, IdsUsedOnce, OwnerFindsCredit, TokenIffMinted,
           UnmintedStaysWithIssuer, exists, issued, CreditIds
  <1> QED
    BY <1>1, TypeCorrect, BookStep, PTL DEF RegistrySpec, Step

\* Two submissions never share an id and no id is skipped: the counter that
\* next_credit_id keeps is exactly the number of credits stored.
COROLLARY IdsAreUsedOnce == RegistrySpec => []IdsUsedOnce
  BY BookInOrder, PTL DEF Book

\* get_credits_by_owner never misses a credit of the one who asks.
COROLLARY OwnersFindCredits == RegistrySpec => []OwnerFindsCredit
  BY BookInOrder, PTL DEF Book

\* The token id says whether a credit was minted, on every path that mints.
COROLLARY TokensMarkMinted == RegistrySpec => []TokenIffMinted
  BY BookInOrder, PTL DEF Book

\* A credit that is not minted is in the list of the issuer that owns it, and
\* nobody ever voted on a bridged credit.
COROLLARY UnmintedIsIssuers == RegistrySpec => []UnmintedStaysWithIssuer
  BY BookInOrder, PTL DEF Book

-----------------------------------------------------------------------------
(* What a step may never do. *)

\* A vote mints only with as many different verifiers for the credit as the
\* threshold asks for, although approve_and_mint counts records; no other
\* function of the registry makes a Pending credit Active.
LEMMA MintStep ==
    ASSUME RegistryTypeOK, RegistryTypeOK', OneVotePerVerifier', Book, Step,
           NEW c \in CreditIds, status[c] = "Pending", status'[c] = "Active"
    PROVE  Cardinality(Approvers(votes'[c])) >= config.verifier_threshold
  <1>0. RegistryNext(Address, Address)
    BY DEF Step, registryVars, creditVars
  <1>1. CreditNext(Address, Address)
    BY <1>0, AdminFrame DEF RegistryNext, creditVars
  <1>2. ASSUME NEW a \in Address, NEW m \in Metadata, submit_credit(a, m) PROVE FALSE
    <2>1. status' = [status EXCEPT ![counter + 1] = "Pending"] /\ counter + 1 \in CreditIds
      BY <1>2, NewId DEF submit_credit, store_credit, Book
    <2> QED
      BY <2>1 DEF RegistryTypeOK
  <1>3. ASSUME NEW b \in Address, NEW to \in Address, NEW m \in Metadata, mint_bridged(b, to, m)
        PROVE  FALSE
    <2>1. status' = [status EXCEPT ![counter + 1] = "Active"] /\ status[counter + 1] = "Absent"
      BY <1>3, NewId DEF mint_bridged, store_credit, Book
    <2> QED
      BY <2>1 DEF RegistryTypeOK
  <1>4. ASSUME NEW from \in Address, NEW to \in Address, NEW d \in CreditIds,
               transfer_credit(from, to, d)
        PROVE  FALSE
    BY <1>4 DEF transfer_credit
  <1>5. ASSUME NEW k \in Address, NEW d \in CreditIds, mark_retired(k, d) PROVE FALSE
    BY <1>5 DEF mark_retired, RegistryTypeOK
  <1>6. ASSUME NEW v \in Address, NEW d \in CreditIds, reject_credit(v, d) PROVE FALSE
    BY <1>6 DEF reject_credit, RegistryTypeOK
  <1>7. ASSUME NEW v \in Address, NEW d \in CreditIds, approve_and_mint(v, d)
        PROVE  Cardinality(Approvers(votes'[c])) >= config.verifier_threshold
    <2>1. c = d /\ minted(votes'[c])
      BY <1>7 DEF approve_and_mint, RegistryTypeOK
    <2>2. votes'[c] \in Seq(Vote)
      BY DEF RegistryTypeOK
    <2>3. \A i, j \in 1..Len(votes'[c]) :
             votes'[c][i].verifier = votes'[c][j].verifier => i = j
      BY DEF OneVotePerVerifier
    <2>4. Cardinality(Approvers(votes'[c])) = count_approvals(votes'[c])
      BY <2>2, <2>3, CountIsApprovers
    <2> QED
      BY <2>1, <2>4 DEF minted
  <1> QED
    BY <1>1, <1>2, <1>3, <1>4, <1>5, <1>6, <1>7 DEF CreditNext

\* A credit is minted only by enough different verifiers, whatever the admins do
\* to their list and to the rule.
THEOREM MintIsApproved == RegistrySpec => MintNeedsApprovers
  <1> DEFINE Minted == \A c \in CreditIds : status[c] = "Pending" /\ status'[c] = "Active" =>
                 Cardinality(Approvers(votes'[c])) >= config.verifier_threshold
  <1>1. RegistryTypeOK /\ RegistryTypeOK' /\ OneVotePerVerifier' /\ Book /\ Step
           => [Minted]_registryVars
    BY MintStep
  <1> QED
    BY <1>1, TypeCorrect, VoteOnce, BookInOrder, PTL DEF RegistrySpec, Step, MintNeedsApprovers

\* Nothing brings a Retired credit back: not a vote, not a transfer, not a new
\* credit, for a new credit never takes an id in use.
LEMMA RetiredStays ==
    ASSUME RegistryTypeOK, Book, Step, NEW c \in CreditIds, status[c] = "Retired"
    PROVE  status'[c] = "Retired" /\ owner'[c] = owner[c] /\ token'[c] = token[c]
  <1>0. CASE UNCHANGED registryVars
    BY <1>0 DEF registryVars
  <1>1. CASE AdminNext(Address)
    BY <1>1, AdminFrame DEF creditVars
  <1>2. ASSUME NEW a \in Address, NEW m \in Metadata, NEW s \in Status, NEW tok \in Nat,
               store_credit(s, tok, m, a)
        PROVE  status'[c] = "Retired" /\ owner'[c] = owner[c] /\ token'[c] = token[c]
    <2>1. c # counter + 1
      BY <1>2, NewId DEF store_credit, Book
    <2> QED
      BY <1>2, <2>1 DEF store_credit, RegistryTypeOK
  <1>3. ASSUME NEW v \in Address, NEW d \in CreditIds,
               approve_and_mint(v, d) \/ reject_credit(v, d)
        PROVE  status'[c] = "Retired" /\ owner'[c] = owner[c] /\ token'[c] = token[c]
    BY <1>3 DEF approve_and_mint, reject_credit, may_vote, RegistryTypeOK
  <1>4. ASSUME NEW from \in Address, NEW to \in Address, NEW d \in CreditIds,
               transfer_credit(from, to, d)
        PROVE  status'[c] = "Retired" /\ owner'[c] = owner[c] /\ token'[c] = token[c]
    BY <1>4 DEF transfer_credit, may_transfer, RegistryTypeOK
  <1>5. ASSUME NEW k \in Address, NEW d \in CreditIds, mark_retired(k, d)
        PROVE  status'[c] = "Retired" /\ owner'[c] = owner[c] /\ token'[c] = token[c]
    BY <1>5 DEF mark_retired, RegistryTypeOK
  <1>6. CASE \E a \in Address, m \in Metadata : submit_credit(a, m)
    BY <1>2, <1>6 DEF submit_credit, Status
  <1>7. CASE \E b, to \in Address, m \in Metadata : mint_bridged(b, to, m)
    BY <1>2, <1>7 DEF mint_bridged, Status, RegistryTypeOK
  <1> QED
    BY <1>0, <1>1, <1>3, <1>4, <1>5, <1>6, <1>7 DEF Step, RegistryNext, CreditNext

\* mark_retired is final in the registry, whoever calls what afterwards.
THEOREM RetirementIsPermanent == RegistrySpec => RetirementPermanent
  <1> DEFINE Kept == \A c \in CreditIds : status[c] = "Retired" =>
                 status'[c] = "Retired" /\ owner'[c] = owner[c] /\ token'[c] = token[c]
  <1>1. RegistryTypeOK /\ Book /\ Step => [Kept]_registryVars
    BY RetiredStays
  <1> QED
    BY <1>1, TypeCorrect, BookInOrder, PTL DEF RegistrySpec, Step, RetirementPermanent

-----------------------------------------------------------------------------
(* The registry implements the credit ledger. *)

\* When no verifier has two records, the number of rejecting records is the
\* number of rejecting verifiers.
LEMMA CountIsRejecters ==
    ASSUME NEW r \in Seq(Vote),
           \A i, j \in 1..Len(r) : r[i].verifier = r[j].verifier => i = j
    PROVE  Cardinality(Rejecters(r)) = count_rejections(r)
  <1> DEFINE I == {i \in 1..Len(r) : ~r[i].approved}
             f == [i \in I |-> r[i].verifier]
  <1>1. IsFiniteSet(I)
    <2>1. Len(r) \in Int /\ 1 \in Int
      OBVIOUS
    <2>2. IsFiniteSet(1..Len(r))
      BY <2>1, FS_Interval
    <2>3. I \in SUBSET (1..Len(r))
      OBVIOUS
    <2> QED
      BY <2>2, <2>3, FS_Subset
  <1>2. f \in [I -> Rejecters(r)]
    BY DEF Rejecters
  <1>3. \A i, j \in I : f[i] = f[j] => i = j
    OBVIOUS
  <1>4. \A v \in Rejecters(r) : \E i \in I : f[i] = v
    BY DEF Rejecters
  <1>5. f \in Bijection(I, Rejecters(r))
    <2> HIDE DEF f, I
    <2> QED
      BY <1>2, <1>3, <1>4 DEF Bijection, Injection, Surjection, IsInjective
  <1>6. Cardinality(Rejecters(r)) = Cardinality(I)
    BY <1>1, <1>5, FS_Bijection DEF ExistsBijection
  <1> QED
    BY <1>6 DEF count_rejections

\* A new record adds its verifier to one of the two sides.
LEMMA NewRecord ==
    ASSUME NEW r \in Seq(Vote), NEW new \in Vote
    PROVE  /\ new.approved => /\ Approvers(Append(r, new)) = Approvers(r) \cup {new.verifier}
                              /\ Rejecters(Append(r, new)) = Rejecters(r)
           /\ ~new.approved => /\ Approvers(Append(r, new)) = Approvers(r)
                               /\ Rejecters(Append(r, new)) = Rejecters(r) \cup {new.verifier}
  <1> DEFINE s == Append(r, new)
             n == Len(r) + 1
             Ayes(q) == {j \in 1..Len(q) : q[j].approved}
             Nays(q) == {j \in 1..Len(q) : ~q[j].approved}
  <1>1. /\ Len(r) \in Nat
        /\ Len(s) = n
        /\ s[n] = new
        /\ \A i \in 1..Len(r) : s[i] = r[i]
    OBVIOUS
  <1>2. 1..Len(s) = (1..Len(r)) \cup {n} /\ n \notin 1..Len(r)
    BY <1>1
  <1> HIDE DEF s, n
  <1>3. /\ Approvers(s) = {s[i].verifier : i \in Ayes(s)}
        /\ Approvers(r) = {r[i].verifier : i \in Ayes(r)}
        /\ Rejecters(s) = {s[i].verifier : i \in Nays(s)}
        /\ Rejecters(r) = {r[i].verifier : i \in Nays(r)}
    BY DEF Approvers, Rejecters
  <1>4. /\ {s[i].verifier : i \in Ayes(r)} = {r[i].verifier : i \in Ayes(r)}
        /\ {s[i].verifier : i \in Nays(r)} = {r[i].verifier : i \in Nays(r)}
    BY <1>1
  <1>5. CASE new.approved
    <2>1. Ayes(s) = Ayes(r) \cup {n} /\ Nays(s) = Nays(r)
      BY <1>1, <1>2, <1>5
    <2> HIDE DEF Ayes, Nays
    <2>2. {s[i].verifier : i \in Ayes(s)} = {s[i].verifier : i \in Ayes(r)} \cup {new.verifier}
      BY <1>1, <2>1
    <2>3. Approvers(s) = Approvers(r) \cup {new.verifier} /\ Rejecters(s) = Rejecters(r)
      BY <1>3, <1>4, <2>1, <2>2
    <2> QED
      BY <1>5, <2>3 DEF s
  <1>6. CASE ~new.approved
    <2>1. Nays(s) = Nays(r) \cup {n} /\ Ayes(s) = Ayes(r)
      BY <1>1, <1>2, <1>6
    <2> HIDE DEF Ayes, Nays
    <2>2. {s[i].verifier : i \in Nays(s)} = {s[i].verifier : i \in Nays(r)} \cup {new.verifier}
      BY <1>1, <2>1
    <2>3. Rejecters(s) = Rejecters(r) \cup {new.verifier} /\ Approvers(s) = Approvers(r)
      BY <1>3, <1>4, <2>1, <2>2
    <2> QED
      BY <1>6, <2>3 DEF s
  <1> QED
    BY <1>5, <1>6

\* A record that approves adds its verifier to the approvers and to no one else.
LEMMA ApprovalRecord ==
    ASSUME NEW r \in Seq(Vote), NEW v \in Address
    PROVE  /\ Approvers(Append(r, [verifier |-> v, approved |-> TRUE])) = Approvers(r) \cup {v}
           /\ Rejecters(Append(r, [verifier |-> v, approved |-> TRUE])) = Rejecters(r)
  <1> DEFINE new == [verifier |-> v, approved |-> TRUE]
  <1>1. new \in Vote
    BY DEF Vote
  <1>2. new.approved /\ new.verifier = v
    OBVIOUS
  <1> HIDE DEF new
  <1>3. /\ Approvers(Append(r, new)) = Approvers(r) \cup {new.verifier}
        /\ Rejecters(Append(r, new)) = Rejecters(r)
    BY <1>1, <1>2, NewRecord
  <1> QED
    BY <1>2, <1>3, Zenon DEF new

\* A record that rejects adds its verifier to the rejecters and to no one else.
LEMMA RejectionRecord ==
    ASSUME NEW r \in Seq(Vote), NEW v \in Address
    PROVE  /\ Approvers(Append(r, [verifier |-> v, approved |-> FALSE])) = Approvers(r)
           /\ Rejecters(Append(r, [verifier |-> v, approved |-> FALSE])) = Rejecters(r) \cup {v}
  <1> DEFINE new == [verifier |-> v, approved |-> FALSE]
  <1>1. new \in Vote
    BY DEF Vote
  <1>2. ~new.approved /\ new.verifier = v
    OBVIOUS
  <1> HIDE DEF new
  <1>3. /\ Approvers(Append(r, new)) = Approvers(r)
        /\ Rejecters(Append(r, new)) = Rejecters(r) \cup {new.verifier}
    BY <1>1, <1>2, NewRecord
  <1> QED
    BY <1>2, <1>3, Zenon DEF new

\* The ledger counts sets as the registry does.
LEMMA SameCount == \A S : Ledger!Cardinality(S) = Cardinality(S)
  BY Zenon DEF Ledger!Cardinality, Cardinality

\* A record of verifier v is a side taken by v.
LEMMA NoSideYet ==
    ASSUME NEW v \in Address, NEW c \in CreditIds, ~has_approval(v, c)
    PROVE  v \notin Approvers(votes[c]) \cup Rejecters(votes[c])
  BY DEF has_approval, Approvers, Rejecters

\* A new credit is a Create of the ledger.
LEMMA StoreCreates ==
    ASSUME RegistryTypeOK, Book, NEW s \in {"Pending", "Active"}, NEW tok \in Nat,
           NEW m \in Metadata, NEW to \in Address,
           store_credit(s, tok, m, to), UNCHANGED votes, UNCHANGED config
    PROVE  Ledger!LedgerNext
  <1>1. counter + 1 \in CreditIds /\ status[counter + 1] = "Absent"
    BY NewId DEF store_credit, Book
  <1>2. Ledger!Create(counter + 1, s, to)
    BY <1>1 DEF Ledger!Create, store_credit
  <1> QED
    BY <1>1, <1>2 DEF Ledger!LedgerNext

\* A vote for a credit is an Aye of the ledger.
LEMMA ApprovalIsAye ==
    ASSUME RegistryTypeOK, RegistryTypeOK', OneVotePerVerifier',
           NEW v \in Address, NEW c \in CreditIds, approve_and_mint(v, c)
    PROVE  Ledger!LedgerNext
  <1>1. /\ votes[c] \in Seq(Vote)
        /\ votes'[c] = Append(votes[c], [verifier |-> v, approved |-> TRUE])
        /\ votes'[c] \in Seq(Vote)
        /\ \A d \in CreditIds \ {c} : votes'[d] = votes[d]
    BY DEF approve_and_mint, write_approval, RegistryTypeOK
  <1>2. /\ Approvers(votes'[c]) = Approvers(votes[c]) \cup {v}
        /\ Rejecters(votes'[c]) = Rejecters(votes[c])
    <2>1. votes[c] \in Seq(Vote)
      BY <1>1
    <2>2. votes'[c] = Append(votes[c], [verifier |-> v, approved |-> TRUE])
      BY <1>1
    <2>3. /\ Approvers(votes'[c]) = Approvers(Append(votes[c], [verifier |-> v, approved |-> TRUE]))
          /\ Rejecters(votes'[c]) = Rejecters(Append(votes[c], [verifier |-> v, approved |-> TRUE]))
      BY <2>2, Zenon
    <2> QED
      BY <2>1, <2>3, ApprovalRecord, Zenon
  <1>3. [d \in CreditIds |-> Approvers(votes'[d])] =
           [[d \in CreditIds |-> Approvers(votes[d])] EXCEPT ![c] = @ \cup {v}]
    BY <1>1, <1>2
  <1>4. [d \in CreditIds |-> Rejecters(votes'[d])] = [d \in CreditIds |-> Rejecters(votes[d])]
    BY <1>1, <1>2
  <1>5. minted(votes'[c]) <=>
           Cardinality(Approvers(votes[c]) \cup {v}) >= config.verifier_threshold
    <2>1. \A i, j \in 1..Len(votes'[c]) : votes'[c][i].verifier = votes'[c][j].verifier => i = j
      BY DEF OneVotePerVerifier
    <2> QED
      BY <1>1, <1>2, <2>1, CountIsApprovers DEF minted
  <1>6. /\ status' = [status EXCEPT ![c] =
              IF Cardinality(Approvers(votes[c]) \cup {v}) >= config.verifier_threshold
              THEN "Active" ELSE @]
        /\ status[c] = "Pending" /\ config # None /\ ~has_approval(v, c)
        /\ UNCHANGED <<owner, config>>
    BY <1>5 DEF approve_and_mint, may_vote, adminVars, RegistryTypeOK
  <1>7. v \notin Approvers(votes[c]) \cup Rejecters(votes[c])
    BY <1>6, NoSideYet
  <1>8. [threshold |-> config.verifier_threshold, quorum |-> config.verifier_quorum] # None
    BY <1>6, RegistryAssumption DEF RegistryTypeOK, Config
  <1> DEFINE Ayes == [d \in CreditIds |-> Approvers(votes[d])]
             Nays == [d \in CreditIds |-> Rejecters(votes[d])]
             Rule == IF config = None THEN None
                     ELSE [threshold |-> config.verifier_threshold,
                           quorum |-> config.verifier_quorum]
  <1>9. Ayes[c] = Approvers(votes[c]) /\ Nays[c] = Rejecters(votes[c])
    OBVIOUS
  <1>10. Rule # None /\ Rule.threshold = config.verifier_threshold /\ Rule' = Rule
    BY <1>6, <1>8
  <1>11. Ayes' = [Ayes EXCEPT ![c] = Ayes[c] \cup {v}] /\ Nays' = Nays
    BY <1>3, <1>4
  <1>12. /\ v \notin Ayes[c] \cup Nays[c]
         /\ status' = [status EXCEPT ![c] =
               IF Cardinality(Ayes[c] \cup {v}) >= Rule.threshold THEN "Active" ELSE status[c]]
         /\ status[c] = "Pending"
         /\ owner' = owner
    BY <1>6, <1>7, <1>9, <1>10
  <1>13. Ledger!Aye(v, c)
    BY <1>10, <1>11, <1>12, SameCount, Zenon DEF Ledger!Aye
  <1> QED
    BY <1>13 DEF Ledger!LedgerNext

\* A vote against a credit is a Nay of the ledger.
LEMMA RejectionIsNay ==
    ASSUME RegistryTypeOK, RegistryTypeOK', OneVotePerVerifier',
           NEW v \in Address, NEW c \in CreditIds, reject_credit(v, c)
    PROVE  Ledger!LedgerNext
  <1>1. /\ votes[c] \in Seq(Vote)
        /\ votes'[c] = Append(votes[c], [verifier |-> v, approved |-> FALSE])
        /\ votes'[c] \in Seq(Vote)
        /\ \A d \in CreditIds \ {c} : votes'[d] = votes[d]
    BY DEF reject_credit, write_approval, RegistryTypeOK
  <1>2. /\ Approvers(votes'[c]) = Approvers(votes[c])
        /\ Rejecters(votes'[c]) = Rejecters(votes[c]) \cup {v}
    <2>1. votes[c] \in Seq(Vote)
      BY <1>1
    <2>2. votes'[c] = Append(votes[c], [verifier |-> v, approved |-> FALSE])
      BY <1>1
    <2>3. /\ Approvers(votes'[c]) = Approvers(Append(votes[c], [verifier |-> v, approved |-> FALSE]))
          /\ Rejecters(votes'[c]) = Rejecters(Append(votes[c], [verifier |-> v, approved |-> FALSE]))
      BY <2>2, Zenon
    <2> QED
      BY <2>1, <2>3, RejectionRecord, Zenon
  <1>3. [d \in CreditIds |-> Rejecters(votes'[d])] =
           [[d \in CreditIds |-> Rejecters(votes[d])] EXCEPT ![c] = @ \cup {v}]
    BY <1>1, <1>2
  <1>4. [d \in CreditIds |-> Approvers(votes'[d])] = [d \in CreditIds |-> Approvers(votes[d])]
    BY <1>1, <1>2
  <1>5. rejected(votes'[c]) <=>
           Cardinality(Rejecters(votes[c]) \cup {v}) > config.verifier_quorum - config.verifier_threshold
    <2>1. \A i, j \in 1..Len(votes'[c]) : votes'[c][i].verifier = votes'[c][j].verifier => i = j
      BY DEF OneVotePerVerifier
    <2> QED
      BY <1>1, <1>2, <2>1, CountIsRejecters DEF rejected
  <1>6. /\ status' = [status EXCEPT ![c] =
              IF Cardinality(Rejecters(votes[c]) \cup {v}) > config.verifier_quorum - config.verifier_threshold
              THEN "Rejected" ELSE @]
        /\ status[c] = "Pending" /\ config # None /\ ~has_approval(v, c)
        /\ UNCHANGED <<owner, config>>
    BY <1>5 DEF reject_credit, may_vote, adminVars, RegistryTypeOK
  <1>7. v \notin Approvers(votes[c]) \cup Rejecters(votes[c])
    BY <1>6, NoSideYet
  <1>8. [threshold |-> config.verifier_threshold, quorum |-> config.verifier_quorum] # None
    BY <1>6, RegistryAssumption DEF RegistryTypeOK, Config
  <1> DEFINE Ayes == [d \in CreditIds |-> Approvers(votes[d])]
             Nays == [d \in CreditIds |-> Rejecters(votes[d])]
             Rule == IF config = None THEN None
                     ELSE [threshold |-> config.verifier_threshold,
                           quorum |-> config.verifier_quorum]
  <1>9. Ayes[c] = Approvers(votes[c]) /\ Nays[c] = Rejecters(votes[c])
    OBVIOUS
  <1>10. /\ Rule # None /\ Rule' = Rule
         /\ Rule.threshold = config.verifier_threshold
         /\ Rule.quorum = config.verifier_quorum
    BY <1>6, <1>8
  <1>11. Nays' = [Nays EXCEPT ![c] = Nays[c] \cup {v}] /\ Ayes' = Ayes
    BY <1>3, <1>4
  <1>12. /\ v \notin Ayes[c] \cup Nays[c]
         /\ status' = [status EXCEPT ![c] =
               IF Cardinality(Nays[c] \cup {v}) > Rule.quorum - Rule.threshold
               THEN "Rejected" ELSE status[c]]
         /\ status[c] = "Pending"
         /\ owner' = owner
    BY <1>6, <1>7, <1>9, <1>10
  <1>13. Ledger!Nay(v, c)
    BY <1>10, <1>11, <1>12, SameCount, Zenon DEF Ledger!Nay
  <1> QED
    BY <1>13 DEF Ledger!LedgerNext

\* The administration sets the voting rule or leaves the ledger alone.
LEMMA AdminSetsRule ==
    ASSUME RegistryTypeOK, RegistryTypeOK', AdminNext(Address)
    PROVE  Ledger!LedgerNext \/ UNCHANGED Ledger!ledgerVars
  <1>1. UNCHANGED <<status, owner, votes>>
    BY AdminFrame DEF creditVars
  <1>2. CASE UNCHANGED config
    BY <1>1, <1>2 DEF Ledger!ledgerVars
  <1>3. CASE ~ UNCHANGED config
    <2>1. config' \in Config /\ config' # None
      <3>1. config' # None
        <4>1. CASE \E a \in Admins, t, q \in VoteCount : init(a, t, q)
          BY <4>1, RegistryAssumption, DefaultParamsAssumption DEF init
        <4>2. CASE \E a \in Address, t, q \in VoteCount, p \in Params : update_config(a, t, q, p)
          <5>1. PICK a \in Address, t, q \in VoteCount, p \in Params : update_config(a, t, q, p)
            BY <4>2
          <5>2. config' = [admin |-> config.admin, verifier_threshold |-> t,
                           verifier_quorum |-> q, params |-> p] /\ config.admin \in Admins
            BY <5>1 DEF update_config, RegistryTypeOK, Config
          <5> QED
            BY <5>2, RegistryAssumption
        <4> QED
          BY <1>3, <4>1, <4>2 DEF AdminNext, add_verifier, remove_verifier, add_bridge,
             remove_bridge, add_retirer, remove_retirer
      <3> QED
        BY <3>1 DEF RegistryTypeOK
    <2>2. config'.verifier_threshold \in VoteCount /\ config'.verifier_quorum \in VoteCount
      BY <2>1 DEF Config
    <2>3. PICK r \in {[threshold |-> t, quorum |-> q] : t, q \in VoteCount} :
             r = [threshold |-> config'.verifier_threshold, quorum |-> config'.verifier_quorum]
      <3>1. PICK x, y \in VoteCount : x = config'.verifier_threshold /\ y = config'.verifier_quorum
        BY <2>2
      <3>2. [threshold |-> x, quorum |-> y] \in {[threshold |-> t, quorum |-> q] : t, q \in VoteCount}
        OBVIOUS
      <3> QED
        BY <3>1, <3>2
    <2>4. Ledger!SetRule(r)
      BY <1>1, <2>1, <2>3 DEF Ledger!SetRule
    <2> QED
      BY <2>4 DEF Ledger!LedgerNext
  <1> QED
    BY <1>2, <1>3

\* Every step of the registry is a step of the ledger or leaves it alone.
LEMMA LedgerStep ==
    RegistryTypeOK /\ RegistryTypeOK' /\ OneVotePerVerifier' /\ Book /\ Step
       => [Ledger!LedgerNext]_(Ledger!ledgerVars)
  <1> SUFFICES ASSUME RegistryTypeOK, RegistryTypeOK', OneVotePerVerifier', Book, Step
               PROVE  Ledger!LedgerNext \/ UNCHANGED Ledger!ledgerVars
    OBVIOUS
  <1>1. CASE UNCHANGED registryVars
    BY <1>1 DEF registryVars, Ledger!ledgerVars
  <1>2. CASE AdminNext(Address)
    BY <1>2, AdminSetsRule
  <1>3. ASSUME NEW a \in Address, NEW m \in Metadata, submit_credit(a, m)
        PROVE  Ledger!LedgerNext
    BY <1>3, StoreCreates DEF submit_credit, adminVars
  <1>4. ASSUME NEW b \in Address, NEW to \in Address, NEW m \in Metadata, mint_bridged(b, to, m)
        PROVE  Ledger!LedgerNext
    <2>1. counter + 1 \in Nat
      BY DEF RegistryTypeOK
    <2> QED
      BY <1>4, <2>1, StoreCreates DEF mint_bridged, adminVars
  <1>5. ASSUME NEW v \in Address, NEW c \in CreditIds, approve_and_mint(v, c) \/ reject_credit(v, c)
        PROVE  Ledger!LedgerNext
    BY <1>5, ApprovalIsAye, RejectionIsNay
  <1>6. ASSUME NEW from \in Address, NEW to \in Address, NEW c \in CreditIds, transfer_credit(from, to, c)
        PROVE  Ledger!LedgerNext
    <2>1. Ledger!Move(c, to)
      BY <1>6 DEF transfer_credit, may_transfer, adminVars, Ledger!Move
    <2> QED
      BY <2>1 DEF Ledger!LedgerNext
  <1>7. ASSUME NEW k \in Address, NEW c \in CreditIds, mark_retired(k, c)
        PROVE  Ledger!LedgerNext
    <2>1. status' = [d \in CreditIds |-> IF d \in {c} THEN "Retired" ELSE status[d]]
      BY <1>7 DEF mark_retired, RegistryTypeOK
    <2>2. Ledger!Retire({c})
      BY <1>7, <2>1 DEF mark_retired, adminVars, Ledger!Retire
    <2> QED
      BY <2>2 DEF Ledger!LedgerNext
  <1> QED
    BY <1>1, <1>2, <1>3, <1>4, <1>5, <1>6, <1>7 DEF Step, RegistryNext, CreditNext

\* The registry implements the ledger: its records, its list of verifiers and
\* its counter never decide a credit otherwise than the two sets of verifiers
\* and the rule in force do.
THEOREM RegistryImplementsLedger == RegistrySpec => ImplementsLedger
  <1>1. RegistryInit => Ledger!LedgerInit
    BY DEF RegistryInit, Ledger!LedgerInit, Approvers, Rejecters
  <1> QED
    BY <1>1, LedgerStep, TypeCorrect, VoteOnce, BookInOrder, PTL
       DEF RegistrySpec, Step, ImplementsLedger, Ledger!LedgerSpec

=============================================================================
