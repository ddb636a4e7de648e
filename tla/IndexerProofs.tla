---------------------------- MODULE IndexerProofs ----------------------------
(***************************************************************************)
(* Theorems about the indexer: what the loop of sync.ts may leave behind   *)
(* or take twice, what the processors leave in the tables, and that the    *)
(* tables mirror the chain when nothing failed; for any chain, page size,  *)
(* fault, restart and number of events.                                    *)
(***************************************************************************)
EXTENDS IndexerSync, FoldLemmas

scan_iter(answer, start) ==
  CHOOSE iter : iter = [T \in SUBSET DOMAIN answer |->
      IF T = {} THEN start ELSE take(iter[T \ {Max(T)}], answer[Max(T)])]

\* The loop over a page is a recursion on the prefixes of the page.
LEMMA ScanIsIter ==
  ASSUME NEW answer, NEW start
  PROVE scan(answer, start) = scan_iter(answer, start)[DOMAIN answer]
  BY DEF scan_iter, scan, FoldLeft, MapThenFoldSet

Cursors == [ledgerSequence : Nat \ {0}, txIndex : Nat]

Accs == [seen : Cursors, saw : BOOLEAN, events : Seq(Nat)]

\* What the loop holds after each event of a page.
IsRun(run, A, answer, start, n) ==
  /\ run \in [0..n -> A]
  /\ run[0] = start
  /\ \A k \in 1..n : run[k] = take(run[k - 1], answer[k])
  /\ scan(answer, start) = run[n]

\* Where every event leads from one accumulator to another, the loop has a run: one
\* accumulator after each event of the page, the last one being its result.
LEMMA ScanRuns ==
  ASSUME NEW n \in Nat, NEW answer, DOMAIN answer = 1..n, NEW A, NEW start \in A,
         \A acc \in A : \A k \in 1..n : take(acc, answer[k]) \in A
  PROVE \E run : IsRun(run, A, answer, start, n)
<1>0. start \in A /\ \A acc \in A : \A k \in 1..n : take(acc, answer[k]) \in A
  OBVIOUS
<1> DEFINE S == 1..n
<1> DEFINE ch == [T \in SUBSET S |-> Max(T)]
<1> DEFINE F == [p \in S \X A |-> take(p[2], answer[p[1]])]
<1>1. IsFiniteSet(S)
  BY FS_Interval
<1>2. \A T \in SUBSET S : T # {} => ch[T] \in T /\ ch[T] = Max(T)
  BY MaxIsGreatest
<1>3. F \in [S \X A -> A]
  BY <1>0
<1>4. PICK h \in [SUBSET S -> A] : \A T \in SUBSET S : FoldsAt(h, T, start, F, ch)
  <2>1. \A T \in SUBSET S : T # {} => ch[T] \in T
    BY <1>2
  <2> HIDE DEF S, ch, F
  <2> QED BY <1>0, <1>1, <1>3, <2>1, FoldExists
<1>5. ASSUME NEW T \in SUBSET S
      PROVE h[T] = IF T = {} THEN start ELSE take(h[T \ {Max(T)}], answer[Max(T)])
  <2>1. CASE T = {}
    BY <1>4, <2>1 DEF FoldsAt
  <2>2. CASE T # {}
    <3>1. h[T] = F[<<ch[T], h[T \ {ch[T]}]>>]
      BY <1>4, <2>2 DEF FoldsAt
    <3>2. ch[T] \in S /\ h[T \ {ch[T]}] \in A
      BY <1>2, <2>2
    <3>3. F[<<ch[T], h[T \ {ch[T]}]>>] = take(h[T \ {ch[T]}], answer[ch[T]])
      <4> HIDE DEF ch, S
      <4> QED BY <3>2
    <3> HIDE DEF F, ch
    <3> QED BY <3>1, <3>3, <1>2, <2>2
  <2> QED BY <2>1, <2>2
<1>6. h = [T \in SUBSET S |-> IF T = {} THEN start ELSE take(h[T \ {Max(T)}], answer[Max(T)])]
  BY <1>5
<1> DEFINE g == scan_iter(answer, start)
<1>7. g = [T \in SUBSET S |-> IF T = {} THEN start ELSE take(g[T \ {Max(T)}], answer[Max(T)])]
  BY <1>6 DEF scan_iter
<1> HIDE DEF g
<1>8. ASSUME NEW T \in SUBSET S PROVE g[T] = h[T]
  <2> DEFINE Bad == {U \in SUBSET S : g[U] # h[U]}
  <2>1. SUFFICES ASSUME Bad # {} PROVE FALSE
    OBVIOUS
  <2>2. PICK U \in Bad : \A W \in SUBSET U : W \in Bad => W = U
    <3>1. Bad \in SUBSET SUBSET S
      OBVIOUS
    <3> HIDE DEF Bad, S
    <3> QED BY <1>1, <2>1, <3>1, SetSubsetMin
  <2>3. U \in SUBSET S /\ g[U] # h[U]
    BY <2>2
  <2>4. U # {}
    <3>1. {} \in SUBSET S
      OBVIOUS
    <3>2. g[{}] = start /\ h[{}] = start
      BY <3>1, <1>5, <1>7
    <3> HIDE DEF Bad, S
    <3> QED BY <2>3, <3>2
  <2>5. Max(U) \in U
    BY <2>3, <2>4, MaxIsGreatest
  <2>6. g[U \ {Max(U)}] = h[U \ {Max(U)}]
    <3>1. /\ U \ {Max(U)} \in SUBSET U /\ U \ {Max(U)} \in SUBSET S
          /\ U \ {Max(U)} # U
      BY <2>3, <2>5
    <3>2. U \ {Max(U)} \notin Bad
      <4> HIDE DEF Bad, S
      <4> QED BY <2>2, <3>1
    <3> HIDE DEF S
    <3> QED BY <3>1, <3>2
  <2> QED BY <2>3, <2>4, <2>6, <1>5, <1>7
<1> DEFINE run == [k \in 0..n |-> h[1..k]]
<1>9. run \in [0..n -> A]
  <2>1. \A k \in 0..n : 1..k \in SUBSET S
    OBVIOUS
  <2> QED BY <2>1
<1>10. run[0] = start
  <2>1. 1..0 = {} /\ 0 \in 0..n /\ {} \in SUBSET S
    OBVIOUS
  <2>2. h[{}] = start
    <3> HIDE DEF S
    <3> QED BY <2>1, <1>5
  <2> QED BY <2>1, <2>2
<1>11. ASSUME NEW k \in 1..n PROVE run[k] = take(run[k - 1], answer[k])
  <2>1. 1..k \in SUBSET S /\ 1..k # {} /\ k \in 0..n /\ k - 1 \in 0..n
    <3>1. k \in 0..n /\ k - 1 \in 0..n /\ k \in 1..k
      OBVIOUS
    <3>2. \A j \in 1..k : j \in 1..n
      OBVIOUS
    <3> QED BY <3>1, <3>2
  <2>2. Max(1..k) = k /\ (1..k) \ {k} = 1..(k - 1)
    BY PrefixMax
  <2>3. h[1..k] = take(h[(1..k) \ {Max(1..k)}], answer[Max(1..k)])
    <3> HIDE DEF S
    <3> QED BY <1>5, <2>1
  <2> QED BY <2>1, <2>2, <2>3
<1>12. scan(answer, start) = run[n]
  <2>1. S \in SUBSET S /\ n \in 0..n
    OBVIOUS
  <2>2. scan(answer, start) = g[S]
    BY ScanIsIter DEF g
  <2>3. g[S] = h[S]
    <3> HIDE DEF S
    <3> QED BY <1>8, <2>1
  <2> QED BY <2>1, <2>2, <2>3
<1>13. \A k \in 1..n : run[k] = take(run[k - 1], answer[k])
  BY <1>11
<1> HIDE DEF run
<1> QED BY <1>9, <1>10, <1>12, <1>13 DEF IsRun

\* The events of a ledger are those of transactions of their own, counted from
\* one: what the cursor takes for granted.
OnePerTransaction ==
  \A shape \in LedgerShapes : \A k \in DOMAIN shape :
     shape[k] > 0 /\ \A j \in 1..k - 1 : shape[j] < shape[k]

ChainInv ==
  /\ tip \in Nat
  /\ chain \in Seq([ledger : Nat, txIndex : Nat, event : Published])
  /\ future \in Seq(Published)
  /\ \A i \in DOMAIN chain : chain[i].ledger \in 1..tip /\ chain[i].txIndex > 0
  /\ \A i, j \in DOMAIN chain : i < j =>
        \/ chain[i].ledger < chain[j].ledger
        \/ chain[i].ledger = chain[j].ledger /\ chain[i].txIndex < chain[j].txIndex

Reached(at) ==
  /\ at \in Cursors
  /\ at.ledgerSequence <= tip \/ (at.ledgerSequence = tip + 1 /\ at.txIndex = 0)

Increasing(s) == \A j, k \in DOMAIN s : j < k => s[j] < s[k]

CursorInv ==
  /\ pc \in {"sleeping", "fetching", "processing"}
  /\ Reached(cursor) /\ Reached(seen)
  /\ handed \subseteq DOMAIN chain
  /\ \A i \in handed : ~after(i, cursor)
  /\ events \in Seq(Nat) /\ Increasing(events)
  /\ Range(events) \subseteq DOMAIN chain
  /\ faulty \in BOOLEAN

FetchInv ==
  pc = "fetching" =>
    /\ startLedger = seen.ledgerSequence
    /\ ~beyond(cursor, seen)
    /\ \A i \in Range(events) : after(i, cursor) /\ ~after(i, seen)
    /\ pageCount \in 0..MAX_PAGES - 1
    /\ sawEvents \in BOOLEAN
    /\ sawEvents => seen.ledgerSequence <= tip

ProcessInv ==
  pc = "processing" =>
    \A i \in Range(events) : ~after(i, cursor) /\ \A h \in handed : h < i

SleepInv == pc = "sleeping" => events = << >>

TakenInv ==
  ~faulty =>
    \A i \in DOMAIN chain :
      Relevant(i) /\ (~after(i, cursor) \/ (pc = "fetching" /\ ~after(i, seen)))
        => i \in handed \cup Range(events)

SyncInv == ChainInv /\ CursorInv /\ FetchInv /\ ProcessInv /\ SleepInv /\ TakenInv

\* The cursor's order and the chain's are the same.
LEMMA Order ==
  ASSUME ChainInv
  PROVE /\ \A i \in DOMAIN chain : position(i) \in Cursors
        /\ \A i, j \in DOMAIN chain : after(j, position(i)) <=> i < j
        /\ \A at \in Cursors : \A i, j \in DOMAIN chain :
              ~after(i, at) /\ after(j, at) => i < j
        /\ \A p, q \in Cursors : ~beyond(p, q) =>
              \A i \in DOMAIN chain : ~after(i, p) => ~after(i, q)
        /\ \A at \in Cursors : \A i \in DOMAIN chain : after(i, at) => ~beyond(at, position(i))
        /\ \A i \in DOMAIN chain : position(i).ledgerSequence <= tip
<1>1. ASSUME NEW i \in DOMAIN chain
      PROVE /\ chain[i].ledger \in Nat \ {0} /\ chain[i].ledger <= tip
            /\ chain[i].txIndex \in Nat
  <2>1. chain[i] \in [ledger : Nat, txIndex : Nat, event : Published]
    BY ElementIn DEF ChainInv
  <2>2. chain[i].ledger \in 1..tip /\ tip \in Nat
    BY DEF ChainInv
  <2> QED BY <2>1, <2>2
<1>2. DOMAIN chain \subseteq Nat
  BY DEF ChainInv
<1>3. \A i, j \in DOMAIN chain : i < j =>
        \/ chain[i].ledger < chain[j].ledger
        \/ chain[i].ledger = chain[j].ledger /\ chain[i].txIndex < chain[j].txIndex
  BY DEF ChainInv
<1>4. \A i \in DOMAIN chain : position(i) \in Cursors
  BY <1>1 DEF position, Cursors
<1>5. ASSUME NEW i \in DOMAIN chain, NEW j \in DOMAIN chain
      PROVE after(j, position(i)) <=> i < j
  <2>1. i \in Nat /\ j \in Nat
    BY <1>2
  <2>2. i < j \/ i = j \/ j < i
    BY <2>1
  <2> QED BY <1>1, <1>3, <2>1, <2>2 DEF after, position
<1>6. ASSUME NEW at \in Cursors, NEW i \in DOMAIN chain, NEW j \in DOMAIN chain,
             ~after(i, at), after(j, at)
      PROVE i < j
  <2>1. i \in Nat /\ j \in Nat
    BY <1>2
  <2>2. at.ledgerSequence \in Nat /\ at.txIndex \in Nat
    BY DEF Cursors
  <2>3. ~(j < i) /\ i # j
    BY <1>1, <1>3, <1>6, <2>2 DEF after
  <2> QED BY <2>1, <2>3
<1>7. ASSUME NEW p \in Cursors, NEW q \in Cursors, ~beyond(p, q),
             NEW i \in DOMAIN chain, ~after(i, p)
      PROVE ~after(i, q)
  <2>1. /\ p.ledgerSequence \in Nat /\ p.txIndex \in Nat
        /\ q.ledgerSequence \in Nat /\ q.txIndex \in Nat
    BY DEF Cursors
  <2> QED BY <1>1, <1>7, <2>1 DEF after, beyond
<1>8. ASSUME NEW at \in Cursors, NEW i \in DOMAIN chain, after(i, at)
      PROVE ~beyond(at, position(i))
  <2>1. at.ledgerSequence \in Nat /\ at.txIndex \in Nat
    BY DEF Cursors
  <2> QED BY <1>1, <1>8, <2>1 DEF after, beyond, position
<1>9. \A i \in DOMAIN chain : position(i).ledgerSequence <= tip
  BY <1>1 DEF position
<1> QED BY <1>4, <1>5, <1>6, <1>7, <1>8, <1>9

\* A page is a stretch of the chain, and a short page is its end.
LEMMA PageIs ==
  ASSUME IndexerAssumption, ChainInv, NEW from \in Nat
  PROVE \E f \in 0..Len(chain), n \in 0..PAGE_LIMIT :
          /\ page(from) = [k \in 1..n |-> f + k]
          /\ f + n <= Len(chain)
          /\ \A i \in 1..f : chain[i].ledger < from
          /\ \A i \in f + 1..Len(chain) : chain[i].ledger >= from
          /\ n < PAGE_LIMIT => f + n = Len(chain)
<1> DEFINE found == {i \in DOMAIN chain : chain[i].ledger >= from}
<1> DEFINE N == Len(chain)
<1>1. N \in Nat /\ DOMAIN chain = 1..N /\ \A i \in 1..N : chain[i].ledger \in Nat
  BY DEF ChainInv
<1>2. ASSUME NEW i \in 1..N, NEW j \in 1..N, i < j PROVE chain[i].ledger <= chain[j].ledger
  <2>1. chain[i].ledger < chain[j].ledger \/ chain[i].ledger = chain[j].ledger
    BY <1>1, <1>2 DEF ChainInv
  <2> QED BY <1>1, <2>1
<1>3. PICK f \in 0..N : found = f + 1..N
  <2>1. CASE found = {}
    <3>1. N \in 0..N /\ N + 1..N = {}
      BY <1>1
    <3> QED BY <2>1, <3>1
  <2>2. CASE found # {}
    <3>1. found \in SUBSET Nat
      BY <1>1
    <3>2. PICK m \in found : \A i \in found : m <= i
      <4> HIDE DEF found
      <4> QED BY <2>2, <3>1, NatMin
    <3>3. m \in 1..N /\ m - 1 \in 0..N
      BY <1>1, <3>2
    <3>4. \A i \in m..N : i \in found
      BY <1>1, <1>2, <3>2, <3>3
    <3>5. \A i \in found : i \in m..N
      BY <1>1, <3>2
    <3>6. found = (m - 1) + 1..N
      <4> HIDE DEF found
      <4>1. (m - 1) + 1 = m
        BY <3>3
      <4> QED BY <3>4, <3>5, <4>1
    <3> QED BY <3>3, <3>6
  <2> QED BY <2>1, <2>2
<1>4. Cardinality(found) = N - f
  <2>1. f \in Nat /\ f <= N /\ f + 1 \in Int /\ N \in Int
    BY <1>1
  <2>2. Cardinality(f + 1..N) = IF f + 1 > N THEN 0 ELSE N - (f + 1) + 1
    BY <2>1, FS_Interval
  <2> HIDE DEF N, found
  <2> QED BY <1>3, <2>1, <2>2
<1> DEFINE n == IF Cardinality(found) < PAGE_LIMIT THEN Cardinality(found) ELSE PAGE_LIMIT
<1>5. PAGE_LIMIT \in Nat \ {0}
  BY DEF IndexerAssumption
<1>6. /\ n \in 0..PAGE_LIMIT /\ f + n <= N /\ N - Cardinality(found) = f
      /\ n < PAGE_LIMIT => f + n = N
  <2>1. f \in Nat /\ f <= N
    BY <1>1
  <2> HIDE DEF N, found
  <2> QED BY <1>1, <1>4, <1>5, <2>1
<1>7. page(from) = [k \in 1..n |-> f + k]
  BY <1>6 DEF page
<1>8. \A i \in 1..f : chain[i].ledger < from
  <2> SUFFICES ASSUME NEW i \in 1..f PROVE chain[i].ledger < from
    OBVIOUS
  <2>1. i \in 1..N /\ i \notin f + 1..N
    BY <1>1
  <2>2. i \notin found
    <3> HIDE DEF found
    <3> QED BY <2>1, <1>3
  <2> QED BY <1>1, <2>1, <2>2
<1>9. \A i \in f + 1..N : chain[i].ledger >= from
  BY <1>3
<1> HIDE DEF n
<1> QED BY <1>6, <1>7, <1>8, <1>9

\* The position after k events of the page that starts behind event f.
SeenUpto(acc, start, f, k) ==
  /\ ~beyond(start.seen, acc.seen)
  /\ acc.seen = start.seen \/ \E j \in f + 1..f + k : acc.seen = position(j)
  /\ acc.saw => start.saw \/ acc.seen.ledgerSequence <= tip
  /\ \A i \in f + 1..f + k : chain[i].event.ok => ~after(i, acc.seen)

\* The events taken by then.
TakenUpto(acc, start, f, k) ==
  /\ Increasing(acc.events)
  /\ \A i \in Range(acc.events) : i \in DOMAIN chain /\ ~after(i, acc.seen)
  /\ \A i \in Range(acc.events) : i \in Range(start.events) \/ after(i, start.seen)
  /\ \A i \in Range(start.events) : i \in Range(acc.events)
  /\ \A i \in f + 1..f + k : Relevant(i) /\ after(i, start.seen) => i \in Range(acc.events)

\* An event behind all that were taken keeps the order.
LEMMA AppendRange ==
  ASSUME NEW s \in Seq(Nat), NEW i \in Nat
  PROVE /\ Append(s, i) \in Seq(Nat)
        /\ \A x : x \in Range(Append(s, i)) <=> x \in Range(s) \/ x = i
        /\ Increasing(s) /\ (\A x \in Range(s) : x < i) => Increasing(Append(s, i))
<1> DEFINE a == Append(s, i)
<1>1. /\ a \in Seq(Nat) /\ DOMAIN a = 1..Len(s) + 1 /\ a[Len(s) + 1] = i
      /\ DOMAIN s = 1..Len(s) /\ Len(s) \in Nat /\ \A k \in 1..Len(s) : a[k] = s[k]
  OBVIOUS
<1> HIDE DEF a
<1>2. \A x : x \in Range(a) <=> x \in Range(s) \/ x = i
  <2> TAKE x
  <2>1. ASSUME x \in Range(a) PROVE x \in Range(s) \/ x = i
    <3>1. PICK k \in DOMAIN a : x = a[k]
      BY <2>1 DEF Range
    <3>2. k \in 1..Len(s) \/ k = Len(s) + 1
      BY <1>1
    <3> QED BY <1>1, <3>1, <3>2 DEF Range
  <2>2. ASSUME x \in Range(s) PROVE x \in Range(a)
    <3>1. PICK k \in DOMAIN s : x = s[k]
      BY <2>2 DEF Range
    <3>2. k \in DOMAIN a /\ a[k] = x
      BY <1>1, <3>1
    <3> QED BY <3>2 DEF Range
  <2>3. i \in Range(a)
    BY <1>1 DEF Range
  <2> QED BY <2>1, <2>2, <2>3
<1>3. ASSUME Increasing(s), \A x \in Range(s) : x < i PROVE Increasing(a)
  <2> SUFFICES ASSUME NEW j \in DOMAIN a, NEW k \in DOMAIN a, j < k PROVE a[j] < a[k]
    BY DEF Increasing
  <2>1. j \in 1..Len(s)
    BY <1>1
  <2>2. CASE k \in 1..Len(s)
    BY <1>1, <1>3, <2>1, <2>2 DEF Increasing
  <2>3. CASE k = Len(s) + 1
    <3>1. s[j] \in Range(s)
      BY <1>1, <2>1 DEF Range
    <3> QED BY <1>1, <1>3, <2>1, <2>3, <3>1
  <2> QED BY <1>1, <2>2, <2>3
<1> QED BY <1>1, <1>2, <1>3 DEF a

\* A sequence of numbers holds numbers.
LEMMA RangeOfNats ==
  ASSUME NEW s \in Seq(Nat) PROVE Range(s) \subseteq Nat
  BY ElementIn DEF Range

\* One more event of the page: the position is behind it, and it is taken if it was
\* ahead of the cursor and has a processor.
LEMMA TakeKeeps ==
  ASSUME ChainInv, NEW start \in Accs, NEW acc \in Accs, NEW f \in Nat, NEW k \in Nat,
         f + k + 1 \in DOMAIN chain,
         SeenUpto(acc, start, f, k), TakenUpto(acc, start, f, k)
  PROVE LET new == take(acc, f + k + 1) IN
        /\ new \in Accs
        /\ SeenUpto(new, start, f, k + 1)
        /\ TakenUpto(new, start, f, k + 1)
<1> DEFINE i == f + k + 1
<1> DEFINE new == take(acc, i)
<1>0. /\ i \in DOMAIN chain /\ i \in Nat /\ f + (k + 1) = i
      /\ f + 1..f + k + 1 = (f + 1..f + k) \cup {i}
      /\ \A j \in f + 1..f + k : j < i /\ j \in DOMAIN chain
  <2>1. DOMAIN chain = 1..Len(chain) /\ Len(chain) \in Nat
    BY DEF ChainInv
  <2> QED BY <2>1
<1> HIDE DEF i
<1>1. /\ acc.seen \in Cursors /\ acc.saw \in BOOLEAN /\ acc.events \in Seq(Nat)
      /\ start.seen \in Cursors
  BY DEF Accs
<1>2. \A j \in Range(acc.events) : j \in Nat
  BY <1>1, RangeOfNats
<1>3. CASE ~chain[i].event.ok \/ ~after(i, acc.seen)
  <2>1. new = acc
    BY <1>3 DEF take
  <2>2. chain[i].event.ok => ~after(i, acc.seen)
    BY <1>3
  <2>3. Relevant(i) /\ after(i, start.seen) => FALSE
    <3>1. SUFFICES ASSUME Relevant(i), after(i, start.seen) PROVE FALSE
      OBVIOUS
    <3>2. ~after(i, acc.seen)
      BY <1>3, <3>1 DEF Relevant
    <3>3. PICK j \in f + 1..f + k : acc.seen = position(j)
      BY <3>1, <3>2 DEF SeenUpto
    <3>4. after(i, position(j))
      BY <1>0, Order
    <3> QED BY <3>2, <3>3, <3>4
  <2>4. SeenUpto(acc, start, f, k + 1)
    BY <1>0, <2>2 DEF SeenUpto
  <2>5. TakenUpto(acc, start, f, k + 1)
    BY <1>0, <2>3 DEF TakenUpto
  <2> QED BY <1>0, <2>1, <2>4, <2>5 DEF i
<1>4. CASE chain[i].event.ok /\ after(i, acc.seen)
  <2> DEFINE grown == IF chain[i].event.topic \in Topics THEN Append(acc.events, i)
                      ELSE acc.events
  <2>1. new = [seen |-> position(i), saw |-> TRUE, events |-> grown]
    BY <1>4 DEF take
  <2>2. \A j \in Range(acc.events) : j < i
    BY <1>0, <1>1, <1>4, Order DEF TakenUpto
  <2>3. /\ grown \in Seq(Nat) /\ Increasing(grown)
        /\ \A j \in Range(grown) : j \in Range(acc.events) \/ j = i
        /\ \A j \in Range(acc.events) : j \in Range(grown)
        /\ chain[i].event.topic \in Topics => i \in Range(grown)
    BY <1>0, <1>1, <2>2, AppendRange DEF TakenUpto
  <2> HIDE DEF grown
  <2>4. position(i) \in Cursors /\ position(i).ledgerSequence <= tip
    BY <1>0, Order
  <2>5. new \in Accs /\ new.seen = position(i) /\ new.events = grown
    BY <2>1, <2>3, <2>4 DEF Accs
  <2> HIDE DEF new
  <2>6. ~beyond(acc.seen, position(i))
    BY <1>0, <1>1, <1>4, Order
  <2>7. after(i, start.seen)
    <3>1. CASE acc.seen = start.seen
      BY <1>4, <3>1
    <3>2. CASE acc.seen # start.seen
      <4>1. ~beyond(start.seen, acc.seen)
        BY DEF SeenUpto
      <4> QED BY <1>0, <1>1, <1>4, <4>1, Order
    <3> QED BY <3>1, <3>2
  <2>8. ~beyond(start.seen, position(i))
    BY <1>0, <1>1, <2>7, Order
  <2>9. ~after(i, position(i)) /\ \A j \in DOMAIN chain : j < i => ~after(j, position(i))
    <3>1. \A j \in DOMAIN chain : j \in Nat
      BY DEF ChainInv
    <3> QED BY <1>0, <3>1, Order
  <2>10. SeenUpto(new, start, f, k + 1)
    BY <1>0, <2>4, <2>5, <2>8, <2>9 DEF SeenUpto
  <2>11. TakenUpto(new, start, f, k + 1)
    <3>1. \A j \in Range(grown) : j \in DOMAIN chain /\ ~after(j, position(i))
      BY <1>0, <2>2, <2>3, <2>9 DEF TakenUpto
    <3>2. \A j \in Range(grown) : j \in Range(start.events) \/ after(j, start.seen)
      BY <2>3, <2>7 DEF TakenUpto
    <3>3. \A j \in Range(start.events) : j \in Range(grown)
      BY <2>3 DEF TakenUpto
    <3>4. \A j \in f + 1..f + k + 1 : Relevant(j) /\ after(j, start.seen) => j \in Range(grown)
      BY <1>0, <2>3 DEF TakenUpto, Relevant
    <3> QED BY <1>0, <2>3, <2>5, <3>1, <3>2, <3>3, <3>4 DEF TakenUpto
  <2> QED BY <1>0, <2>5, <2>10, <2>11 DEF i, new
<1> QED BY <1>3, <1>4

\* What a poll starts with is an accumulator.
LEMMA AccIn ==
  ASSUME NEW p \in Cursors, NEW s \in Seq(Nat)
  PROVE [seen |-> p, saw |-> TRUE, events |-> s] \in Accs
  BY DEF Accs

\* After a page the cursor is behind all of its events and what was ahead is taken.
LEMMA ScanSound ==
  ASSUME ChainInv, NEW start \in Accs, NEW f \in Nat, NEW n \in Nat, f + n <= Len(chain),
         Increasing(start.events),
         \A i \in Range(start.events) : i \in DOMAIN chain /\ ~after(i, start.seen)
  PROVE LET r == scan([k \in 1..n |-> f + k], start) IN
        r \in Accs /\ SeenUpto(r, start, f, n) /\ TakenUpto(r, start, f, n)
<1> DEFINE answer == [k \in 1..n |-> f + k]
<1>1. \A k \in 1..n : answer[k] = f + k /\ f + k \in DOMAIN chain
  <2>1. DOMAIN chain = 1..Len(chain) /\ Len(chain) \in Nat
    BY DEF ChainInv
  <2> QED BY <2>1
<1>2. \A acc \in Accs : \A k \in 1..n : take(acc, answer[k]) \in Accs
  <2> SUFFICES ASSUME NEW acc \in Accs, NEW k \in 1..n PROVE take(acc, f + k) \in Accs
    BY <1>1
  <2>1. position(f + k) \in Cursors /\ f + k \in Nat
    BY <1>1, Order
  <2>2. acc.events \in Seq(Nat)
    BY DEF Accs
  <2>3. Append(acc.events, f + k) \in Seq(Nat)
    BY <2>1, <2>2
  <2>4. CASE ~chain[f + k].event.ok \/ ~after(f + k, acc.seen)
    BY <2>4 DEF take
  <2>5. CASE chain[f + k].event.ok /\ after(f + k, acc.seen)
    <3> DEFINE grown == IF chain[f + k].event.topic \in Topics THEN Append(acc.events, f + k)
                        ELSE acc.events
    <3>1. take(acc, f + k) = [seen |-> position(f + k), saw |-> TRUE, events |-> grown]
      BY <2>5 DEF take
    <3>2. grown \in Seq(Nat)
      BY <2>2, <2>3
    <3> HIDE DEF grown
    <3> QED BY <2>1, <3>1, <3>2, AccIn
  <2> QED BY <2>4, <2>5
<1>3. DOMAIN answer = 1..n
  OBVIOUS
<1> HIDE DEF answer
<1>4a. PICK run : IsRun(run, Accs, answer, start, n)
  BY <1>2, <1>3, ScanRuns
<1>4. /\ run \in [0..n -> Accs]
      /\ run[0] = start
      /\ \A k \in 1..n : run[k] = take(run[k - 1], answer[k])
      /\ scan(answer, start) = run[n]
  BY <1>4a DEF IsRun
<1> DEFINE Good(k) == SeenUpto(run[k], start, f, k) /\ TakenUpto(run[k], start, f, k)
<1>5. Good(0)
  <2>1. f + 1..f + 0 = {}
    OBVIOUS
  <2>2. ~beyond(start.seen, start.seen)
    <3>1. start.seen.ledgerSequence \in Nat /\ start.seen.txIndex \in Nat
      BY DEF Accs, Cursors
    <3> QED BY <3>1 DEF beyond
  <2>3. SeenUpto(start, start, f, 0)
    BY <2>1, <2>2 DEF SeenUpto
  <2>4. TakenUpto(start, start, f, 0)
    BY <2>1 DEF TakenUpto
  <2> QED BY <1>4, <2>3, <2>4
<1>6. ASSUME NEW k \in Nat, k + 1 <= n, Good(k) PROVE Good(k + 1)
  <2>1. k \in 0..n /\ k + 1 \in 1..n /\ (k + 1) - 1 = k /\ f + (k + 1) = f + k + 1
    BY <1>6
  <2>2. run[k + 1] = take(run[k], f + k + 1) /\ f + k + 1 \in DOMAIN chain
    BY <1>1, <1>4, <2>1
  <2>3. run[k] \in Accs
    BY <1>4, <2>1
  <2>4. SeenUpto(take(run[k], f + k + 1), start, f, k + 1)
        /\ TakenUpto(take(run[k], f + k + 1), start, f, k + 1)
    BY <1>6, <2>2, <2>3, TakeKeeps
  <2> QED BY <2>2, <2>4
<1>7. Good(n)
  <2> DEFINE G == {k \in Nat : k <= n => Good(k)}
  <2>1. 0 \in G
    BY <1>5
  <2>2. \A k \in Nat : k \in G => k + 1 \in G
    <3> SUFFICES ASSUME NEW k \in Nat, k \in G, k + 1 <= n PROVE Good(k + 1)
      OBVIOUS
    <3>1. k <= n
      OBVIOUS
    <3>2. Good(k)
      <4> HIDE DEF Good
      <4> QED BY <3>1
    <3> HIDE DEF Good
    <3> QED BY <3>2, <1>6
  <2>3. Nat \subseteq G
    <3> HIDE DEF G
    <3> QED BY <2>1, <2>2, SetNatInduction
  <2> HIDE DEF Good
  <2> QED BY <2>3
<1>8. run[n] \in Accs
  <2>1. n \in 0..n
    OBVIOUS
  <2> QED BY <1>4, <2>1
<1> QED BY <1>4, <1>7, <1>8 DEF answer

SyncStep == [IndexerNext]_indexerVars

\* The loop starts with nothing taken.
LEMMA SyncInitially ==
  ASSUME IndexerAssumption, ScriptsAssumption, IndexerInit PROVE SyncInv
<1>1. ChainInv
  BY DEF IndexerInit, ChainInv, ScriptsAssumption
<1>2. CursorInv
  <2>1. Reached(Genesis)
    BY DEF IndexerInit, Reached, Cursors, Genesis
  <2>2. << >> \in Seq(Nat) /\ Increasing(<< >>)
    BY DEF Increasing
  <2>3. /\ pc = "sleeping" /\ cursor = Genesis /\ seen = Genesis /\ handed = {}
        /\ events = << >> /\ faulty = FALSE
    BY DEF IndexerInit
  <2>4. Range(events) = {}
    BY <2>3 DEF Range
  <2> QED BY <2>1, <2>2, <2>3, <2>4 DEF CursorInv
<1>3. chain = << >> /\ pc = "sleeping" /\ events = << >>
  BY DEF IndexerInit
<1>4. TakenInv
  BY <1>3 DEF TakenInv
<1> QED BY <1>1, <1>2, <1>3, <1>4 DEF SyncInv, FetchInv, ProcessInv, SleepInv

\* A ledger that closes adds its events behind those of the chain.
Added(shape) ==
  LET N == Len(chain)
      m == Len(shape) IN
  /\ N \in Nat /\ m \in Nat /\ DOMAIN chain = 1..N /\ DOMAIN shape = 1..m
  /\ chain' \in Seq([ledger : Nat, txIndex : Nat, event : Published])
  /\ future' \in Seq(Published)
  /\ DOMAIN chain' = 1..N + m
  /\ \A i \in 1..N : chain'[i] = chain[i]
  /\ \A i \in N + 1..N + m : /\ i - N \in 1..m
                            /\ chain'[i].ledger = tip + 1
                            /\ chain'[i].txIndex = shape[i - N]
                            /\ chain'[i].event = future[i - N]
  /\ Len(future') = Len(future) - m
  /\ \A k \in DOMAIN future' : m + k \in DOMAIN future /\ future'[k] = future[m + k]

\* A ledger closes with one of the shapes that a ledger has.
LEMMA Closes ==
  ASSUME IndexerAssumption, tip \in Nat, future \in Seq(Published),
         chain \in Seq([ledger : Nat, txIndex : Nat, event : Published]), close_ledger
  PROVE \E shape \in LedgerShapes : Added(shape)
<1>1. PICK shape \in LedgerShapes :
         /\ Len(shape) <= Len(future)
         /\ chain' = chain \o [i \in 1..Len(shape) |->
                [ledger |-> tip + 1, txIndex |-> shape[i], event |-> future[i]]]
         /\ future' = SubSeq(future, Len(shape) + 1, Len(future))
  BY DEF close_ledger
<1> DEFINE R == [ledger : Nat, txIndex : Nat, event : Published]
<1> DEFINE N == Len(chain)
<1> DEFINE m == Len(shape)
<1> DEFINE new == [i \in 1..m |-> [ledger |-> tip + 1, txIndex |-> shape[i], event |-> future[i]]]
<1>2. /\ tip \in Nat /\ tip' = tip + 1 /\ tip' \in Nat
      /\ chain \in Seq(R) /\ future \in Seq(Published) /\ shape \in Seq(Nat)
  BY DEF close_ledger, IndexerAssumption
<1>3. N \in Nat /\ m \in Nat /\ DOMAIN chain = 1..N /\ DOMAIN shape = 1..m /\ m <= Len(future)
  BY <1>1, <1>2
<1>4. \A i \in 1..m : shape[i] \in Nat /\ future[i] \in Published /\ new[i] \in R
  <2> SUFFICES ASSUME NEW i \in 1..m PROVE shape[i] \in Nat /\ future[i] \in Published /\ new[i] \in R
    OBVIOUS
  <2>1. shape[i] \in Nat
    BY <1>2, <1>3, ElementIn
  <2>2. i \in DOMAIN future
    BY <1>2, <1>3
  <2>3. future[i] \in Published
    BY <1>2, <2>2, ElementIn
  <2>4. tip + 1 \in Nat
    BY <1>2
  <2> QED BY <2>1, <2>3, <2>4
<1>5. new \in Seq(R) /\ Len(new) = m
  <2> HIDE DEF R
  <2> QED BY <1>3, <1>4
<1>6. /\ chain' \in Seq(R)
      /\ DOMAIN chain' = 1..N + m
      /\ \A i \in 1..N : chain'[i] = chain[i]
      /\ \A i \in N + 1..N + m : chain'[i] = new[i - N]
  <2>1. chain' = chain \o new
    BY <1>1
  <2> HIDE DEF R, new
  <2>2. chain \in Seq(R) /\ new \in Seq(R)
    BY <1>2, <1>5
  <2>3. /\ chain \o new \in Seq(R)
        /\ DOMAIN (chain \o new) = 1..N + Len(new)
        /\ \A i \in 1..N : (chain \o new)[i] = chain[i]
        /\ \A i \in N + 1..N + Len(new) : (chain \o new)[i] = new[i - N]
    BY ONLY <2>2, ConcatIs
  <2> QED BY <1>5, <2>1, <2>3
<1>6a. \A i \in 1..m : /\ new[i].ledger = tip + 1 /\ new[i].txIndex = shape[i]
                       /\ new[i].event = future[i]
  OBVIOUS
<1> HIDE DEF R, new
<1>7. \A i \in N + 1..N + m : /\ i - N \in 1..m
                              /\ chain'[i].ledger = tip + 1
                              /\ chain'[i].txIndex = shape[i - N]
                              /\ chain'[i].event = future[i - N]
  <2> SUFFICES ASSUME NEW i \in N + 1..N + m
               PROVE /\ i - N \in 1..m
                     /\ chain'[i].ledger = tip + 1
                     /\ chain'[i].txIndex = shape[i - N]
                     /\ chain'[i].event = future[i - N]
    OBVIOUS
  <2>1. i - N \in 1..m
    BY <1>3
  <2> QED BY <1>6, <1>6a, <2>1
<1>8. /\ Len(future') = Len(future) - m
      /\ \A k \in DOMAIN future' : m + k \in DOMAIN future /\ future'[k] = future[m + k]
  <2>1. future' = SubSeq(future, m + 1, Len(future)) /\ Len(future) \in Nat
    BY <1>1, <1>2
  <2> HIDE DEF m
  <2> QED BY <1>2, <1>3, <2>1
<1>9. future' \in Seq(Published)
  <2>1. \A i \in Len(shape) + 1..Len(future) : future[i] \in Published
    BY <1>2, <1>3, ElementIn
  <2> QED BY <1>1, <1>2, <1>3, <2>1
<1>10. Added(shape)
  BY <1>3, <1>6, <1>7, <1>8, <1>9 DEF Added, R
<1> QED BY <1>10

\* A ledger that closes goes on where the chain ends.
LEMMA ClosesInOrder ==
  ASSUME IndexerAssumption, ScriptsAssumption, OnePerTransaction, ChainInv, close_ledger
  PROVE /\ ChainInv'
        /\ tip' = tip + 1
        /\ \A i \in DOMAIN chain : i \in DOMAIN chain' /\ chain'[i] = chain[i]
        /\ \A i \in DOMAIN chain' : i \notin DOMAIN chain =>
              chain'[i].ledger = tip + 1 /\ chain'[i].txIndex > 0
<1>0. /\ tip \in Nat /\ future \in Seq(Published)
      /\ chain \in Seq([ledger : Nat, txIndex : Nat, event : Published])
  BY DEF ChainInv
<1>1. PICK shape \in LedgerShapes : Added(shape)
  BY <1>0, Closes
<1> DEFINE R == [ledger : Nat, txIndex : Nat, event : Published]
<1> DEFINE N == Len(chain)
<1> DEFINE m == Len(shape)
<1>2. tip \in Nat /\ tip' = tip + 1 /\ tip' \in Nat /\ shape \in Seq(Nat)
  BY <1>0 DEF close_ledger, IndexerAssumption
<1>3. N \in Nat /\ m \in Nat /\ DOMAIN chain = 1..N /\ DOMAIN shape = 1..m
  BY <1>1 DEF Added
<1>6. /\ chain' \in Seq(R) /\ future' \in Seq(Published)
      /\ DOMAIN chain' = 1..N + m
      /\ \A i \in 1..N : chain'[i] = chain[i]
  BY <1>1 DEF Added
<1>7. \A i \in N + 1..N + m : /\ i - N \in 1..m
                              /\ chain'[i].ledger = tip + 1
                              /\ chain'[i].txIndex = shape[i - N]
  BY <1>1 DEF Added
<1> HIDE DEF R
<1>8. \A k \in 1..m : shape[k] > 0 /\ \A j \in 1..m : j < k => shape[j] < shape[k]
  <2> SUFFICES ASSUME NEW k \in 1..m
               PROVE shape[k] > 0 /\ \A j \in 1..m : j < k => shape[j] < shape[k]
    OBVIOUS
  <2>1. k \in DOMAIN shape /\ \A j \in 1..m : j < k => j \in 1..k - 1
    BY <1>3
  <2> QED BY <2>1 DEF OnePerTransaction
<1>10. ASSUME NEW i \in DOMAIN chain' PROVE chain'[i].ledger \in 1..tip' /\ chain'[i].txIndex > 0
  <2>1. CASE i \in 1..N
    <3>1. chain[i].ledger \in 1..tip /\ chain[i].txIndex > 0
      BY <1>3, <2>1 DEF ChainInv
    <3>2. chain'[i] = chain[i]
      BY <1>6, <2>1
    <3>3. chain[i].ledger \in 1..tip + 1
      BY <1>2, <3>1
    <3> QED BY <1>2, <3>1, <3>2, <3>3
  <2>2. CASE i \in N + 1..N + m
    <3>1. /\ i - N \in 1..m /\ chain'[i].ledger = tip + 1
          /\ chain'[i].txIndex = shape[i - N]
      BY <1>7, <2>2
    <3>2. shape[i - N] > 0
      BY <1>8, <3>1
    <3> QED BY <1>2, <3>1, <3>2
  <2> QED BY <1>3, <1>6, <2>1, <2>2
<1>11. ASSUME NEW i \in DOMAIN chain', NEW j \in DOMAIN chain', i < j
       PROVE \/ chain'[i].ledger < chain'[j].ledger
             \/ chain'[i].ledger = chain'[j].ledger /\ chain'[i].txIndex < chain'[j].txIndex
  <2>1. CASE j \in 1..N
    <3>1. i \in 1..N
      BY <1>3, <1>6, <1>11, <2>1
    <3>2. chain'[i] = chain[i] /\ chain'[j] = chain[j]
      BY <1>6, <2>1, <3>1
    <3>3. \/ chain[i].ledger < chain[j].ledger
          \/ chain[i].ledger = chain[j].ledger /\ chain[i].txIndex < chain[j].txIndex
      BY <1>3, <1>11, <2>1, <3>1 DEF ChainInv
    <3> QED BY <3>2, <3>3
  <2>2. CASE j \in N + 1..N + m /\ i \in 1..N
    <3>1. chain[i].ledger \in 1..tip
      BY <1>3, <2>2 DEF ChainInv
    <3>2. chain'[i].ledger = chain[i].ledger /\ chain'[j].ledger = tip + 1
      BY <1>6, <1>7, <2>2
    <3> QED BY <1>2, <3>1, <3>2
  <2>3. CASE j \in N + 1..N + m /\ i \in N + 1..N + m
    <3>1. i - N < j - N
      BY <1>3, <1>11, <2>3
    <3> QED BY <1>7, <1>8, <2>3, <3>1
  <2> QED BY <1>3, <1>6, <1>11, <2>1, <2>2, <2>3
<1>12. ChainInv'
  BY <1>2, <1>6, <1>10, <1>11 DEF ChainInv, R
<1>13. /\ \A i \in DOMAIN chain : i \in DOMAIN chain' /\ chain'[i] = chain[i]
       /\ \A i \in DOMAIN chain' : i \notin DOMAIN chain => i \in N + 1..N + m
  BY <1>3, <1>6
<1> QED BY <1>2, <1>7, <1>8, <1>12, <1>13

\* The order of the cursors is transitive and antisymmetric.
LEMMA BeyondOrder ==
  ASSUME NEW p \in Cursors, NEW q \in Cursors, NEW r \in Cursors
  PROVE /\ ~beyond(p, q) /\ ~beyond(q, r) => ~beyond(p, r)
        /\ ~beyond(p, q) /\ ~beyond(q, p) => p = q
<1>1. /\ p.ledgerSequence \in Nat /\ p.txIndex \in Nat
      /\ q.ledgerSequence \in Nat /\ q.txIndex \in Nat
      /\ r.ledgerSequence \in Nat /\ r.txIndex \in Nat
  BY DEF Cursors
<1>2. p.ledgerSequence = q.ledgerSequence /\ p.txIndex = q.txIndex => p = q
  BY DEF Cursors
<1> QED BY <1>1, <1>2 DEF beyond

\* A page, whether its first ledger was read or not, leaves nothing behind untaken.
LEMMA PageArrives ==
  ASSUME IndexerAssumption, SyncInv, NEW answer, NEW wrong \in BOOLEAN,
         page_arrives(answer, wrong),
         NEW f \in Nat, NEW n \in Nat, f + n <= Len(chain),
         answer = [k \in 1..n |-> f + k],
         wrong \/ /\ \A i \in 1..f : chain[i].ledger < startLedger
                  /\ n < PAGE_LIMIT => f + n = Len(chain)
  PROVE SyncInv'
<1> DEFINE start == [seen |-> seen, saw |-> sawEvents, events |-> events]
<1> DEFINE r == scan(answer, start)
<1> DEFINE drained == Len(answer) < PAGE_LIMIT
<1>1. pc = "fetching" /\ chain' = chain /\ tip' = tip /\ future' = future /\ handed' = handed
  BY DEF page_arrives, chainVars
<1>2. /\ ChainInv /\ CursorInv /\ FetchInv /\ TakenInv
  BY DEF SyncInv
<1>3. /\ start \in Accs /\ start.seen = seen /\ start.saw = sawEvents /\ start.events = events
  BY <1>1, <1>2 DEF Accs, CursorInv, FetchInv, Reached
<1>4. \A i \in Range(events) :
         i \in DOMAIN chain /\ ~after(i, seen) /\ after(i, cursor)
  BY <1>1, <1>2 DEF CursorInv, FetchInv
<1> HIDE DEF start
<1>5. r \in Accs /\ SeenUpto(r, start, f, n) /\ TakenUpto(r, start, f, n)
  <2>1. Increasing(start.events)
    BY <1>2, <1>3 DEF CursorInv
  <2>2. \A i \in Range(start.events) : i \in DOMAIN chain /\ ~after(i, start.seen)
    BY <1>3, <1>4
  <2> QED BY <1>2, <1>3, <2>1, <2>2, ScanSound
<1> HIDE DEF r
<1>6. /\ events' = r.events
      /\ faulty' = (faulty \/ wrong)
      /\ IF drained \/ pageCount + 1 = MAX_PAGES
         THEN cursor' = next_cursor(drained, r.saw, r.seen) /\ pc' = "processing" /\ fetchLocals
         ELSE /\ startLedger' = next_start(r.seen) /\ pageCount' = pageCount + 1
              /\ seen' = r.seen /\ sawEvents' = r.saw /\ cursor' = cursor /\ pc' = pc
  BY DEF page_arrives, r, start
<1>7. /\ r.seen \in Cursors /\ r.saw \in BOOLEAN /\ r.events \in Seq(Nat)
      /\ seen \in Cursors /\ cursor \in Cursors
  BY <1>2, <1>5 DEF Accs, CursorInv, Reached
<1>8. DOMAIN chain = 1..Len(chain) /\ Len(chain) \in Nat
  BY <1>2 DEF ChainInv
<1>9. r.seen = seen \/ \E j \in f + 1..f + n : j \in DOMAIN chain /\ r.seen = position(j)
  <2>1. r.seen = seen \/ \E j \in f + 1..f + n : r.seen = position(j)
    BY <1>3, <1>5 DEF SeenUpto
  <2>2. f + 1..f + n \subseteq DOMAIN chain
    BY <1>8
  <2> QED BY <2>1, <2>2
<1>10. Reached(r.seen) /\ (r.saw => r.seen.ledgerSequence <= tip)
  <2>1. Reached(seen) /\ (sawEvents => seen.ledgerSequence <= tip)
    BY <1>1, <1>2 DEF CursorInv, FetchInv
  <2>2. r.saw => r.seen.ledgerSequence <= tip
    BY <1>3, <1>5, <1>9, <1>2, <2>1, Order DEF SeenUpto
  <2>3. Reached(r.seen)
    <3>1. CASE r.seen = seen
      BY <2>1, <3>1
    <3>2. CASE r.seen # seen
      BY <1>2, <1>7, <1>9, <3>2, Order DEF Reached
    <3> QED BY <3>1, <3>2
  <2> QED BY <2>2, <2>3
<1>11. ~beyond(cursor, r.seen)
  <2>1. ~beyond(cursor, seen)
    BY <1>1, <1>2 DEF FetchInv
  <2>2. ~beyond(seen, r.seen)
    BY <1>3, <1>5 DEF SeenUpto
  <2> QED BY <1>7, <2>1, <2>2, BeyondOrder
<1>12. /\ Increasing(r.events)
       /\ \A i \in Range(r.events) : i \in DOMAIN chain /\ ~after(i, r.seen) /\ after(i, cursor)
  <2>1. ASSUME NEW i \in Range(r.events)
        PROVE i \in DOMAIN chain /\ ~after(i, r.seen) /\ after(i, cursor)
    <3>1. i \in DOMAIN chain /\ ~after(i, r.seen) /\ (i \in Range(events) \/ after(i, seen))
      BY <1>3, <1>5 DEF TakenUpto
    <3>2. ~beyond(cursor, seen)
      BY <1>1, <1>2 DEF FetchInv
    <3>3. after(i, seen) => after(i, cursor)
      BY <1>2, <1>7, <3>1, <3>2, Order
    <3> QED BY <1>4, <3>1, <3>3
  <2> QED BY <1>5, <2>1 DEF TakenUpto
<1>13. \A i \in handed : i \in DOMAIN chain /\ ~after(i, cursor) /\ ~after(i, r.seen)
  BY <1>2, <1>7, <1>11, Order DEF CursorInv
<1>14. \A h \in handed : \A i \in Range(r.events) : h < i
  BY <1>2, <1>7, <1>12, <1>13, Order
<1>15. ASSUME ~faulty', NEW i \in DOMAIN chain, Relevant(i), ~after(i, r.seen)
       PROVE i \in handed \cup Range(r.events)
  <2>1. ~faulty /\ ~wrong
    BY <1>2, <1>6, <1>15 DEF CursorInv
  <2>2. CASE ~after(i, seen)
    <3>1. i \in handed \cup Range(events)
      BY <1>1, <1>2, <1>15, <2>1, <2>2 DEF TakenInv
    <3> QED BY <1>3, <1>5, <3>1 DEF TakenUpto
  <2>3. CASE after(i, seen)
    <3>1. i \notin 1..f
      <4>1. chain[i].ledger >= startLedger
        <5>1. startLedger = seen.ledgerSequence /\ seen.ledgerSequence \in Nat
          BY <1>1, <1>2, <1>7 DEF FetchInv, Cursors
        <5>2. chain[i].ledger \in Nat
          <6>1. chain[i].ledger \in 1..tip /\ tip \in Nat
            BY <1>2, <1>15 DEF ChainInv
          <6> QED BY <6>1
        <5> QED BY <2>3, <5>1, <5>2 DEF after
      <4>2. i \in 1..f => chain[i].ledger < startLedger
        BY <2>1
      <4>3. chain[i].ledger \in Nat /\ startLedger \in Nat
        <5>1. chain[i].ledger \in 1..tip /\ tip \in Nat
          BY <1>2 DEF ChainInv
        <5>2. startLedger \in Nat
          BY <1>1, <1>2, <1>7 DEF FetchInv, Cursors
        <5> QED BY <5>1, <5>2
      <4> QED BY <4>1, <4>2, <4>3
    <3>2. i \notin f + n + 1..Len(chain)
      <4>1. SUFFICES ASSUME i \in f + n + 1..Len(chain) PROVE FALSE
        OBVIOUS
      <4>2. PICK j \in f + 1..f + n : j \in DOMAIN chain /\ r.seen = position(j)
        BY <1>9, <1>15, <2>3
      <4>3. j < i
        BY <4>1, <4>2
      <4> QED BY <1>2, <1>15, <4>2, <4>3, Order
    <3>3. i \in f + 1..f + n
      BY <1>8, <3>1, <3>2
    <3> QED BY <1>3, <1>5, <1>15, <2>3, <3>3 DEF TakenUpto
  <2> QED BY <2>2, <2>3
<1>16. /\ ChainInv'
       /\ \A i : Relevant(i)' <=> Relevant(i)
       /\ \A i : after(i, cursor)' <=> after(i, cursor')
       /\ \A i : after(i, seen)' <=> after(i, seen')
       /\ faulty' \in BOOLEAN
  <2>1. ChainInv'
    BY <1>1, <1>2 DEF ChainInv
  <2>2. faulty' \in BOOLEAN
    BY <1>2, <1>6 DEF CursorInv
  <2> QED BY <1>1, <2>1, <2>2 DEF Relevant, after
<1>17. CASE drained \/ pageCount + 1 = MAX_PAGES
  <2>1. cursor' = next_cursor(drained, r.saw, r.seen) /\ pc' = "processing" /\ seen' = Genesis
    BY <1>6, <1>17 DEF fetchLocals
  <2>2. /\ Reached(cursor') /\ ~beyond(r.seen, cursor')
        /\ cursor' = r.seen \/ (drained /\ cursor'.txIndex = 0
                                /\ cursor'.ledgerSequence = r.seen.ledgerSequence + 1)
    <3>1. CASE drained /\ r.saw
      <4>1. cursor' = [ledgerSequence |-> r.seen.ledgerSequence + 1, txIndex |-> 0]
        BY <2>1, <3>1 DEF next_cursor
      <4>2. r.seen.ledgerSequence \in Nat /\ r.seen.ledgerSequence <= tip /\ tip \in Nat
        BY <1>2, <1>7, <1>10, <3>1 DEF Cursors, ChainInv
      <4> QED BY <3>1, <4>1, <4>2 DEF Reached, Cursors, beyond
    <3>2. CASE ~(drained /\ r.saw)
      <4>1. cursor' = IF beyond(r.seen, cursor) THEN r.seen ELSE cursor
        BY <2>1, <3>2 DEF next_cursor
      <4>2. cursor' = r.seen
        BY <1>7, <1>11, <4>1, BeyondOrder
      <4>3. ~beyond(r.seen, r.seen)
        <5>1. r.seen.ledgerSequence \in Nat /\ r.seen.txIndex \in Nat
          BY <1>7 DEF Cursors
        <5> QED BY <5>1 DEF beyond
      <4> QED BY <1>10, <4>2, <4>3
    <3> QED BY <3>1, <3>2
  <2>3. cursor' \in Cursors
    BY <2>2 DEF Reached
  <2>4. \A i \in DOMAIN chain : ~after(i, r.seen) => ~after(i, cursor')
    BY <1>2, <1>7, <2>2, <2>3, Order
  <2>5. Reached(cursor)' /\ Reached(seen)'
    <3>1. Reached(Genesis)
      BY <1>2 DEF Reached, Genesis, Cursors, ChainInv
    <3> QED BY <1>1, <2>1, <2>2, <3>1 DEF Reached
  <2>6. CursorInv'
    <3>1. \A i \in handed : ~after(i, cursor')
      BY <1>13, <2>4
    <3>2. Range(r.events) \subseteq DOMAIN chain
      BY <1>12
    <3> QED BY <1>1, <1>2, <1>6, <1>7, <1>12, <1>16, <2>1, <2>5, <3>1, <3>2
            DEF CursorInv, Increasing
  <2>7. ProcessInv'
    <3>1. \A i \in Range(r.events) : ~after(i, cursor') /\ \A h \in handed : h < i
      BY <1>12, <1>14, <2>4
    <3> QED BY <1>1, <1>6, <1>16, <3>1 DEF ProcessInv
  <2>8. ASSUME ~faulty', NEW i \in DOMAIN chain, Relevant(i), ~after(i, cursor')
        PROVE i \in handed \cup Range(r.events)
    <3>1. CASE ~after(i, r.seen)
      BY <1>15, <2>8, <3>1
    <3>2. CASE after(i, r.seen)
      <4>1. drained /\ cursor'.txIndex = 0 /\ cursor'.ledgerSequence = r.seen.ledgerSequence + 1
        BY <2>2, <2>8, <3>2
      <4>2. ~faulty /\ ~wrong
        BY <1>2, <1>6, <2>8 DEF CursorInv
      <4>3. Len(answer) = n
        OBVIOUS
      <4>4. f + n = Len(chain) /\ \A j \in 1..f : chain[j].ledger < startLedger
        BY <4>1, <4>2, <4>3
      <4>5. CASE i \in 1..f
        <5>1. chain[i].ledger < seen.ledgerSequence
          BY <1>1, <1>2, <4>4, <4>5 DEF FetchInv
        <5>2. chain[i].ledger \in Nat /\ seen.ledgerSequence \in Nat
          <6>1. chain[i].ledger \in 1..tip /\ tip \in Nat
            BY <1>2 DEF ChainInv
          <6> QED BY <1>7, <6>1 DEF Cursors
        <5>3. ~after(i, seen)
          BY <5>1, <5>2 DEF after
        <5>4. i \in handed \cup Range(events)
          BY <1>1, <1>2, <2>8, <4>2, <5>3 DEF TakenInv
        <5> QED BY <1>3, <1>5, <5>4 DEF TakenUpto
      <4>6. CASE i \notin 1..f
        <5>1. i \in f + 1..f + n
          BY <1>8, <4>4, <4>6
        <5>2. ~after(i, r.seen)
          BY <1>5, <2>8, <5>1 DEF SeenUpto, Relevant
        <5> QED BY <3>2, <5>2
      <4> QED BY <4>5, <4>6
    <3> QED BY <3>1, <3>2
  <2>9. TakenInv'
    BY <1>1, <1>6, <1>16, <2>1, <2>8 DEF TakenInv
  <2> QED BY <1>16, <2>1, <2>6, <2>7, <2>9 DEF SyncInv, FetchInv, SleepInv
<1>18. CASE ~(drained \/ pageCount + 1 = MAX_PAGES)
  <2>1. /\ startLedger' = r.seen.ledgerSequence /\ pageCount' = pageCount + 1
        /\ seen' = r.seen /\ sawEvents' = r.saw /\ cursor' = cursor /\ pc' = "fetching"
    BY <1>1, <1>6, <1>18 DEF next_start
  <2>2. Reached(cursor)' /\ Reached(seen)'
    BY <1>1, <1>2, <1>10, <2>1 DEF Reached, CursorInv
  <2>3. CursorInv'
    <3>1. Range(r.events) \subseteq DOMAIN chain
      BY <1>12
    <3> QED BY <1>1, <1>2, <1>6, <1>7, <1>12, <1>13, <1>16, <2>1, <2>2, <3>1
            DEF CursorInv, Increasing
  <2>4. pageCount' \in 0..MAX_PAGES - 1
    <3>1. pageCount \in 0..MAX_PAGES - 1 /\ MAX_PAGES \in Nat
      BY <1>1, <1>2 DEF FetchInv, IndexerAssumption
    <3> QED BY <1>18, <2>1, <3>1
  <2>5. FetchInv'
    <3>1. ~beyond(cursor', seen')
      BY <1>11, <2>1
    <3>2. \A i \in Range(r.events) : after(i, cursor') /\ ~after(i, seen')
      BY <1>12, <2>1
    <3>3. beyond(cursor, seen)' <=> beyond(cursor', seen')
      BY DEF beyond
    <3> QED BY <1>1, <1>6, <1>7, <1>10, <1>16, <2>1, <2>4, <3>1, <3>2, <3>3 DEF FetchInv
  <2>6. TakenInv'
    <3>1. ASSUME ~faulty', NEW i \in DOMAIN chain, Relevant(i),
                 ~after(i, cursor) \/ ~after(i, r.seen)
          PROVE i \in handed \cup Range(r.events)
      <4>1. ~after(i, r.seen)
        BY <1>2, <1>7, <1>11, <3>1, Order
      <4> QED BY <1>15, <3>1, <4>1
    <3> QED BY <1>1, <1>6, <1>16, <2>1, <3>1 DEF TakenInv
  <2> QED BY <1>16, <2>1, <2>3, <2>5, <2>6 DEF SyncInv, ProcessInv, SleepInv
<1> QED BY <1>17, <1>18

\* Nothing the cursor has moved past is added to the chain.
LEMMA CloseStep ==
  ASSUME IndexerAssumption, ScriptsAssumption, OnePerTransaction, SyncInv, close_ledger
  PROVE SyncInv'
<1>1. ChainInv /\ CursorInv /\ TakenInv /\ SleepInv /\ pc # "processing"
  BY DEF SyncInv, close_ledger
<1>2. /\ pc' = pc /\ cursor' = cursor /\ seen' = seen /\ startLedger' = startLedger
      /\ pageCount' = pageCount /\ sawEvents' = sawEvents /\ events' = events
      /\ handed' = handed /\ faulty' = faulty
  BY DEF close_ledger, fetchVars
<1>3. /\ ChainInv' /\ tip' = tip + 1
      /\ \A i \in DOMAIN chain : i \in DOMAIN chain' /\ chain'[i] = chain[i]
      /\ \A i \in DOMAIN chain' : i \notin DOMAIN chain =>
            chain'[i].ledger = tip + 1 /\ chain'[i].txIndex > 0
  BY <1>1, ClosesInOrder
<1>4. tip \in Nat
  BY <1>1 DEF ChainInv
<1>5. ASSUME NEW at, Reached(at)
      PROVE /\ at.ledgerSequence <= tip' \/ (at.ledgerSequence = tip' + 1 /\ at.txIndex = 0)
            /\ \A i \in DOMAIN chain' : i \notin DOMAIN chain =>
                  \/ chain'[i].ledger > at.ledgerSequence
                  \/ chain'[i].ledger = at.ledgerSequence /\ chain'[i].txIndex > at.txIndex
  <2>1. at.ledgerSequence \in Nat /\ at.txIndex \in Nat
    BY <1>5 DEF Reached, Cursors
  <2>2. at.ledgerSequence <= tip \/ (at.ledgerSequence = tip + 1 /\ at.txIndex = 0)
    BY <1>5 DEF Reached
  <2>3. ASSUME NEW i \in DOMAIN chain', i \notin DOMAIN chain
        PROVE \/ chain'[i].ledger > at.ledgerSequence
              \/ chain'[i].ledger = at.ledgerSequence /\ chain'[i].txIndex > at.txIndex
    <3>1. chain'[i].ledger = tip + 1 /\ chain'[i].txIndex > 0
      BY <1>3, <2>3
    <3> QED BY <1>4, <2>1, <2>2, <3>1
  <2> QED BY <1>3, <1>4, <2>1, <2>2, <2>3
<1>6. Reached(cursor)' /\ Reached(seen)'
  <2>1. Reached(cursor) /\ Reached(seen)
    BY <1>1 DEF CursorInv
  <2>2. cursor \in Cursors /\ seen \in Cursors
    BY <2>1 DEF Reached
  <2> QED BY <1>2, <1>5, <2>1, <2>2 DEF Reached
<1>7. /\ \A i \in DOMAIN chain : after(i, cursor)' <=> after(i, cursor)
      /\ \A i \in DOMAIN chain : after(i, seen)' <=> after(i, seen)
      /\ \A i \in DOMAIN chain : Relevant(i)' <=> Relevant(i)
  BY <1>2, <1>3 DEF after, Relevant
<1>8. \A i \in DOMAIN chain' : i \notin DOMAIN chain => after(i, cursor)' /\ after(i, seen)'
  <2>1. Reached(cursor) /\ Reached(seen)
    BY <1>1 DEF CursorInv
  <2> QED BY <1>2, <1>5, <2>1 DEF after
<1>9. Range(events)' = Range(events)
  BY <1>2
<1>10. CursorInv'
  <2>1. handed' \subseteq DOMAIN chain' /\ Range(events)' \subseteq DOMAIN chain'
    BY <1>1, <1>2, <1>3, <1>9 DEF CursorInv
  <2>2. \A i \in handed' : ~after(i, cursor)'
    BY <1>1, <1>2, <1>7 DEF CursorInv
  <2> QED BY <1>1, <1>2, <1>6, <2>1, <2>2 DEF CursorInv, Increasing
<1>11. FetchInv'
  <2> SUFFICES ASSUME pc = "fetching" PROVE FetchInv'
    BY <1>2 DEF FetchInv
  <2>1. FetchInv
    BY DEF SyncInv
  <2>2. \A i \in Range(events) : i \in DOMAIN chain
    BY <1>1 DEF CursorInv
  <2>3. \A i \in Range(events)' : after(i, cursor)' /\ ~after(i, seen)'
    BY <1>7, <1>9, <2>1, <2>2 DEF FetchInv
  <2>4. ~beyond(cursor, seen)'
    BY <1>2, <2>1 DEF FetchInv, beyond
  <2>5. sawEvents' => seen'.ledgerSequence <= tip'
    <3>1. seen.ledgerSequence \in Nat
      BY <1>1 DEF CursorInv, Reached, Cursors
    <3> QED BY <1>2, <1>3, <1>4, <2>1, <3>1 DEF FetchInv
  <2> QED BY <1>2, <2>1, <2>3, <2>4, <2>5 DEF FetchInv
<1>12. TakenInv'
  <2> SUFFICES ASSUME ~faulty', NEW i \in DOMAIN chain', Relevant(i)',
                      ~after(i, cursor)' \/ (pc' = "fetching" /\ ~after(i, seen)')
               PROVE i \in handed' \cup Range(events)'
    BY DEF TakenInv
  <2>1. i \in DOMAIN chain
    BY <1>8
  <2> QED BY <1>1, <1>2, <1>7, <1>9, <2>1 DEF TakenInv
<1> QED BY <1>1, <1>2, <1>3, <1>10, <1>11, <1>12 DEF SyncInv, ProcessInv, SleepInv

\* Steps that leave the chain and the loop alone.
LEMMA SyncUnchanged ==
  ASSUME SyncInv,
         UNCHANGED <<chainVars, cursor, pc, fetchVars, events, handed, faulty>>
  PROVE SyncInv'
<1>1. /\ chain' = chain /\ tip' = tip /\ future' = future /\ cursor' = cursor /\ pc' = pc
      /\ seen' = seen /\ startLedger' = startLedger /\ pageCount' = pageCount
      /\ sawEvents' = sawEvents /\ events' = events /\ handed' = handed /\ faulty' = faulty
  BY DEF chainVars, fetchVars
<1> QED BY <1>1 DEF SyncInv, ChainInv, CursorInv, FetchInv, ProcessInv, SleepInv, TakenInv,
                    Reached, after, beyond, Relevant, Increasing

\* The new poll starts where the cursor stands, with nothing taken.
LEMMA PollStep ==
  ASSUME IndexerAssumption, SyncInv, poll PROVE SyncInv'
<1>1. ChainInv /\ CursorInv /\ TakenInv /\ SleepInv
  BY DEF SyncInv
<1>2. /\ chain' = chain /\ tip' = tip /\ future' = future /\ cursor' = cursor
      /\ pc = "sleeping" /\ pc' = "fetching"
      /\ seen' = cursor /\ startLedger' = cursor.ledgerSequence /\ pageCount' = 0
      /\ sawEvents' = FALSE /\ events' = << >> /\ handed' = handed /\ faulty' = faulty
  BY DEF poll, chainVars
<1>3. events = << >>
  BY <1>1, <1>2 DEF SleepInv
<1>4. Range(events) = {} /\ Range(events)' = {}
  BY <1>2, <1>3 DEF Range
<1>5. \A i : /\ after(i, cursor)' <=> after(i, cursor)
             /\ after(i, seen)' <=> after(i, cursor)
             /\ Relevant(i)' <=> Relevant(i)
  BY <1>2 DEF after, Relevant
<1>6. ChainInv'
  BY <1>1, <1>2 DEF ChainInv
<1>7. CursorInv'
  <2>1. Reached(cursor)' /\ Reached(seen)'
    BY <1>1, <1>2 DEF CursorInv, Reached
  <2> QED BY <1>1, <1>2, <1>3, <1>4, <1>5, <2>1 DEF CursorInv, Increasing
<1>8. FetchInv'
  <2>1. cursor \in Cursors
    BY <1>1 DEF CursorInv, Reached
  <2>2. ~beyond(cursor, seen)'
    BY <1>2, <2>1 DEF beyond, Cursors
  <2>3. 0 \in 0..MAX_PAGES - 1
    BY DEF IndexerAssumption
  <2> QED BY <1>2, <1>4, <2>2, <2>3 DEF FetchInv
<1>9. TakenInv'
  BY <1>1, <1>2, <1>4, <1>5 DEF TakenInv
<1> QED BY <1>2, <1>6, <1>7, <1>8, <1>9 DEF SyncInv, ProcessInv, SleepInv

\* Steps of the loop that end a poll early: what was taken is dropped.
LEMMA CutStep ==
  ASSUME SyncInv, fetch_throws \/ statement_throws PROVE SyncInv'
<1>1. ChainInv /\ CursorInv
  BY DEF SyncInv
<1>2. /\ chain' = chain /\ tip' = tip /\ future' = future /\ cursor' = cursor
      /\ pc' = "sleeping" /\ events' = << >> /\ handed' = handed /\ faulty' = TRUE
      /\ seen' = seen \/ seen' = Genesis
  BY DEF fetch_throws, statement_throws, chainVars, fetchVars, fetchLocals
<1>3. \A i : after(i, cursor)' <=> after(i, cursor)
  BY <1>2 DEF after
<1>4. Range(events)' = {}
  BY <1>2 DEF Range
<1>5. ChainInv'
  BY <1>1, <1>2 DEF ChainInv
<1>6. CursorInv'
  <2>1. Reached(cursor)' /\ Reached(seen)'
    BY <1>1, <1>2 DEF CursorInv, Reached, Genesis, Cursors, ChainInv
  <2> QED BY <1>1, <1>2, <1>3, <1>4, <2>1 DEF CursorInv, Increasing
<1> QED BY <1>2, <1>5, <1>6 DEF SyncInv, FetchInv, ProcessInv, SleepInv, TakenInv

\* After a restart the whole chain is ahead again.
LEMMA MainStep ==
  ASSUME SyncInv, main PROVE SyncInv'
<1>1. ChainInv /\ CursorInv
  BY DEF SyncInv
<1>2. /\ chain' = chain /\ tip' = tip /\ future' = future /\ cursor' = Genesis
      /\ pc' = "sleeping" /\ events' = << >> /\ handed' = {} /\ faulty' = faulty
      /\ seen' = Genesis
  BY DEF main, chainVars, fetchLocals
<1>3. \A i \in DOMAIN chain : after(i, cursor)'
  <2> SUFFICES ASSUME NEW i \in DOMAIN chain PROVE after(i, cursor)'
    OBVIOUS
  <2>1. chain[i].ledger \in 1..tip /\ chain[i].txIndex > 0 /\ tip \in Nat
    BY <1>1 DEF ChainInv
  <2> QED BY <1>2, <2>1 DEF after, Genesis
<1>4. Range(events)' = {}
  BY <1>2 DEF Range
<1>5. ChainInv'
  BY <1>1, <1>2 DEF ChainInv
<1>6. CursorInv'
  <2>1. Reached(cursor)' /\ Reached(seen)'
    BY <1>1, <1>2 DEF Reached, Genesis, Cursors, ChainInv
  <2> QED BY <1>1, <1>2, <1>4, <2>1 DEF CursorInv, Increasing
<1>7. TakenInv'
  BY <1>2, <1>3 DEF TakenInv
<1> QED BY <1>2, <1>5, <1>6, <1>7 DEF SyncInv, FetchInv, ProcessInv, SleepInv

\* One event goes from the poll to the processor.
LEMMA NextEventStep ==
  ASSUME SyncInv, next_event PROVE SyncInv'
<1>1. ChainInv /\ CursorInv /\ ProcessInv /\ TakenInv
  BY DEF SyncInv
<1>2. /\ chain' = chain /\ tip' = tip /\ future' = future /\ cursor' = cursor /\ seen' = seen
      /\ pc = "processing" /\ pc' = pc /\ faulty' = faulty
      /\ events # << >> /\ events' = Tail(events) /\ handed' = handed \cup {Head(events)}
  BY DEF next_event, chainVars, fetchVars
<1> DEFINE n == Len(events)
<1>3. events \in Seq(Nat) /\ n \in Nat \ {0} /\ DOMAIN events = 1..n
  BY <1>1, <1>2 DEF CursorInv
<1>4. /\ Head(events) = events[1] /\ 1 \in DOMAIN events
      /\ events' \in Seq(Nat) /\ DOMAIN events' = 1..n - 1
      /\ \A k \in 1..n - 1 : events'[k] = events[k + 1] /\ k + 1 \in 1..n
  BY <1>2, <1>3
<1> HIDE DEF n
<1>5. Increasing(events)'
  <2>1. \A j, k \in 1..n - 1 : j < k => events[j + 1] < events[k + 1]
    <3>1. \A j, k \in 1..n - 1 : j < k => j + 1 < k + 1 /\ j + 1 \in 1..n /\ k + 1 \in 1..n
      BY <1>3
    <3> QED BY <1>1, <1>3, <3>1 DEF CursorInv, Increasing
  <2> QED BY <1>4, <2>1 DEF Increasing
<1>6. /\ \A i \in Range(events)' : i \in Range(events) /\ events[1] < i
      /\ \A i \in Range(events) : i = events[1] \/ i \in Range(events)'
  <2>1. ASSUME NEW i \in Range(events)' PROVE i \in Range(events) /\ events[1] < i
    <3>1. PICK k \in 1..n - 1 : i = events'[k]
      BY <1>4 DEF Range
    <3>2. i = events[k + 1] /\ k + 1 \in 1..n /\ 1 < k + 1
      BY <1>3, <1>4, <3>1
    <3> QED BY <1>1, <1>3, <1>4, <3>2 DEF CursorInv, Increasing, Range
  <2>2. ASSUME NEW i \in Range(events) PROVE i = events[1] \/ i \in Range(events)'
    <3>1. PICK k \in 1..n : i = events[k]
      BY <1>3 DEF Range
    <3>2. CASE k = 1
      BY <3>1, <3>2
    <3>3. CASE k # 1
      <4>1. k - 1 \in 1..n - 1 /\ (k - 1) + 1 = k
        BY <1>3, <3>3
      <4>2. i = events'[k - 1]
        BY <1>4, <3>1, <4>1
      <4> QED BY <1>4, <4>1, <4>2 DEF Range
    <3> QED BY <3>2, <3>3
  <2> QED BY <2>1, <2>2
<1>7. events[1] \in Range(events)
  BY <1>4 DEF Range
<1>8. \A i : after(i, cursor)' <=> after(i, cursor)
  BY <1>2 DEF after
<1>9. \A i : Relevant(i)' <=> Relevant(i)
  BY <1>2 DEF Relevant
<1>10. ChainInv'
  BY <1>1, <1>2 DEF ChainInv
<1>11. CursorInv'
  <2>1. Reached(cursor)' /\ Reached(seen)'
    BY <1>1, <1>2 DEF CursorInv, Reached
  <2>2. Range(events)' \subseteq DOMAIN chain' /\ handed' \subseteq DOMAIN chain'
    BY <1>1, <1>2, <1>4, <1>6, <1>7 DEF CursorInv
  <2>3. \A i \in handed' : ~after(i, cursor)'
    BY <1>1, <1>2, <1>4, <1>7, <1>8 DEF CursorInv, ProcessInv
  <2> QED BY <1>1, <1>2, <1>4, <1>5, <2>1, <2>2, <2>3 DEF CursorInv
<1>12. ProcessInv'
  BY <1>1, <1>2, <1>4, <1>6, <1>8 DEF ProcessInv
<1>13. TakenInv'
  <2> SUFFICES ASSUME ~faulty', NEW i \in DOMAIN chain', Relevant(i)',
                      ~after(i, cursor)' \/ (pc' = "fetching" /\ ~after(i, seen)')
               PROVE i \in handed' \cup Range(events)'
    BY DEF TakenInv
  <2>1. i \in handed \cup Range(events)
    BY <1>1, <1>2, <1>8, <1>9 DEF TakenInv
  <2> QED BY <1>2, <1>4, <1>6, <2>1
<1> QED BY <1>2, <1>10, <1>11, <1>12, <1>13 DEF SyncInv, FetchInv, SleepInv

\* The end of a poll.
LEMMA SleepStep ==
  ASSUME SyncInv, sleep PROVE SyncInv'
<1>1. ChainInv /\ CursorInv /\ TakenInv
  BY DEF SyncInv
<1>2. /\ chain' = chain /\ tip' = tip /\ future' = future /\ cursor' = cursor
      /\ pc = "processing" /\ pc' = "sleeping" /\ events = << >> /\ events' = events
      /\ handed' = handed /\ faulty' = faulty /\ seen' = seen
  BY DEF sleep, chainVars, fetchVars
<1>3. /\ \A i : after(i, cursor)' <=> after(i, cursor)
      /\ \A i : Relevant(i)' <=> Relevant(i)
      /\ Range(events)' = Range(events)
  BY <1>2 DEF after, Relevant
<1>4. ChainInv'
  BY <1>1, <1>2 DEF ChainInv
<1>5. CursorInv'
  BY <1>1, <1>2, <1>3 DEF CursorInv, Reached, Increasing
<1>6. TakenInv'
  BY <1>1, <1>2, <1>3 DEF TakenInv
<1> QED BY <1>2, <1>4, <1>5, <1>6 DEF SyncInv, FetchInv, ProcessInv, SleepInv

\* The answer of the node: a page of the chain from the start ledger, or of a wrong one.
LEMMA FetchStep ==
  ASSUME IndexerAssumption, SyncInv, fetchEvents PROVE SyncInv'
<1>1. pc = "fetching" /\ ChainInv /\ startLedger \in Nat
  <2>1. pc = "fetching"
    BY DEF fetchEvents, page_arrives
  <2> QED BY <2>1 DEF SyncInv, FetchInv, CursorInv, Reached, Cursors
<1>2. PICK f \in 0..Len(chain), n \in 0..PAGE_LIMIT :
         /\ page(startLedger) = [k \in 1..n |-> f + k]
         /\ f + n <= Len(chain)
         /\ \A i \in 1..f : chain[i].ledger < startLedger
         /\ \A i \in f + 1..Len(chain) : chain[i].ledger >= startLedger
         /\ n < PAGE_LIMIT => f + n = Len(chain)
  BY <1>1, PageIs
<1>3. page_arrives(page(startLedger), FALSE) /\ f \in Nat /\ n \in Nat
  <2>1. page_arrives(page(startLedger), FALSE)
    BY DEF fetchEvents
  <2>2. f \in Nat /\ n \in Nat
    OBVIOUS
  <2> QED BY <2>1, <2>2
<1> QED BY <1>2, <1>3, PageArrives

\* A failed call of the node keeps the cursor.
LEMMA FetchErrorStep ==
  ASSUME IndexerAssumption, SyncInv, fetch_error PROVE SyncInv'
<1>1. page_arrives(<< >>, TRUE)
  BY DEF fetch_error
<1>2. << >> = [k \in 1..0 |-> 0 + k] /\ 0 + 0 <= Len(chain)
  BY DEF SyncInv, ChainInv
<1> QED BY <1>1, <1>2, PageArrives

\* Every step keeps SyncInv.
LEMMA SyncStepKeeps ==
  ASSUME IndexerAssumption, ScriptsAssumption, OnePerTransaction, SyncInv, SyncStep
  PROVE SyncInv'
<1>1. CASE close_ledger
  BY <1>1, CloseStep
<1>2. CASE api_bridge_record \/ statement
  BY <1>2, SyncUnchanged DEF api_bridge_record, statement
<1>3. CASE poll
  BY <1>3, PollStep
<1>4. CASE fetchEvents
  BY <1>4, FetchStep
<1>5. CASE fetch_error
  BY <1>5, FetchErrorStep
<1>6. CASE fetch_throws \/ statement_throws
  BY <1>6, CutStep
<1>7. CASE next_event
  BY <1>7, NextEventStep
<1>8. CASE sleep
  BY <1>8, SleepStep
<1>9. CASE main
  BY <1>9, MainStep
<1>10. CASE UNCHANGED indexerVars
  BY <1>10, SyncUnchanged DEF indexerVars
<1> QED BY <1>1, <1>2, <1>3, <1>4, <1>5, <1>6, <1>7, <1>8, <1>9, <1>10
        DEF SyncStep, IndexerNext

\* While every transaction of a ledger publishes one event of the watched
\* contracts at most, the loop keeps SyncInv, whatever the pages, the faults,
\* the restarts and the ledgers that close meanwhile.
THEOREM SyncInvariant ==
  ASSUME OnePerTransaction PROVE IndexerSpec => []SyncInv
<1>1. IndexerInit => SyncInv
  BY SyncInitially, IndexerAssumption, ScriptsAssumption
<1>2. SyncInv /\ [IndexerNext]_indexerVars => SyncInv'
  BY SyncStepKeeps, IndexerAssumption, ScriptsAssumption DEF SyncStep
<1> QED BY <1>1, <1>2, PTL DEF IndexerSpec

\* What a cursor leaves behind was taken: sync.ts never skips an event that
\* a processor has to see, as long as no answer and no statement failed.
THEOREM NothingSkippedHolds ==
  ASSUME OnePerTransaction PROVE IndexerSpec => []NothingSkipped
<1>1. SyncInv => NothingSkipped
  BY DEF SyncInv, TakenInv, NothingSkipped
<1> QED BY <1>1, SyncInvariant, PTL

\* No event is taken twice between two starts and each poll hands its events
\* out in the order of the chain, over overlapping pages and cut-off polls.
THEOREM TakenOnceInOrderHolds ==
  ASSUME OnePerTransaction PROVE IndexerSpec => []TakenOnceInOrder
<1>1. ASSUME SyncInv PROVE TakenOnceInOrder
  <2>1. ChainInv /\ CursorInv /\ FetchInv /\ ProcessInv /\ SleepInv
    BY <1>1 DEF SyncInv
  <2>2. \A j, k \in DOMAIN events : j < k => events[j] < events[k]
    BY <2>1 DEF CursorInv, Increasing
  <2>3. ASSUME NEW k \in DOMAIN events, NEW h \in handed PROVE h < events[k]
    <3>1. events[k] \in Range(events) /\ events[k] \in DOMAIN chain /\ h \in DOMAIN chain
      BY <2>1 DEF CursorInv, Range
    <3>2. CASE pc = "processing"
      BY <2>1, <3>1, <3>2 DEF ProcessInv
    <3>3. CASE pc = "fetching"
      <4>1. after(events[k], cursor) /\ ~after(h, cursor) /\ cursor \in Cursors
        BY <2>1, <3>1, <3>3 DEF FetchInv, CursorInv, Reached
      <4> QED BY <2>1, <3>1, <4>1, Order
    <3>4. CASE pc = "sleeping"
      BY <2>1, <3>4 DEF SleepInv
    <3> QED BY <2>1, <3>2, <3>3, <3>4 DEF CursorInv
  <2> QED BY <2>2, <2>3 DEF TakenOnceInOrder
<1> QED BY <1>1, SyncInvariant, PTL

-----------------------------------------------------------------------------
\* What a table of the database holds.
Tables ==
  [credit : [CreditIds -> Credit \cup {None}],
   offer : [OfferIds -> Offer \cup {None}],
   bridgeRecord : [Serials -> BridgeRecord \cup {None}],
   approval : Seq(Approval), trade : Seq(Trade), retirement : Seq(Retirement)]

\* The columns a statement may write.
CreditFields(f) ==
  /\ DOMAIN f \subseteq {"status", "owner"}
  /\ "status" \in DOMAIN f => f.status \in CreditStatus
  /\ "owner" \in DOMAIN f => f.owner \in Users

BridgeFields(f) == DOMAIN f = {"status"} /\ f.status \in BridgeStatus

StatusField(f) == DOMAIN f = {"status"} /\ f.status \in OfferStatus

NewOfferFields(f, r) ==
  /\ DOMAIN f = {"amount", "status"} /\ f.amount \in 1..MaxAmount /\ f.status \in OfferStatus
  /\ DOMAIN r = {"credit", "seller", "filled"}
  /\ r.credit \in CreditIds /\ r.seller \in Users /\ r.filled = 0

\* The statements that leave the trades and the filled amounts alone.
Quiet(s) ==
  \/ s.op = "create" /\ s.table = "approval" /\ s.row \in Approval
  \/ s.op = "create" /\ s.table = "retirement" /\ s.row \in Retirement
  \/ s.op = "update" /\ s.table = "credit" /\ s.key \in CreditIds /\ CreditFields(s.fields)
  \/ s.op = "update" /\ s.table = "offer" /\ s.key \in OfferIds /\ StatusField(s.fields)
  \/ s.op = "update" /\ s.table = "bridgeRecord" /\ s.key \in Serials /\ BridgeFields(s.fields)
  \/ /\ s.op = "upsert" /\ s.table = "credit" /\ s.key \in CreditIds
     /\ CreditFields(s.fields) /\ CreditFields(s.rest)
     /\ DOMAIN s.fields \cup DOMAIN s.rest = {"status", "owner"}
  \/ s.op = "upsert" /\ s.table = "offer" /\ s.key \in OfferIds /\ NewOfferFields(s.fields, s.rest)
  \/ s.op = "updateFirst" /\ BridgeFields(s.fields)

\* The two statements of a sale.
Fill(s, o, n) ==
  /\ s.op = "update" /\ s.table = "offer" /\ s.key = o
  /\ DOMAIN s.fields \subseteq {"filled", "status"} /\ "filled" \in DOMAIN s.fields
  /\ s.fields.filled = db.offer[o].filled + n
  /\ "status" \in DOMAIN s.fields => s.fields.status \in OfferStatus

Sale(s, o, n) ==
  s.op = "create" /\ s.table = "trade" /\ s.row \in Trade /\ s.row.offer = o /\ s.row.amount = n

TradesOf(t, o) == {i \in DOMAIN t : t[i].offer = o}
SoldOf(t, o) == SumFunctionOnSet([i \in DOMAIN t |-> t[i].amount], TradesOf(t, o))

\* A row after a merge.
MergeOf(q, f, g) ==
  /\ q = [x \in DOMAIN q |-> q[x]]
  /\ DOMAIN q = DOMAIN f \cup DOMAIN g
  /\ \A x \in DOMAIN f : q[x] = f[x]
  /\ \A x \in DOMAIN g : x \notin DOMAIN f => q[x] = g[x]

\* A merge has the columns of both, the new values first.
LEMMA MergedIs ==
  ASSUME NEW f, NEW g PROVE MergeOf(merged(f, g), f, g)
  BY DEF merged, MergeOf

\* A record with the columns of a credit is one.
LEMMA CreditRow ==
  ASSUME NEW r, DOMAIN r = {"status", "owner"}, r = [x \in DOMAIN r |-> r[x]],
         r.status \in CreditStatus, r.owner \in Users
  PROVE r \in Credit
  BY DEF Credit

\* A record with the columns of an offer is one.
LEMMA OfferRow ==
  ASSUME NEW r, DOMAIN r = {"credit", "seller", "amount", "filled", "status"},
         r = [x \in DOMAIN r |-> r[x]], r.credit \in CreditIds, r.seller \in Users,
         r.amount \in 1..MaxAmount, r.filled \in Nat, r.status \in OfferStatus
  PROVE r \in Offer
  BY DEF Offer

\* A record with the columns of a bridge record is one.
LEMMA BridgeRow ==
  ASSUME NEW r, DOMAIN r = {"credit", "status"},
         r = [x \in DOMAIN r |-> r[x]], r.credit \in CreditIds, r.status \in BridgeStatus
  PROVE r \in BridgeRecord
  BY DEF BridgeRecord

\* An update of a credit leaves a credit.
LEMMA CreditMerge ==
  ASSUME NEW f, NEW g, CreditFields(f), CreditFields(g) \/ g \in Credit,
         DOMAIN f \cup DOMAIN g = {"status", "owner"}
  PROVE merged(f, g) \in Credit
<1> DEFINE q == merged(f, g)
<1>0. MergeOf(q, f, g)
  BY MergedIs
<1> HIDE DEF q
<1>1. /\ q = [x \in DOMAIN q |-> q[x]] /\ DOMAIN q = {"status", "owner"}
      /\ \A x \in DOMAIN f : q[x] = f[x]
      /\ \A x \in DOMAIN g : x \notin DOMAIN f => q[x] = g[x]
  BY <1>0 DEF MergeOf
<1>2. CreditFields(g)
  BY DEF CreditFields, Credit
<1>3. q.status \in CreditStatus /\ q.owner \in Users
  BY <1>1, <1>2 DEF CreditFields
<1> QED BY <1>1, <1>3, CreditRow DEF q

\* An update of an offer leaves an offer, filled as it says or as it was.
LEMMA OfferMerge ==
  ASSUME NEW f, NEW g \in Offer, DOMAIN f \subseteq {"filled", "status", "amount"},
         "filled" \in DOMAIN f => f.filled \in Nat,
         "status" \in DOMAIN f => f.status \in OfferStatus,
         "amount" \in DOMAIN f => f.amount \in 1..MaxAmount
  PROVE /\ merged(f, g) \in Offer
        /\ merged(f, g).filled = IF "filled" \in DOMAIN f THEN f.filled ELSE g.filled
<1> DEFINE q == merged(f, g)
<1>0. MergeOf(q, f, g)
  BY MergedIs
<1> HIDE DEF q
<1>1. /\ DOMAIN g = {"credit", "seller", "amount", "filled", "status"}
      /\ g.credit \in CreditIds /\ g.seller \in Users
      /\ g.amount \in 1..MaxAmount /\ g.filled \in Nat /\ g.status \in OfferStatus
  BY DEF Offer
<1>2. /\ q = [x \in DOMAIN q |-> q[x]] /\ DOMAIN q = DOMAIN g
      /\ \A x \in DOMAIN f : q[x] = f[x]
      /\ \A x \in DOMAIN g : x \notin DOMAIN f => q[x] = g[x]
  BY <1>0, <1>1 DEF MergeOf
<1>3. /\ q.credit \in CreditIds /\ q.seller \in Users /\ q.amount \in 1..MaxAmount
      /\ q.filled \in Nat /\ q.status \in OfferStatus
      /\ q.filled = IF "filled" \in DOMAIN f THEN f.filled ELSE g.filled
  BY <1>1, <1>2
<1> QED BY <1>1, <1>2, <1>3, OfferRow DEF q

\* An offer that is created has nothing filled.
LEMMA NewOffer ==
  ASSUME NEW f, NEW r, NewOfferFields(f, r)
  PROVE merged(f, r) \in Offer /\ merged(f, r).filled = 0
<1> DEFINE q == merged(f, r)
<1>0. MergeOf(q, f, r)
  BY MergedIs
<1> HIDE DEF q
<1>1. /\ q = [x \in DOMAIN q |-> q[x]] /\ DOMAIN q = DOMAIN f \cup DOMAIN r
      /\ \A x \in DOMAIN f : q[x] = f[x]
      /\ \A x \in DOMAIN r : x \notin DOMAIN f => q[x] = r[x]
  BY <1>0 DEF MergeOf
<1>2. DOMAIN q = {"credit", "seller", "amount", "filled", "status"}
  BY <1>1 DEF NewOfferFields
<1>3. /\ q.credit \in CreditIds /\ q.seller \in Users /\ q.amount \in 1..MaxAmount
      /\ q.filled = 0 /\ q.status \in OfferStatus
  BY <1>1 DEF NewOfferFields
<1> QED BY <1>1, <1>2, <1>3, OfferRow DEF q

\* An update of a bridge record leaves one.
LEMMA BridgeMerge ==
  ASSUME NEW f, BridgeFields(f), NEW g \in BridgeRecord
  PROVE merged(f, g) \in BridgeRecord
<1> DEFINE q == merged(f, g)
<1>0. MergeOf(q, f, g)
  BY MergedIs
<1> HIDE DEF q
<1>1. DOMAIN g = {"credit", "status"} /\ g.credit \in CreditIds
  BY DEF BridgeRecord
<1>2. /\ q = [x \in DOMAIN q |-> q[x]] /\ DOMAIN q = {"credit", "status"}
      /\ \A x \in DOMAIN f : q[x] = f[x]
      /\ \A x \in DOMAIN g : x \notin DOMAIN f => q[x] = g[x]
  BY <1>0, <1>1 DEF MergeOf, BridgeFields
<1>3. q.credit \in CreditIds /\ q.status \in BridgeStatus
  BY <1>1, <1>2 DEF BridgeFields
<1> QED BY <1>2, <1>3, BridgeRow DEF q

\* What a quiet statement leaves behind.
QuietChange(d, e) ==
  /\ e \in Tables /\ e.trade = d.trade
  /\ \A o \in OfferIds : e.offer[o] # None /\ d.offer[o] # None => e.offer[o].filled = d.offer[o].filled
  /\ \A o \in OfferIds : d.offer[o] # None => e.offer[o] # None

\* The rows of the tables.
LEMMA TableIs ==
  ASSUME NEW d \in Tables
  PROVE /\ \A c \in CreditIds : d.credit[c] \in Credit \cup {None}
        /\ \A o \in OfferIds : d.offer[o] \in Offer \cup {None}
        /\ \A s \in Serials : d.bridgeRecord[s] \in BridgeRecord \cup {None}
        /\ d.approval \in Seq(Approval) /\ d.trade \in Seq(Trade)
        /\ d.retirement \in Seq(Retirement)
  BY DEF Tables

\* A table grows by a row.
LEMMA Grows ==
  ASSUME NEW S, NEW q \in Seq(S), NEW v \in S PROVE Append(q, v) \in Seq(S)
  OBVIOUS

\* A new approval is quiet.
LEMMA ApprovalWrites ==
  ASSUME NEW d \in Tables, NEW q \in Seq(Approval)
  PROVE QuietChange(d, [d EXCEPT !.approval = q])
  BY DEF Tables, QuietChange

\* A new retirement is quiet.
LEMMA RetirementWrites ==
  ASSUME NEW d \in Tables, NEW q \in Seq(Retirement)
  PROVE QuietChange(d, [d EXCEPT !.retirement = q])
  BY DEF Tables, QuietChange

\* A new version of a credit is quiet.
LEMMA CreditWrites ==
  ASSUME NEW d \in Tables, NEW c \in CreditIds, NEW v \in Credit
  PROVE QuietChange(d, [d EXCEPT !.credit[c] = v])
  BY DEF Tables, QuietChange

\* A new version of an offer is quiet when it is filled as before.
LEMMA OfferWrites ==
  ASSUME NEW d \in Tables, NEW o \in OfferIds, NEW v \in Offer,
         d.offer[o] # None => v.filled = d.offer[o].filled
  PROVE QuietChange(d, [d EXCEPT !.offer[o] = v])
  BY NoneAssumption DEF Tables, QuietChange

\* A new version of a bridge record is quiet.
LEMMA BridgeWrites ==
  ASSUME NEW d \in Tables, NEW s \in Serials, NEW v \in BridgeRecord
  PROVE QuietChange(d, [d EXCEPT !.bridgeRecord[s] = v])
  BY DEF Tables, QuietChange

\* What a quiet statement writes, whatever it is.
LEMMA QuietWrites ==
  ASSUME NEW d \in Tables, NEW s, Quiet(s), ~throws(d, s)
  PROVE QuietChange(d, written(d, s))
<1>1. CASE s.op = "create" /\ s.table = "approval" /\ s.row \in Approval
  <2>1. Append(d.approval, s.row) \in Seq(Approval)
    BY <1>1, TableIs, Grows
  <2>2. written(d, s) = [d EXCEPT !.approval = Append(d.approval, s.row)]
    BY <1>1 DEF written, Tables
  <2> QED BY <2>1, <2>2, ApprovalWrites
<1>2. CASE s.op = "create" /\ s.table = "retirement" /\ s.row \in Retirement
  <2>1. Append(d.retirement, s.row) \in Seq(Retirement)
    BY <1>2, TableIs, Grows
  <2>2. written(d, s) = [d EXCEPT !.retirement = Append(d.retirement, s.row)]
    BY <1>2 DEF written, Tables
  <2> QED BY <2>1, <2>2, RetirementWrites
<1>3. CASE s.op = "update" /\ s.table = "credit" /\ s.key \in CreditIds /\ CreditFields(s.fields)
  <2>1. d.credit[s.key] \in Credit
    BY <1>3, TableIs DEF throws
  <2>2. DOMAIN d.credit[s.key] = {"status", "owner"}
    BY <2>1 DEF Credit
  <2>3. merged(s.fields, d.credit[s.key]) \in Credit
    BY <1>3, <2>1, <2>2, CreditMerge DEF CreditFields
  <2>4. written(d, s) = [d EXCEPT !.credit[s.key] = merged(s.fields, d.credit[s.key])]
    BY <1>3 DEF written, Tables
  <2> QED BY <1>3, <2>3, <2>4, CreditWrites
<1>4. CASE s.op = "update" /\ s.table = "offer" /\ s.key \in OfferIds /\ StatusField(s.fields)
  <2>1. d.offer[s.key] \in Offer
    BY <1>4, TableIs DEF throws
  <2>2. /\ merged(s.fields, d.offer[s.key]) \in Offer
        /\ merged(s.fields, d.offer[s.key]).filled = d.offer[s.key].filled
    BY <1>4, <2>1, OfferMerge DEF StatusField
  <2>3. written(d, s) = [d EXCEPT !.offer[s.key] = merged(s.fields, d.offer[s.key])]
    BY <1>4 DEF written, Tables
  <2> QED BY <1>4, <2>2, <2>3, OfferWrites
<1>5. CASE s.op = "update" /\ s.table = "bridgeRecord" /\ s.key \in Serials /\ BridgeFields(s.fields)
  <2>1. d.bridgeRecord[s.key] \in BridgeRecord
    BY <1>5, TableIs DEF throws
  <2>2. merged(s.fields, d.bridgeRecord[s.key]) \in BridgeRecord
    BY <1>5, <2>1, BridgeMerge
  <2>3. written(d, s) = [d EXCEPT !.bridgeRecord[s.key] = merged(s.fields, d.bridgeRecord[s.key])]
    BY <1>5 DEF written, Tables
  <2> QED BY <1>5, <2>2, <2>3, BridgeWrites
<1>6. CASE /\ s.op = "upsert" /\ s.table = "credit" /\ s.key \in CreditIds
           /\ CreditFields(s.fields) /\ CreditFields(s.rest)
           /\ DOMAIN s.fields \cup DOMAIN s.rest = {"status", "owner"}
  <2> DEFINE row == IF d.credit[s.key] = None THEN s.rest ELSE d.credit[s.key]
  <2>1. CASE d.credit[s.key] = None
    <3>1. merged(s.fields, s.rest) \in Credit
      BY <1>6, CreditMerge
    <3> QED BY <1>6, <2>1, <3>1, CreditWrites DEF written, Tables
  <2>2. CASE d.credit[s.key] # None
    <3>1. d.credit[s.key] \in Credit
      BY <1>6, <2>2, TableIs
    <3>2. DOMAIN d.credit[s.key] = {"status", "owner"}
      BY <3>1 DEF Credit
    <3>3. merged(s.fields, d.credit[s.key]) \in Credit
      BY <1>6, <3>1, <3>2, CreditMerge DEF CreditFields
    <3> QED BY <1>6, <2>2, <3>3, CreditWrites DEF written, Tables
  <2> QED BY <2>1, <2>2
<1>7. CASE /\ s.op = "upsert" /\ s.table = "offer" /\ s.key \in OfferIds
           /\ NewOfferFields(s.fields, s.rest)
  <2>1. CASE d.offer[s.key] = None
    <3>1. merged(s.fields, s.rest) \in Offer
      BY <1>7, NewOffer
    <3> QED BY <1>7, <2>1, <3>1, OfferWrites DEF written, Tables
  <2>2. CASE d.offer[s.key] # None
    <3>1. d.offer[s.key] \in Offer
      BY <1>7, <2>2, TableIs
    <3>2. /\ merged(s.fields, d.offer[s.key]) \in Offer
          /\ merged(s.fields, d.offer[s.key]).filled = d.offer[s.key].filled
      BY <1>7, <3>1, OfferMerge DEF NewOfferFields
    <3> QED BY <1>7, <2>2, <3>2, OfferWrites DEF written, Tables
  <2> QED BY <2>1, <2>2
<1>8. CASE s.op = "updateFirst" /\ BridgeFields(s.fields)
  <2>1. CASE RecordsOf(d, s.credit) = {}
    BY <1>8, <2>1 DEF written, QuietChange
  <2>2. CASE RecordsOf(d, s.credit) # {}
    <3>1. PICK k \in RecordsOf(d, s.credit) : k = CHOOSE r \in RecordsOf(d, s.credit) : TRUE
      BY <2>2
    <3>2. k \in Serials /\ d.bridgeRecord[k] \in BridgeRecord
      BY <3>1, TableIs DEF RecordsOf
    <3>3. merged(s.fields, d.bridgeRecord[k]) \in BridgeRecord
      BY <1>8, <3>2, BridgeMerge
    <3>4. written(d, s) = [d EXCEPT !.bridgeRecord[k] = merged(s.fields, d.bridgeRecord[k])]
      BY <1>8, <2>2, <3>1, <3>2 DEF written, Tables
    <3> QED BY <3>2, <3>3, <3>4, BridgeWrites
  <2> QED BY <2>1, <2>2
<1> QED BY <1>1, <1>2, <1>3, <1>4, <1>5, <1>6, <1>7, <1>8 DEF Quiet

\* The database with one offer replaced.
LEMMA OfferSet ==
  ASSUME NEW d \in Tables, NEW o \in OfferIds, NEW v \in Offer
  PROVE LET e == [d EXCEPT !.offer[o] = v] IN
        /\ e \in Tables /\ e.trade = d.trade
        /\ \A p \in OfferIds : e.offer[p] = IF p = o THEN v ELSE d.offer[p]
  BY DEF Tables

\* The database with its trades replaced.
LEMMA TradeSet ==
  ASSUME NEW d \in Tables, NEW q \in Seq(Trade)
  PROVE LET e == [d EXCEPT !.trade = q] IN
        e \in Tables /\ e.offer = d.offer /\ e.trade = q
  BY DEF Tables

\* What was sold of an offer is a natural number.
LEMMA SoldIsNat ==
  ASSUME NEW t \in Seq(Trade), NEW o PROVE SoldOf(t, o) \in Nat
<1> DEFINE n == Len(t)
<1> DEFINE f == [i \in DOMAIN t |-> t[i].amount]
<1>1. n \in Nat /\ DOMAIN t = 1..n
  OBVIOUS
<1>2. \A i \in 1..n : f[i] \in Nat
  <2> SUFFICES ASSUME NEW i \in 1..n PROVE t[i].amount \in Nat
    BY <1>1
  <2>1. t[i] \in Trade
    BY <1>1, ElementIn
  <2> QED BY <2>1, MaxAmountAssumption DEF Trade
<1> DEFINE S == TradesOf(t, o)
<1>3. S \subseteq 1..n /\ IsFiniteSet(1..n)
  BY <1>1, FS_Interval DEF TradesOf
<1>4. SoldOf(t, o) = SumFunctionOnSet(f, S)
  BY DEF SoldOf
<1> HIDE DEF f, S
<1>5. IsFiniteSet(S)
  BY ONLY <1>3, FS_Subset
<1>6. \A i \in S : f[i] \in Nat
  BY <1>2, <1>3
<1> QED BY <1>4, <1>5, <1>6, SumNat

\* The sums over a table of trades that grows by a row.
LEMMA SoldGrows ==
  ASSUME NEW t \in Seq(Trade), NEW row \in Trade, NEW o
  PROVE /\ SoldOf(t, o) \in Nat
        /\ TradesOf(t, o) = {} => SoldOf(t, o) = 0
        /\ row.offer # o => /\ SoldOf(Append(t, row), o) = SoldOf(t, o)
                           /\ TradesOf(Append(t, row), o) = TradesOf(t, o)
        /\ row.offer = o => SoldOf(Append(t, row), o) = SoldOf(t, o) + row.amount
<1> DEFINE n == Len(t)
<1> DEFINE u == Append(t, row)
<1>1. /\ n \in Nat /\ DOMAIN t = 1..n /\ DOMAIN u = 1..n + 1 /\ u[n + 1] = row
      /\ \A i \in 1..n : u[i] = t[i]
  OBVIOUS
<1> HIDE DEF n, u
<1>2. \A i \in 1..n : t[i].amount \in Nat
  <2> SUFFICES ASSUME NEW i \in 1..n PROVE t[i].amount \in Nat
    OBVIOUS
  <2>1. t[i] \in Trade
    BY <1>1, ElementIn
  <2> QED BY <2>1, MaxAmountAssumption DEF Trade
<1>3. row.amount \in Nat
  BY MaxAmountAssumption DEF Trade
<1> DEFINE f == [i \in DOMAIN t |-> t[i].amount]
<1> DEFINE g == [i \in DOMAIN u |-> u[i].amount]
<1> DEFINE S == TradesOf(t, o)
<1>4. S \subseteq 1..n /\ IsFiniteSet(S) /\ n + 1 \notin S
  <2>1. S \subseteq 1..n /\ IsFiniteSet(1..n)
    BY <1>1, FS_Interval DEF TradesOf
  <2> HIDE DEF S
  <2>2. IsFiniteSet(S)
    BY ONLY <2>1, FS_Subset
  <2>3. n + 1 \notin 1..n
    BY <1>1
  <2> QED BY <2>1, <2>2, <2>3
<1>5. /\ \A i \in 1..n : f[i] \in Nat /\ f[i] = g[i]
      /\ g[n + 1] = row.amount
  BY <1>1, <1>2
<1>6. TradesOf(u, o) = IF row.offer = o THEN S \cup {n + 1} ELSE S
  <2>1. \A i : i \in 1..n + 1 <=> i \in 1..n \/ i = n + 1
    BY <1>1
  <2> QED BY <1>1, <2>1 DEF TradesOf
<1>7. SoldOf(t, o) = SumFunctionOnSet(f, S) /\ SoldOf(u, o) = SumFunctionOnSet(g, TradesOf(u, o))
  BY DEF SoldOf
<1> HIDE DEF f, g, S
<1>8. SumFunctionOnSet(f, S) \in Nat
  BY <1>4, <1>5, SumNat
<1>9. SumFunctionOnSet(f, S) = SumFunctionOnSet(g, S)
  <2>1. IsFiniteSet(S) /\ \A i \in S : f[i] \in Int /\ f[i] = g[i]
    BY <1>4, <1>5
  <2> QED BY ONLY <2>1, SumSame
<1>10. S = {} => SumFunctionOnSet(f, S) = 0
  BY SumEmpty
<1>11. ASSUME row.offer = o PROVE SoldOf(u, o) = SoldOf(t, o) + row.amount
  <2> DEFINE T == S \cup {n + 1}
  <2>1. IsFiniteSet(T) /\ T \ {n + 1} = S /\ n + 1 \in T
    BY <1>4, FS_AddElement
  <2>2. \A i \in T : g[i] \in Int
    BY <1>3, <1>4, <1>5
  <2>3. TradesOf(u, o) = T
    BY <1>6, <1>11
  <2> HIDE DEF T
  <2>4. SumFunctionOnSet(g, T) = g[n + 1] + SumFunctionOnSet(g, T \ {n + 1})
    BY <2>1, <2>2, SumRemove
  <2>5. SoldOf(u, o) = row.amount + SumFunctionOnSet(g, S)
    BY <1>5, <1>7, <2>1, <2>3, <2>4
  <2>6. SumFunctionOnSet(g, S) = SoldOf(t, o) /\ SoldOf(t, o) \in Nat
    BY <1>7, <1>8, <1>9
  <2> HIDE DEF T
  <2> QED BY <1>3, <2>5, <2>6
<1> QED BY <1>6, <1>7, <1>8, <1>9, <1>10, <1>11 DEF u, S

-----------------------------------------------------------------------------
\* A processor runs quiet statements, or the rest of a sale.
AllQuiet(ss) == \A k \in DOMAIN ss : Quiet(ss[k])

SaleAhead(ss) ==
  /\ Len(ss) = 3 /\ Quiet(ss[3])
  /\ \E o \in OfferIds, n \in 1..MaxAmount :
        db.offer[o] # None /\ Fill(ss[1], o, n) /\ Sale(ss[2], o, n)

SaleFilled(ss) ==
  /\ Len(ss) = 2 /\ Quiet(ss[2])
  /\ \E o \in OfferIds, n \in 1..MaxAmount : db.offer[o] # None /\ Sale(ss[1], o, n)

StatementsInv ==
  /\ statements \in Seq(Range(statements))
  /\ AllQuiet(statements) \/ SaleAhead(statements) \/ SaleFilled(statements)

\* What the pending trade adds to an offer's trades.
Owed(o) ==
  IF statements # << >> /\ Head(statements).op = "create" /\ Head(statements).table = "trade"
     /\ Head(statements).row.offer = o
  THEN Head(statements).row.amount ELSE 0

TradesInv ==
  \A o \in OfferIds :
     IF db.offer[o] = None THEN TradesOf(db.trade, o) = {}
     ELSE SoldOf(db.trade, o) + Owed(o) <= db.offer[o].filled

RowsInv == db \in Tables /\ StatementsInv /\ TradesInv

\* Before a quiet statement no trade is pending.
LEMMA QuietOwesNothing ==
  ASSUME statements # << >> => Quiet(Head(statements)), NEW o PROVE Owed(o) = 0
  BY DEF Owed, Quiet

\* The next statement is the first.
LEMMA HeadIs ==
  ASSUME NEW s, s \in Seq(Range(s)), Len(s) > 0 PROVE s # << >> /\ Head(s) = s[1]
  OBVIOUS

\* The statements that are left.
LEMMA TailIs ==
  ASSUME NEW s, s \in Seq(Range(s)), s # << >>
  PROVE /\ Tail(s) \in Seq(Range(Tail(s))) /\ Len(s) \in Nat \ {0} /\ Head(s) = s[1]
        /\ DOMAIN s = 1..Len(s) /\ DOMAIN Tail(s) = 1..Len(s) - 1 /\ Len(Tail(s)) = Len(s) - 1
        /\ \A k \in 1..Len(s) - 1 : Tail(s)[k] = s[k + 1]
<1>1. /\ Len(s) \in Nat \ {0} /\ Head(s) = s[1] /\ DOMAIN s = 1..Len(s)
      /\ Tail(s) \in Seq(Range(s)) /\ Len(Tail(s)) = Len(s) - 1
      /\ DOMAIN Tail(s) = 1..Len(s) - 1
      /\ \A k \in 1..Len(s) - 1 : Tail(s)[k] = s[k + 1]
  OBVIOUS
<1> DEFINE u == Tail(s)
<1>2. u \in Seq(Range(s))
  BY <1>1
<1> HIDE DEF u
<1>3. \A k \in DOMAIN u : u[k] \in Range(u)
  BY DEF Range
<1>4. u \in Seq(Range(u))
  BY <1>2, <1>3
<1> QED BY <1>1, <1>4 DEF u

\* A quiet statement keeps RowsInv.
LEMMA QuietStatement ==
  ASSUME RowsInv, AllQuiet(statements), statement PROVE RowsInv'
<1>1. /\ statements # << >> /\ ~throws(db, Head(statements))
      /\ db' = written(db, Head(statements)) /\ statements' = Tail(statements)
  BY DEF statement
<1>2. db \in Tables /\ statements \in Seq(Range(statements)) /\ TradesInv
  BY DEF RowsInv, StatementsInv
<1>3. /\ statements' \in Seq(Range(statements')) /\ Len(statements) \in Nat \ {0}
      /\ Head(statements) = statements[1] /\ DOMAIN statements = 1..Len(statements)
      /\ DOMAIN statements' = 1..Len(statements) - 1 /\ Len(statements') = Len(statements) - 1
      /\ \A k \in 1..Len(statements) - 1 : statements'[k] = statements[k + 1]
  BY <1>1, <1>2, TailIs
<1>4. Quiet(Head(statements)) /\ AllQuiet(statements')
  <2>1. 1 \in DOMAIN statements
    BY <1>3
  <2>2. \A k \in DOMAIN statements' : k + 1 \in DOMAIN statements /\ statements'[k] = statements[k + 1]
    BY <1>3
  <2> QED BY <1>3, <2>1, <2>2 DEF AllQuiet
<1>5. QuietChange(db, db')
  BY <1>1, <1>2, <1>4, QuietWrites
<1>6. statements' # << >> => Quiet(Head(statements'))
  <2> SUFFICES ASSUME statements' # << >> PROVE Quiet(Head(statements'))
    OBVIOUS
  <2>1. Head(statements') = statements'[1] /\ 1 \in DOMAIN statements'
    BY <1>3
  <2> QED BY <1>4, <2>1 DEF AllQuiet
<1>7. \A o : Owed(o) = 0 /\ Owed(o)' = 0
  BY <1>4, <1>6 DEF Owed, Quiet
<1>8. ASSUME NEW o \in OfferIds
      PROVE IF db'.offer[o] = None THEN TradesOf(db'.trade, o) = {}
            ELSE SoldOf(db'.trade, o) + Owed(o)' <= db'.offer[o].filled
  <2>1. db'.trade = db.trade /\ db' \in Tables /\ (db.offer[o] # None => db'.offer[o] # None)
    BY <1>5 DEF QuietChange
  <2>2. IF db.offer[o] = None THEN TradesOf(db.trade, o) = {}
        ELSE SoldOf(db.trade, o) + 0 <= db.offer[o].filled
    BY <1>2, <1>7 DEF TradesInv
  <2>3. CASE db'.offer[o] = None
    BY <2>1, <2>2, <2>3
  <2>4. CASE db'.offer[o] # None /\ db.offer[o] # None
    <3>1. db'.offer[o].filled = db.offer[o].filled
      BY <1>5, <2>4 DEF QuietChange
    <3> QED BY <1>7, <2>1, <2>2, <2>4, <3>1
  <2>5. CASE db'.offer[o] # None /\ db.offer[o] = None
    <3>1. db'.offer[o] \in Offer
      BY <2>1, <2>5, TableIs
    <3>2. db'.offer[o].filled \in Nat
      BY <3>1 DEF Offer
    <3>3. SoldOf(db'.trade, o) = 0
      <4>1. TradesOf(db.trade, o) = {}
        BY <2>2, <2>5
      <4>2. SoldOf(db.trade, o) = 0
        BY <4>1, SumEmpty DEF SoldOf
      <4> QED BY <2>1, <4>2
    <3> QED BY <1>7, <2>5, <3>2, <3>3
  <2> QED BY <2>3, <2>4, <2>5
<1>9. db' \in Tables
  BY <1>5 DEF QuietChange
<1> QED BY <1>3, <1>4, <1>8, <1>9 DEF RowsInv, StatementsInv, TradesInv

\* The update of the offer makes room for the trade to come.
LEMMA FillStatement ==
  ASSUME RowsInv, SaleAhead(statements), statement PROVE RowsInv'
<1>1. /\ statements # << >> /\ ~throws(db, Head(statements))
      /\ db' = written(db, Head(statements)) /\ statements' = Tail(statements)
  BY DEF statement
<1>2. db \in Tables /\ statements \in Seq(Range(statements)) /\ TradesInv
  BY DEF RowsInv, StatementsInv
<1>3. /\ statements' \in Seq(Range(statements')) /\ Len(statements) = 3
      /\ Head(statements) = statements[1] /\ Len(statements') = 2
      /\ Head(statements') = statements[2]
      /\ statements'[1] = statements[2] /\ statements'[2] = statements[3]
      /\ statements' # << >>
  <2>1. /\ statements' \in Seq(Range(statements')) /\ Len(statements) = 3
        /\ Head(statements) = statements[1] /\ Len(statements') = Len(statements) - 1
        /\ \A k \in 1..Len(statements) - 1 : statements'[k] = statements[k + 1]
    BY <1>1, <1>2, TailIs DEF SaleAhead
  <2>2. statements' # << >> /\ Head(statements') = statements'[1]
    BY <2>1
  <2> QED BY <2>1, <2>2
<1>4. PICK o \in OfferIds, n \in 1..MaxAmount :
        db.offer[o] # None /\ Fill(statements[1], o, n) /\ Sale(statements[2], o, n)
  BY DEF SaleAhead
<1>5. Quiet(statements[3]) /\ n \in Nat
  BY MaxAmountAssumption DEF SaleAhead
<1> DEFINE s == statements[1]
<1> DEFINE row == merged(s.fields, db.offer[o])
<1>6. db.offer[o] \in Offer /\ db.offer[o].filled \in Nat
  <2>1. db.offer[o] \in Offer
    BY <1>2, <1>4, TableIs
  <2> QED BY <2>1 DEF Offer
<1>7. row \in Offer /\ row.filled = db.offer[o].filled + n
  <2>1. /\ DOMAIN s.fields \subseteq {"filled", "status", "amount"} /\ "filled" \in DOMAIN s.fields
        /\ s.fields.filled = db.offer[o].filled + n /\ s.fields.filled \in Nat
        /\ "status" \in DOMAIN s.fields => s.fields.status \in OfferStatus
        /\ "amount" \notin DOMAIN s.fields
    BY <1>4, <1>5, <1>6 DEF Fill
  <2> HIDE DEF s
  <2> QED BY <1>6, <2>1, OfferMerge
<1>8. db' = [db EXCEPT !.offer[o] = row]
  BY <1>1, <1>2, <1>3, <1>4 DEF written, Fill, Tables
<1> HIDE DEF s, row
<1>9. /\ db' \in Tables /\ db'.trade = db.trade
      /\ \A p \in OfferIds : db'.offer[p] = IF p = o THEN row ELSE db.offer[p]
  BY <1>2, <1>7, <1>8, OfferSet
<1>10. \A p : /\ Owed(p) = 0
              /\ Owed(p)' = IF p = o THEN n ELSE 0
  BY <1>3, <1>4 DEF Owed, Fill, Sale
<1>11. row # None
  BY <1>7, NoneAssumption
<1>12. ASSUME NEW p \in OfferIds
       PROVE IF db'.offer[p] = None THEN TradesOf(db'.trade, p) = {}
             ELSE SoldOf(db'.trade, p) + Owed(p)' <= db'.offer[p].filled
  <2>1. IF db.offer[p] = None THEN TradesOf(db.trade, p) = {}
        ELSE SoldOf(db.trade, p) + 0 <= db.offer[p].filled
    BY <1>2, <1>10 DEF TradesInv
  <2>2. CASE p # o
    BY <1>9, <1>10, <2>1, <2>2
  <2>3. CASE p = o
    <3>1. SoldOf(db.trade, o) \in Int
      <4>1. db.trade \in Seq(Trade) /\ statements[2].row \in Trade
        BY <1>2, <1>4, TableIs DEF Sale
      <4> QED BY <4>1, SoldGrows
    <3>2. SoldOf(db.trade, o) + n <= db.offer[o].filled + n
      BY <1>4, <1>5, <1>6, <2>1, <2>3, <3>1
    <3> QED BY <1>7, <1>9, <1>10, <1>11, <2>3, <3>2
  <2> QED BY <2>2, <2>3
<1>13. SaleFilled(statements)'
  <2>1. db'.offer[o] # None
    BY <1>9, <1>11
  <2> QED BY <1>3, <1>4, <1>5, <2>1 DEF SaleFilled
<1> QED BY <1>3, <1>9, <1>12, <1>13 DEF RowsInv, StatementsInv, TradesInv

\* The trade takes the room that the update made.
LEMMA SaleStatement ==
  ASSUME RowsInv, SaleFilled(statements), statement PROVE RowsInv'
<1>1. /\ statements # << >>
      /\ db' = written(db, Head(statements)) /\ statements' = Tail(statements)
  BY DEF statement
<1>2. db \in Tables /\ statements \in Seq(Range(statements)) /\ TradesInv
  BY DEF RowsInv, StatementsInv
<1>3. /\ statements' \in Seq(Range(statements'))
      /\ Head(statements) = statements[1] /\ statements' # << >>
      /\ Head(statements') = statements[2] /\ AllQuiet(statements')
  <2>1. /\ statements' \in Seq(Range(statements')) /\ Len(statements) = 2
        /\ Head(statements) = statements[1] /\ Len(statements') = Len(statements) - 1
        /\ DOMAIN statements' = 1..Len(statements) - 1
        /\ \A k \in 1..Len(statements) - 1 : statements'[k] = statements[k + 1]
    BY <1>1, <1>2, TailIs DEF SaleFilled
  <2>2. /\ statements' # << >> /\ Head(statements') = statements'[1] /\ DOMAIN statements' = {1}
        /\ statements'[1] = statements[2]
    <3>1. Len(statements') = 1 /\ DOMAIN statements' = 1..1 /\ statements'[1] = statements[1 + 1]
      <4>1. Len(statements) - 1 = 1 /\ 1 \in 1..1
        BY <2>1
      <4> QED BY <2>1, <4>1
    <3>2. 1..1 = {1} /\ 1 + 1 = 2
      OBVIOUS
    <3>3. statements'[1] = statements[2] /\ DOMAIN statements' = {1}
      BY <3>1, <3>2
    <3>4. statements' # << >> /\ Head(statements') = statements'[1]
      <4>1. statements' \in Seq(Range(statements')) /\ Len(statements') = 1
        BY <2>1, <3>1
      <4> QED BY ONLY <4>1, HeadIs
    <3> QED BY <3>3, <3>4
  <2>3. Quiet(statements[2])
    BY DEF SaleFilled
  <2> QED BY <2>1, <2>2, <2>3 DEF AllQuiet
<1>4. PICK o \in OfferIds, n \in 1..MaxAmount : db.offer[o] # None /\ Sale(statements[1], o, n)
  BY DEF SaleFilled
<1> DEFINE row == statements[1].row
<1>5. row \in Trade /\ row.offer = o /\ row.amount = n /\ n \in Nat
  BY <1>4, MaxAmountAssumption DEF Sale
<1>6. db.trade \in Seq(Trade) /\ Append(db.trade, row) \in Seq(Trade)
  <2>1. db.trade \in Seq(Trade)
    BY <1>2, TableIs
  <2> HIDE DEF row
  <2> QED BY <1>5, <2>1, Grows
<1>7. db' = [db EXCEPT !.trade = Append(db.trade, row)]
  BY <1>1, <1>2, <1>3, <1>4 DEF written, Sale, Tables
<1>8. Quiet(Head(statements'))
  BY <1>3 DEF SaleFilled
<1>9. \A p : /\ Owed(p) = IF p = o THEN n ELSE 0
             /\ Owed(p)' = 0
  BY <1>1, <1>3, <1>4, <1>8 DEF Owed, Sale, Quiet
<1> HIDE DEF row
<1>10. db' \in Tables /\ db'.offer = db.offer /\ db'.trade = Append(db.trade, row)
  BY <1>2, <1>6, <1>7, TradeSet
<1>11. ASSUME NEW p \in OfferIds
       PROVE IF db'.offer[p] = None THEN TradesOf(db'.trade, p) = {}
             ELSE SoldOf(db'.trade, p) + Owed(p)' <= db'.offer[p].filled
  <2>1. IF db.offer[p] = None THEN TradesOf(db.trade, p) = {}
        ELSE SoldOf(db.trade, p) + Owed(p) <= db.offer[p].filled
    BY <1>2 DEF TradesInv
  <2>2. /\ SoldOf(db.trade, p) \in Nat
        /\ row.offer # p => /\ SoldOf(db'.trade, p) = SoldOf(db.trade, p)
                           /\ TradesOf(db'.trade, p) = TradesOf(db.trade, p)
        /\ row.offer = p => SoldOf(db'.trade, p) = SoldOf(db.trade, p) + row.amount
    BY <1>5, <1>6, <1>10, SoldGrows
  <2>3. CASE p # o
    BY <1>5, <1>9, <1>10, <2>1, <2>2, <2>3
  <2>4. CASE p = o
    BY <1>4, <1>5, <1>9, <1>10, <2>1, <2>2, <2>4
  <2> QED BY <2>3, <2>4
<1> QED BY <1>3, <1>10, <1>11 DEF RowsInv, StatementsInv, TradesInv

\* One quiet statement.
LEMMA Statements1 ==
  ASSUME NEW s, Quiet(s) PROVE <<s>> \in Seq(Range(<<s>>)) /\ AllQuiet(<<s>>)
<1>1. DOMAIN <<s>> = {1} /\ <<s>>[1] = s /\ <<s>> \in Seq({s})
  OBVIOUS
<1>2. Range(<<s>>) = {s}
  BY <1>1 DEF Range
<1> QED BY <1>1, <1>2 DEF AllQuiet

\* Two quiet statements.
LEMMA Statements2 ==
  ASSUME NEW r, NEW s, Quiet(r), Quiet(s)
  PROVE <<r, s>> \in Seq(Range(<<r, s>>)) /\ AllQuiet(<<r, s>>)
<1>1. DOMAIN <<r, s>> = 1..2 /\ <<r, s>>[1] = r /\ <<r, s>>[2] = s /\ <<r, s>> \in Seq({r, s})
  OBVIOUS
<1>2. \A k : k \in 1..2 <=> k = 1 \/ k = 2
  OBVIOUS
<1>3. Range(<<r, s>>) = {r, s}
  BY <1>1, <1>2 DEF Range
<1> QED BY <1>1, <1>2, <1>3 DEF AllQuiet

\* No statement is quiet.
LEMMA NoStatements ==
  << >> \in Seq(Range(<< >>)) /\ AllQuiet(<< >>)
  BY DEF AllQuiet, Range

\* Three statements.
LEMMA Statements3 ==
  ASSUME NEW q, NEW r, NEW s
  PROVE LET ss == <<q, r, s>> IN
        ss \in Seq(Range(ss)) /\ Len(ss) = 3 /\ ss[1] = q /\ ss[2] = r /\ ss[3] = s
<1> DEFINE ss == <<q, r, s>>
<1>1. DOMAIN ss = 1..3 /\ ss[1] = q /\ ss[2] = r /\ ss[3] = s /\ Len(ss) = 3 /\ ss \in Seq({q, r, s})
  OBVIOUS
<1>2. q \in Range(ss) /\ r \in Range(ss) /\ s \in Range(ss)
  BY <1>1 DEF Range
<1>3. \A k \in 1..3 : k = 1 \/ k = 2 \/ k = 3
  OBVIOUS
<1>4. \A k \in 1..3 : ss[k] \in Range(ss)
  BY <1>1, <1>2, <1>3
<1> HIDE DEF ss
<1>5. ss \in Seq(Range(ss))
  BY <1>1, <1>4
<1> QED BY <1>1, <1>5 DEF ss

\* The updates and upserts of the processors are quiet.
LEMMA QuietForms ==
  /\ \A c \in CreditIds : \A x \in CreditStatus : Quiet(update("credit", c, [status |-> x]))
  /\ \A c \in CreditIds : \A u \in Users : Quiet(update("credit", c, [owner |-> u]))
  /\ \A o \in OfferIds : \A x \in OfferStatus : Quiet(update("offer", o, [status |-> x]))
  /\ \A s \in Serials : \A x \in BridgeStatus : Quiet(update("bridgeRecord", s, [status |-> x]))
  /\ \A c : \A x \in BridgeStatus : Quiet(updateFirst(c, [status |-> x]))
  /\ \A row \in Approval : Quiet(create("approval", row))
  /\ \A row \in Retirement : Quiet(create("retirement", row))
  /\ \A c \in CreditIds : \A x \in CreditStatus : \A u \in Users :
        Quiet(upsert("credit", c, [status |-> x], [owner |-> u]))
  /\ \A o \in OfferIds : \A n \in 1..MaxAmount : \A x \in OfferStatus :
     \A c \in CreditIds : \A u \in Users :
        Quiet(upsert("offer", o, [amount |-> n, status |-> x],
                     [credit |-> c, seller |-> u, filled |-> 0]))
<1>1. \A c \in CreditIds : \A x \in CreditStatus : Quiet(update("credit", c, [status |-> x]))
  BY DEF Quiet, update, CreditFields
<1>2. \A c \in CreditIds : \A u \in Users : Quiet(update("credit", c, [owner |-> u]))
  BY DEF Quiet, update, CreditFields
<1>3. \A o \in OfferIds : \A x \in OfferStatus : Quiet(update("offer", o, [status |-> x]))
  BY DEF Quiet, update, StatusField
<1>4. \A s \in Serials : \A x \in BridgeStatus : Quiet(update("bridgeRecord", s, [status |-> x]))
  BY DEF Quiet, update, BridgeFields
<1>5. \A c : \A x \in BridgeStatus : Quiet(updateFirst(c, [status |-> x]))
  BY DEF Quiet, updateFirst, BridgeFields
<1>6. \A row \in Approval : Quiet(create("approval", row))
  BY DEF Quiet, create
<1>7. \A row \in Retirement : Quiet(create("retirement", row))
  BY DEF Quiet, create
<1>8. \A c \in CreditIds : \A x \in CreditStatus : \A u \in Users :
        Quiet(upsert("credit", c, [status |-> x], [owner |-> u]))
  BY DEF Quiet, upsert, CreditFields
<1>9. \A o \in OfferIds : \A n \in 1..MaxAmount : \A x \in OfferStatus :
      \A c \in CreditIds : \A u \in Users :
        Quiet(upsert("offer", o, [amount |-> n, status |-> x],
                     [credit |-> c, seller |-> u, filled |-> 0]))
  BY DEF Quiet, upsert, NewOfferFields
<1> QED BY <1>1, <1>2, <1>3, <1>4, <1>5, <1>6, <1>7, <1>8, <1>9

\* What a processor may run.
Runs(ss) == ss \in Seq(Range(ss)) /\ (AllQuiet(ss) \/ SaleAhead(ss))

\* processOfferFilled updates the offer, stores the trade, and updates the credit.
LEMMA SaleForm ==
  ASSUME ScriptsAssumption, db \in Tables, NEW e \in Published, e.topic = "offer_filled"
  PROVE Runs(processOfferFilled(e, db))
<1>1. e.offer \in OfferIds /\ e.user \in Users /\ e.amount \in 1..MaxAmount /\ e.amount \in Nat
  BY MaxAmountAssumption DEF ScriptsAssumption, OfferTopics, UserTopics
<1> DEFINE o == db.offer[e.offer]
<1>2. CASE o = None
  BY <1>2, NoStatements DEF Runs, processOfferFilled
<1>3. CASE o # None
  <2>1. o \in Offer
    BY <1>1, <1>3, TableIs
  <2>2. o.filled \in Nat /\ o.credit \in CreditIds
    BY <2>1 DEF Offer
  <2> DEFINE f == [filled |-> o.filled + e.amount]
  <2> DEFINE g == IF f.filled >= o.amount THEN [status |-> "FILLED"] ELSE << >>
  <2> DEFINE q == update("offer", e.offer, merged(f, g))
  <2> DEFINE r == create("trade", [offer |-> e.offer, buyer |-> e.user, amount |-> e.amount])
  <2> DEFINE s == update("credit", o.credit, [owner |-> e.user])
  <2>3. processOfferFilled(e, db) = <<q, r, s>>
    BY <1>3 DEF processOfferFilled
  <2>4. Quiet(s)
    BY <1>1, <2>2, QuietForms
  <2>5. Sale(r, e.offer, e.amount)
    BY <1>1 DEF Sale, Trade, create
  <2>6. Fill(q, e.offer, e.amount)
    <3> DEFINE m == merged(f, g)
    <3>1. MergeOf(m, f, g)
      BY MergedIs
    <3>2. DOMAIN f = {"filled"} /\ f.filled = o.filled + e.amount
      OBVIOUS
    <3>3. DOMAIN g \subseteq {"status"} /\ ("status" \in DOMAIN g => g.status = "FILLED")
      OBVIOUS
    <3>4. q.op = "update" /\ q.table = "offer" /\ q.key = e.offer /\ q.fields = m
      BY DEF update
    <3> HIDE DEF m, f, g, q
    <3>5. DOMAIN m \subseteq {"filled", "status"} /\ "filled" \in DOMAIN m
      BY <3>1, <3>2, <3>3 DEF MergeOf
    <3>6. m.filled = o.filled + e.amount /\ ("status" \in DOMAIN m => m.status = "FILLED")
      BY <3>1, <3>2, <3>3 DEF MergeOf
    <3> QED BY <3>4, <3>5, <3>6 DEF Fill, OfferStatus
  <2> HIDE DEF q, r, s
  <2>7. SaleAhead(<<q, r, s>>) /\ <<q, r, s>> \in Seq(Range(<<q, r, s>>))
    BY <1>1, <1>3, <2>4, <2>5, <2>6, Statements3 DEF SaleAhead
  <2> QED BY <2>3, <2>7 DEF Runs
<1> QED BY <1>2, <1>3

\* Every processor runs quiet statements or a sale.
LEMMA ProcessorsRun ==
  ASSUME ScriptsAssumption, db \in Tables, NEW e \in Published, e.topic \in Topics
  PROVE Runs(processEvent(e, db))
<1>1. CASE e.topic = "credit_submitted"
  <2>1. e.credit \in CreditIds /\ e.user \in Users /\ "PENDING" \in CreditStatus
    BY <1>1 DEF ScriptsAssumption, CreditTopics, UserTopics, CreditStatus
  <2>2. Quiet(upsert("credit", e.credit, [status |-> "PENDING"], [owner |-> e.user]))
    BY <2>1, QuietForms
  <2> QED BY <1>1, <2>2, Statements1 DEF Runs, processEvent, processCreditSubmitted
<1>2. CASE e.topic = "credit_approved"
  <2>1. e.credit \in CreditIds /\ e.user \in Users
    BY <1>2 DEF ScriptsAssumption, CreditTopics, UserTopics
  <2>2. Quiet(create("approval", [credit |-> e.credit, verifier |-> e.user, approved |-> TRUE]))
    BY <2>1, QuietForms DEF Approval
  <2> QED BY <1>2, <2>2, Statements1, NoStatements DEF Runs, processEvent, processCreditApproved
<1>3. CASE e.topic = "credit_minted"
  <2>1. e.credit \in CreditIds /\ "ACTIVE" \in CreditStatus
    BY <1>3 DEF ScriptsAssumption, CreditTopics, CreditStatus
  <2>2. Quiet(update("credit", e.credit, [status |-> "ACTIVE"]))
    BY <2>1, QuietForms
  <2> QED BY <1>3, <2>2, Statements1 DEF Runs, processEvent, processCreditMinted
<1>4. CASE e.topic = "credit_rejected"
  <2>1. e.credit \in CreditIds /\ e.user \in Users /\ "REJECTED" \in CreditStatus
    BY <1>4 DEF ScriptsAssumption, CreditTopics, UserTopics, CreditStatus
  <2>2. Quiet(create("approval", [credit |-> e.credit, verifier |-> e.user, approved |-> FALSE]))
    BY <2>1, QuietForms DEF Approval
  <2>3. Quiet(update("credit", e.credit, [status |-> "REJECTED"]))
    BY <2>1, QuietForms
  <2> QED BY <1>4, <2>2, <2>3, Statements2, NoStatements DEF Runs, processEvent, processCreditRejected
<1>5. CASE e.topic = "credit_transferred"
  <2>1. e.credit \in CreditIds /\ e.user \in Users
    BY <1>5 DEF ScriptsAssumption, CreditTopics, UserTopics
  <2>2. Quiet(update("credit", e.credit, [owner |-> e.user]))
    BY <2>1, QuietForms
  <2> QED BY <1>5, <2>2, Statements1 DEF Runs, processEvent, processCreditTransferred
<1>6. CASE e.topic = "credit_retired"
  <2>1. e.credit \in CreditIds /\ e.user \in Users /\ "RETIRED" \in CreditStatus
    BY <1>6 DEF ScriptsAssumption, CreditTopics, UserTopics, CreditStatus
  <2>2. Quiet(create("retirement", [credit |-> e.credit, by |-> e.user]))
    BY <2>1, QuietForms DEF Retirement
  <2>3. Quiet(update("credit", e.credit, [status |-> "RETIRED"]))
    BY <2>1, QuietForms
  <2> QED BY <1>6, <2>2, <2>3, Statements2, NoStatements DEF Runs, processEvent, processCreditRetired
<1>7. CASE e.topic = "offer_created"
  <2>1. /\ e.credit \in CreditIds /\ e.user \in Users /\ e.offer \in OfferIds
        /\ e.amount \in 1..MaxAmount /\ "ACTIVE" \in OfferStatus
    BY <1>7 DEF ScriptsAssumption, UserTopics, OfferTopics, OfferStatus
  <2>2. Quiet(upsert("offer", e.offer, [amount |-> e.amount, status |-> "ACTIVE"],
                     [credit |-> e.credit, seller |-> e.user, filled |-> 0]))
    BY <2>1, QuietForms
  <2> QED BY <1>7, <2>2, Statements1, NoStatements DEF Runs, processEvent, processOfferCreated
<1>8. CASE e.topic = "offer_filled"
  BY <1>8, SaleForm DEF processEvent
<1>9. CASE e.topic = "offer_cancelled"
  <2>1. e.offer \in OfferIds /\ "CANCELLED" \in OfferStatus
    BY <1>9 DEF ScriptsAssumption, OfferTopics, OfferStatus
  <2>2. Quiet(update("offer", e.offer, [status |-> "CANCELLED"]))
    BY <2>1, QuietForms
  <2> QED BY <1>9, <2>2, Statements1 DEF Runs, processEvent, processOfferCancelled
<1>10. CASE e.topic = "bridged"
  <2>1. e.serial \in Serials /\ "INBOUND" \in BridgeStatus
    BY <1>10 DEF ScriptsAssumption, BridgeStatus
  <2>2. Quiet(update("bridgeRecord", e.serial, [status |-> "INBOUND"]))
    BY <2>1, QuietForms
  <2> QED BY <1>10, <2>2, Statements1, NoStatements DEF Runs, processEvent, processCreditBridged
<1>11. CASE e.topic = "bridge_ot"
  <2>1. e.credit \in CreditIds /\ "RETIRED" \in CreditStatus /\ "OUTBOUND" \in BridgeStatus
    BY <1>11 DEF ScriptsAssumption, CreditTopics, CreditStatus, BridgeStatus
  <2>2. Quiet(update("credit", e.credit, [status |-> "RETIRED"]))
    BY <2>1, QuietForms
  <2>3. Quiet(updateFirst(e.credit, [status |-> "OUTBOUND"]))
    BY <2>1, QuietForms
  <2> QED BY <1>11, <2>2, <2>3, Statements2 DEF Runs, processEvent, processCreditBridgedOut
<1>12. CASE e.topic = "root_upd"
  BY <1>12, NoStatements DEF Runs, processEvent, processRegistryRootUpdated
<1> QED BY <1>1, <1>2, <1>3, <1>4, <1>5, <1>6, <1>7, <1>8, <1>9, <1>10, <1>11, <1>12
        DEF Topics, CreditTopics, OfferTopics

-----------------------------------------------------------------------------
\* Where the loop is on the chain, whatever the ledgers hold.
Behind(at) == at \in [ledgerSequence : 1..tip + 1, txIndex : Nat]

ChainEvent == [ledger : Nat, txIndex : Nat, event : Published]

Known(i) == i \in DOMAIN chain /\ Relevant(i)

LoopChain ==
  /\ tip \in 0..MaxLedger
  /\ chain \in Seq(ChainEvent) /\ future \in Seq(Published)
  /\ \A i \in DOMAIN chain : chain[i].ledger \in 1..tip

LoopInv ==
  /\ LoopChain
  /\ pc \in {"sleeping", "fetching", "processing"}
  /\ Behind(cursor) /\ Behind(seen) /\ startLedger \in Nat
  /\ pageCount \in 0..MAX_PAGES - 1
  /\ sawEvents \in BOOLEAN /\ (sawEvents => seen.ledgerSequence <= tip)
  /\ events \in Seq(Nat) /\ \A i \in Range(events) : Known(i)
  /\ handed \subseteq DOMAIN chain
  /\ pc # "processing" => statements = << >>

RowsInvs == LoopInv /\ RowsInv

\* Empty tables.
LEMMA RowsInitially ==
  ASSUME IndexerAssumption, ScriptsAssumption, IndexerInit PROVE RowsInvs
<1>1. LoopInv
  <2>1. Behind(Genesis)
    BY DEF IndexerInit, Behind, Genesis
  <2>2. Range(events) = {}
    BY DEF IndexerInit, Range
  <2>3. /\ chain = << >> /\ tip = 0 /\ cursor = Genesis /\ seen = Genesis /\ startLedger = 1
        /\ pageCount = 0 /\ sawEvents = FALSE /\ pc = "sleeping" /\ events = << >>
        /\ statements = << >> /\ handed = {} /\ future \in Seq(Published)
    BY DEF IndexerInit, ScriptsAssumption
  <2>4. 0 \in 0..MaxLedger /\ 0 \in 0..MAX_PAGES - 1
    BY DEF IndexerAssumption
  <2>5. chain \in Seq(ChainEvent) /\ DOMAIN chain = {} /\ events \in Seq(Nat)
    BY <2>3
  <2>6. cursor = Genesis /\ seen = Genesis => Behind(cursor) /\ Behind(seen)
    BY <2>1
  <2> QED BY <2>1, <2>2, <2>3, <2>4, <2>5, <2>6 DEF LoopInv, LoopChain
<1>2. db = EmptyTables /\ statements = << >>
  BY DEF IndexerInit
<1>3. db \in Tables
  BY <1>2 DEF Tables, EmptyTables
<1>4. StatementsInv
  BY <1>2, NoStatements DEF StatementsInv
<1>5. TradesInv
  BY <1>2 DEF TradesInv, EmptyTables, TradesOf
<1> QED BY <1>1, <1>3, <1>4, <1>5 DEF RowsInvs, RowsInv

\* An event of the chain and its position.
LEMMA KnownEvent ==
  ASSUME LoopInv, NEW i \in DOMAIN chain
  PROVE /\ chain[i] \in ChainEvent /\ chain[i].event \in Published
        /\ position(i) \in [ledgerSequence : 1..tip, txIndex : Nat]
        /\ i \in Nat
<1>1. chain[i] \in ChainEvent /\ i \in Nat
  BY ElementIn DEF LoopInv, LoopChain
<1>2. chain[i].ledger \in 1..tip
  BY DEF LoopInv, LoopChain
<1> QED BY <1>1, <1>2 DEF ChainEvent, position

\* The pages of the node hold events of the chain.
LEMMA PageOfChain ==
  ASSUME IndexerAssumption, LoopInv, NEW from \in Nat
  PROVE \E n \in Nat : /\ DOMAIN page(from) = 1..n
                       /\ \A k \in 1..n : page(from)[k] \in DOMAIN chain
<1> DEFINE found == {i \in DOMAIN chain : chain[i].ledger >= from}
<1> DEFINE N == Len(chain)
<1> DEFINE c == Cardinality(found)
<1>1. N \in Nat /\ DOMAIN chain = 1..N
  BY DEF LoopInv, LoopChain
<1>2. c \in Nat /\ c <= N
  <2>0. 1 \in Int /\ N \in Int /\ (IF 1 > N THEN 0 ELSE N - 1 + 1) = N /\ found \subseteq 1..N
    BY <1>1
  <2>1. IsFiniteSet(1..N) /\ Cardinality(1..N) = N /\ found \subseteq 1..N
    BY ONLY <2>0, FS_Interval
  <2> HIDE DEF found, N
  <2>2. IsFiniteSet(found) /\ Cardinality(found) <= Cardinality(1..N)
    BY ONLY <2>1, FS_Subset
  <2> QED BY <2>1, <2>2, FS_CardinalityType
<1> DEFINE n == IF c < PAGE_LIMIT THEN c ELSE PAGE_LIMIT
<1>3. n \in Nat /\ n <= c
  <2> HIDE DEF c
  <2> QED BY <1>2 DEF IndexerAssumption
<1>4. page(from) = [k \in 1..n |-> N - c + k]
  BY DEF page
<1> HIDE DEF n, c, N
<1>5. \A k \in 1..n : N - c + k \in DOMAIN chain
  BY <1>1, <1>2, <1>3
<1>6. DOMAIN page(from) = 1..n /\ \A k \in 1..n : page(from)[k] \in DOMAIN chain
  BY <1>4, <1>5
<1> QED BY <1>3, <1>6

\* What the loop over a page may hold.
LoopAccs ==
  {acc \in Accs : /\ Behind(acc.seen)
                  /\ acc.saw => acc.seen.ledgerSequence <= tip
                  /\ \A i \in Range(acc.events) : Known(i)}

\* The loop over a page holds positions and events of the chain.
LEMMA TakeStays ==
  ASSUME LoopInv, NEW acc \in LoopAccs, NEW i \in DOMAIN chain
  PROVE take(acc, i) \in LoopAccs
<1>1. CASE ~chain[i].event.ok \/ ~after(i, acc.seen)
  BY <1>1 DEF take
<1>2. CASE chain[i].event.ok /\ after(i, acc.seen)
  <2>1. acc.events \in Seq(Nat) /\ \A j \in Range(acc.events) : Known(j)
    BY DEF LoopAccs, Accs
  <2>2. i \in Nat /\ position(i) \in [ledgerSequence : 1..tip, txIndex : Nat] /\ tip \in Nat
    BY KnownEvent DEF LoopInv, LoopChain
  <2>3. position(i) \in Cursors /\ Behind(position(i)) /\ position(i).ledgerSequence <= tip
    BY <2>2 DEF Cursors, Behind
  <2> DEFINE grown == IF chain[i].event.topic \in Topics THEN Append(acc.events, i) ELSE acc.events
  <2>4. grown \in Seq(Nat) /\ \A j \in Range(grown) : Known(j)
    <3>1. /\ Append(acc.events, i) \in Seq(Nat)
          /\ \A x : x \in Range(Append(acc.events, i)) <=> x \in Range(acc.events) \/ x = i
      BY <2>1, <2>2, AppendRange
    <3> QED BY <1>2, <2>1, <3>1 DEF Known, Relevant
  <2>5. take(acc, i) = [seen |-> position(i), saw |-> TRUE, events |-> grown]
    BY <1>2 DEF take
  <2> HIDE DEF grown
  <2>6. [seen |-> position(i), saw |-> TRUE, events |-> grown] \in Accs
    BY <2>3, <2>4, AccIn
  <2> QED BY <2>3, <2>4, <2>5, <2>6 DEF LoopAccs
<1> QED BY <1>1, <1>2

\* A ledger that closes keeps what is known of the chain.
LEMMA LoopCloses ==
  ASSUME IndexerAssumption, LoopInv, close_ledger PROVE LoopInv'
<1>1. PICK shape \in LedgerShapes : Added(shape)
  BY Closes DEF LoopInv, LoopChain, ChainEvent
<1>2. /\ pc' = pc /\ cursor' = cursor /\ seen' = seen /\ startLedger' = startLedger
      /\ pageCount' = pageCount /\ sawEvents' = sawEvents /\ events' = events
      /\ statements' = statements /\ handed' = handed /\ tip' = tip + 1 /\ tip < MaxLedger
  BY DEF close_ledger, fetchVars
<1>3. /\ \A i \in DOMAIN chain : i \in DOMAIN chain' /\ chain'[i] = chain[i]
      /\ \A i \in DOMAIN chain' : i \in DOMAIN chain \/ chain'[i].ledger = tip + 1
  <2> DEFINE N == Len(chain)
  <2> DEFINE m == Len(shape)
  <2>1. /\ N \in Nat /\ m \in Nat /\ DOMAIN chain = 1..N /\ DOMAIN chain' = 1..N + m
        /\ \A i \in 1..N : chain'[i] = chain[i]
        /\ \A i \in N + 1..N + m : chain'[i].ledger = tip + 1
    BY <1>1 DEF Added
  <2> HIDE DEF N, m
  <2>2. \A i \in 1..N + m : i \in 1..N \/ i \in N + 1..N + m
    BY <2>1
  <2>3. \A i \in 1..N : i \in 1..N + m
    BY <2>1
  <2> QED BY <2>1, <2>2, <2>3
<1>4. tip \in Nat /\ tip' \in 0..MaxLedger /\ tip' \in Nat
  BY <1>2 DEF LoopInv, LoopChain, IndexerAssumption
<1>5. \A i \in DOMAIN chain' : chain'[i].ledger \in 1..tip'
  <2> SUFFICES ASSUME NEW i \in DOMAIN chain' PROVE chain'[i].ledger \in 1..tip'
    OBVIOUS
  <2>1. CASE i \in DOMAIN chain
    <3>1. chain[i].ledger \in 1..tip
      BY <2>1 DEF LoopInv, LoopChain
    <3> QED BY <1>2, <1>3, <1>4, <2>1, <3>1
  <2>2. CASE i \notin DOMAIN chain
    BY <1>2, <1>3, <1>4, <2>2
  <2> QED BY <2>1, <2>2
<1>6. Behind(cursor)' /\ Behind(seen)'
  <2>1. 1..tip + 1 \subseteq 1..tip' + 1
    BY <1>2, <1>4
  <2> QED BY <1>2, <2>1 DEF LoopInv, LoopChain, Behind
<1>7. sawEvents' => seen'.ledgerSequence <= tip'
  <2>1. seen.ledgerSequence \in Nat
    BY <1>4 DEF LoopInv, LoopChain, Behind
  <2> QED BY <1>2, <1>4, <2>1 DEF LoopInv, LoopChain
<1>8. \A i : Known(i) => Known(i)'
  BY <1>3 DEF Known, Relevant
<1>9. chain' \in Seq(ChainEvent) /\ future' \in Seq(Published)
  BY <1>1 DEF Added, ChainEvent
<1>10. handed' \subseteq DOMAIN chain'
  BY <1>2, <1>3 DEF LoopInv, LoopChain
<1>11. \A i \in Range(events)' : Known(i)'
  BY <1>2, <1>8 DEF LoopInv, LoopChain
<1> QED BY <1>2, <1>4, <1>5, <1>6, <1>7, <1>9, <1>10, <1>11 DEF LoopInv, LoopChain

\* So does a page.
LEMMA LoopPage ==
  ASSUME IndexerAssumption, LoopInv, NEW answer, NEW wrong, page_arrives(answer, wrong),
         NEW n \in Nat, DOMAIN answer = 1..n, \A k \in 1..n : answer[k] \in DOMAIN chain
  PROVE LoopInv'
<1> DEFINE start == [seen |-> seen, saw |-> sawEvents, events |-> events]
<1> DEFINE r == scan(answer, start)
<1> DEFINE drained == Len(answer) < PAGE_LIMIT
<1>1. start \in LoopAccs
  <2>1. Behind(seen) /\ seen \in Cursors
    BY DEF LoopInv, LoopChain, Behind, Cursors
  <2>2. sawEvents \in BOOLEAN /\ events \in Seq(Nat)
    BY DEF LoopInv, LoopChain
  <2>3. start \in Accs
    BY <2>1, <2>2 DEF Accs
  <2> QED BY <2>1, <2>3 DEF LoopAccs, LoopInv, LoopChain
<1>2. \A acc \in LoopAccs : \A k \in 1..n : take(acc, answer[k]) \in LoopAccs
  BY TakeStays
<1>3. r \in LoopAccs
  <2> HIDE DEF start
  <2>1. PICK run : IsRun(run, LoopAccs, answer, start, n)
    BY <1>1, <1>2, ScanRuns
  <2>2. n \in 0..n
    OBVIOUS
  <2> QED BY <2>1, <2>2 DEF IsRun
<1> HIDE DEF r
<1>4. /\ r.seen \in Cursors /\ r.saw \in BOOLEAN /\ r.events \in Seq(Nat)
      /\ Behind(r.seen) /\ (r.saw => r.seen.ledgerSequence <= tip)
      /\ \A i \in Range(r.events) : Known(i)
  BY <1>3 DEF LoopAccs, Accs
<1>5. /\ pc = "fetching" /\ events' = r.events
      /\ IF drained \/ pageCount + 1 = MAX_PAGES
         THEN cursor' = next_cursor(drained, r.saw, r.seen) /\ pc' = "processing" /\ fetchLocals
         ELSE /\ startLedger' = next_start(r.seen) /\ pageCount' = pageCount + 1
              /\ seen' = r.seen /\ sawEvents' = r.saw /\ cursor' = cursor /\ pc' = pc
      /\ chain' = chain /\ tip' = tip /\ future' = future
      /\ statements' = statements /\ handed' = handed
  BY DEF page_arrives, r, chainVars
<1> HIDE DEF drained
<1>6. tip \in Nat /\ r.seen.ledgerSequence \in Nat /\ Behind(cursor)
  BY <1>4 DEF LoopInv, LoopChain, Cursors
<1>7. Behind(Genesis)
  BY <1>6 DEF Behind, Genesis
<1>8. Behind(next_cursor(drained, r.saw, r.seen))
  <2>1. CASE drained /\ r.saw
    <3>1. r.seen.ledgerSequence + 1 \in 1..tip + 1
      BY <1>4, <1>6, <2>1
    <3> QED BY <2>1, <3>1 DEF next_cursor, Behind
  <2>2. CASE ~(drained /\ r.saw)
    BY <1>4, <1>6, <2>2 DEF next_cursor
  <2> QED BY <2>1, <2>2
<1>9. /\ pageCount' \in 0..MAX_PAGES - 1
      /\ sawEvents' \in BOOLEAN /\ (sawEvents' => seen'.ledgerSequence <= tip)
      /\ Behind(cursor') /\ Behind(seen') /\ startLedger' \in Nat
      /\ pc' \in {"processing", "fetching"}
  <2>1. CASE drained \/ pageCount + 1 = MAX_PAGES
    <3>1. cursor' = next_cursor(drained, r.saw, r.seen) /\ pc' = "processing"
      BY <1>5, <2>1
    <3>2. seen' = Genesis /\ startLedger' = 1 /\ pageCount' = 0 /\ sawEvents' = FALSE
      BY <1>5, <2>1 DEF fetchLocals
    <3>3. 0 \in 0..MAX_PAGES - 1
      BY DEF IndexerAssumption
    <3> QED BY <1>7, <1>8, <3>1, <3>2, <3>3
  <2>2. CASE ~(drained \/ pageCount + 1 = MAX_PAGES)
    <3>1. /\ startLedger' = r.seen.ledgerSequence /\ pageCount' = pageCount + 1
          /\ seen' = r.seen /\ sawEvents' = r.saw /\ cursor' = cursor /\ pc' = "fetching"
      BY <1>5, <2>2 DEF next_start
    <3>2. pageCount + 1 \in 0..MAX_PAGES - 1
      BY <2>2 DEF LoopInv, LoopChain, IndexerAssumption
    <3> QED BY <1>4, <1>6, <3>1, <3>2
  <2> QED BY <2>1, <2>2
<1>10. Behind(cursor)' /\ Behind(seen)'
  BY <1>5, <1>9 DEF Behind
<1>11. \A i \in Range(events)' : Known(i)'
  BY <1>4, <1>5 DEF Known, Relevant
<1> QED BY <1>4, <1>5, <1>9, <1>10, <1>11 DEF LoopInv, LoopChain

\* Every step keeps LoopInv.
LEMMA LoopStep ==
  ASSUME IndexerAssumption, ScriptsAssumption, LoopInv, statements \in Seq(Range(statements)),
         SyncStep
  PROVE LoopInv'
<1>1. CASE close_ledger
  BY <1>1, LoopCloses
<1>2. CASE fetchEvents
  <2>1. startLedger \in Nat
    BY DEF LoopInv
  <2>2. PICK n \in Nat : /\ DOMAIN page(startLedger) = 1..n
                        /\ \A k \in 1..n : page(startLedger)[k] \in DOMAIN chain
    BY <2>1, PageOfChain
  <2> QED BY <1>2, <2>2, LoopPage DEF fetchEvents
<1>3. CASE fetch_error
  <2>1. DOMAIN << >> = 1..0 /\ \A k \in 1..0 : << >>[k] \in DOMAIN chain
    OBVIOUS
  <2> QED BY <1>3, <2>1, LoopPage DEF fetch_error
<1>4. Behind(Genesis)
  BY DEF LoopInv, LoopChain, Behind, Genesis, IndexerAssumption
<1>10. chain' = chain /\ tip' = tip /\ future' = future => LoopChain'
  BY DEF LoopInv, LoopChain
<1>11. events' = << >> => events' \in Seq(Nat) /\ Range(events)' = {}
  BY DEF Range
<1>5. 0 \in 0..MAX_PAGES - 1
  BY DEF IndexerAssumption
<1>6. CASE poll
  <2>1. /\ chain' = chain /\ tip' = tip /\ future' = future /\ cursor' = cursor
        /\ pc = "sleeping" /\ pc' = "fetching"
        /\ seen' = cursor /\ startLedger' = cursor.ledgerSequence /\ pageCount' = 0
        /\ sawEvents' = FALSE /\ events' = << >> /\ handed' = handed /\ statements' = statements
    BY <1>6 DEF poll, chainVars
  <2>2. Behind(cursor)' /\ Behind(seen)' /\ startLedger' \in Nat
    BY <2>1 DEF LoopInv, Behind
  <2>3. Range(events)' = {}
    BY <2>1 DEF Range
  <2> QED BY <1>5, <1>10, <1>11, <2>1, <2>2, <2>3 DEF LoopInv
<1>7. CASE fetch_throws \/ statement_throws
  <2>1. /\ chain' = chain /\ tip' = tip /\ future' = future /\ cursor' = cursor
        /\ pc' = "sleeping" /\ events' = << >> /\ handed' = handed
        /\ fetchLocals \/ UNCHANGED fetchVars
        /\ statements' = << >> \/ (pc = "fetching" /\ statements' = statements)
    BY <1>7 DEF fetch_throws, statement_throws, chainVars
  <2>2. /\ seen' = Genesis \/ seen' = seen
        /\ sawEvents' = FALSE \/ (sawEvents' = sawEvents /\ seen' = seen)
        /\ pageCount' = 0 \/ pageCount' = pageCount
        /\ startLedger' = 1 \/ startLedger' = startLedger
    BY <2>1 DEF fetchLocals, fetchVars
  <2>3. Behind(cursor)' /\ Behind(seen)'
    BY <1>4, <2>1, <2>2 DEF LoopInv, Behind
  <2>4. statements' = << >>
    BY <2>1 DEF LoopInv
  <2>5. pageCount' \in 0..MAX_PAGES - 1 /\ startLedger' \in Nat
    BY <1>5, <2>2 DEF LoopInv
  <2>6. sawEvents' \in BOOLEAN /\ (sawEvents' => seen'.ledgerSequence <= tip')
    <3>1. CASE sawEvents' = FALSE
      BY <3>1
    <3>2. CASE sawEvents' = sawEvents /\ seen' = seen
      BY <2>1, <3>2 DEF LoopInv
    <3> QED BY <2>2, <3>1, <3>2
  <2> QED BY <1>10, <1>11, <2>1, <2>3, <2>4, <2>5, <2>6 DEF LoopInv
<1>8. CASE main
  <2>1. /\ chain' = chain /\ tip' = tip /\ future' = future /\ cursor' = Genesis
        /\ pc' = "sleeping" /\ events' = << >> /\ handed' = {} /\ statements' = << >>
        /\ seen' = Genesis /\ startLedger' = 1 /\ pageCount' = 0 /\ sawEvents' = FALSE
    BY <1>8 DEF main, chainVars, fetchLocals
  <2>2. Behind(cursor)' /\ Behind(seen)'
    BY <1>4, <2>1 DEF LoopInv, Behind
  <2>3. Range(events)' = {}
    BY <2>1 DEF Range
  <2> QED BY <1>5, <1>10, <1>11, <2>1, <2>2, <2>3 DEF LoopInv
<1>9. CASE next_event \/ statement \/ sleep \/ api_bridge_record \/ UNCHANGED indexerVars
  <2>1. /\ chain' = chain /\ tip' = tip /\ future' = future /\ cursor' = cursor
        /\ seen' = seen /\ startLedger' = startLedger /\ pageCount' = pageCount
        /\ sawEvents' = sawEvents
    BY <1>9 DEF next_event, statement, sleep, api_bridge_record, indexerVars, chainVars, fetchVars
  <2>2. /\ pc' = pc \/ (pc' = "sleeping" /\ statements = << >>)
        /\ statements' = statements \/ (pc = "processing" /\ pc' = pc)
        /\ \/ events' = events /\ handed' = handed
           \/ events # << >> /\ events' = Tail(events) /\ handed' = handed \cup {Head(events)}
    BY <1>9 DEF next_event, statement, sleep, api_bridge_record, indexerVars
  <2>3. events' \in Seq(Nat) /\ (\A i \in Range(events)' : Known(i)) /\ handed' \subseteq DOMAIN chain
    <3>1. CASE events' = events /\ handed' = handed
      BY <3>1 DEF LoopInv
    <3>2. CASE events # << >> /\ events' = Tail(events) /\ handed' = handed \cup {Head(events)}
      <4>1. /\ events' \in Seq(Nat) /\ Head(events) = events[1] /\ 1 \in DOMAIN events
            /\ \A k \in DOMAIN events' : k + 1 \in DOMAIN events /\ events'[k] = events[k + 1]
        BY <3>2 DEF LoopInv
      <4>2. \A i \in Range(events)' : i \in Range(events)
        BY <4>1 DEF Range
      <4>3. Head(events) \in DOMAIN chain
        <5>1. events[1] \in Range(events)
          BY <4>1 DEF Range
        <5> QED BY <4>1, <5>1 DEF LoopInv, Known, Relevant
      <4> QED BY <3>2, <4>1, <4>2, <4>3 DEF LoopInv
    <3> QED BY <2>2, <3>1, <3>2
  <2>4. \A i \in Range(events)' : Known(i)'
    BY <2>1, <2>3 DEF Known, Relevant
  <2>5. pc' # "processing" => statements' = << >>
    BY <2>2 DEF LoopInv
  <2>6. Behind(cursor)' /\ Behind(seen)'
    BY <2>1 DEF LoopInv, Behind
  <2> QED BY <1>10, <2>1, <2>2, <2>3, <2>4, <2>5, <2>6 DEF LoopInv
<1> QED BY <1>1, <1>2, <1>3, <1>6, <1>7, <1>8, <1>9 DEF SyncStep, IndexerNext

\* What is pending is a natural number.
LEMMA OwedIs ==
  ASSUME RowsInv, NEW o
  PROVE Owed(o) \in Nat
<1>1. CASE AllQuiet(statements)
  <2>1. statements # << >> => Quiet(Head(statements))
    <3> SUFFICES ASSUME statements # << >> PROVE Quiet(Head(statements))
      OBVIOUS
    <3>1. Head(statements) = statements[1] /\ 1 \in DOMAIN statements
      BY TailIs DEF RowsInv, StatementsInv
    <3> QED BY <1>1, <3>1 DEF AllQuiet
  <2> QED BY <2>1, QuietOwesNothing
<1>2. CASE SaleAhead(statements) \/ SaleFilled(statements)
  <2>1. statements \in Seq(Range(statements)) /\ Len(statements) > 0
    BY <1>2 DEF RowsInv, StatementsInv, SaleAhead, SaleFilled
  <2>2. statements # << >> /\ Head(statements) = statements[1]
    BY ONLY <2>1, HeadIs
  <2>3. CASE SaleAhead(statements)
    BY <2>2, <2>3 DEF SaleAhead, Owed, Fill
  <2>4. CASE SaleFilled(statements)
    <3>1. PICK p \in OfferIds, n \in 1..MaxAmount : Sale(statements[1], p, n)
      BY <2>4 DEF SaleFilled
    <3>2. n \in Nat
      BY MaxAmountAssumption
    <3> QED BY <2>2, <3>1, <3>2 DEF Owed, Sale
  <2> QED BY <1>2, <2>3, <2>4
<1> QED BY <1>1, <1>2 DEF RowsInv, StatementsInv

\* A processor starts: its statements have one of the two forms.
LEMMA RowsNextEvent ==
  ASSUME ScriptsAssumption, LoopInv, RowsInv, next_event PROVE RowsInv'
<1>1. /\ statements = << >> /\ events # << >> /\ db' = db
      /\ statements' = processEvent(chain[Head(events)].event, db)
  BY DEF next_event
<1>2. Known(Head(events))
  <2>1. events \in Seq(Nat) /\ Head(events) = events[1] /\ 1 \in DOMAIN events
    BY <1>1 DEF LoopInv
  <2>2. events[1] \in Range(events)
    BY <2>1 DEF Range
  <2> QED BY <2>1, <2>2 DEF LoopInv
<1>3. Runs(statements')
  <2>1. chain[Head(events)].event \in Published /\ chain[Head(events)].event.topic \in Topics
    BY <1>2, KnownEvent DEF Known, Relevant
  <2>2. Runs(processEvent(chain[Head(events)].event, db))
    BY <2>1, ProcessorsRun DEF RowsInv
  <2> QED BY <1>1, <2>2
<1>4. StatementsInv'
  <2>1. CASE AllQuiet(statements')
    BY <1>3, <2>1 DEF Runs, StatementsInv
  <2>2. CASE SaleAhead(statements')
    <3>1. SaleAhead(statements)'
      BY <1>1, <2>2 DEF SaleAhead, Fill
    <3> QED BY <1>3, <3>1 DEF Runs, StatementsInv
  <2> QED BY <1>3, <2>1, <2>2 DEF Runs
<1>5. ASSUME NEW o PROVE Owed(o) = 0 /\ Owed(o)' = 0
  <2>1. statements' # << >> => Head(statements') = statements'[1] /\ 1 \in DOMAIN statements'
    BY <1>3, TailIs DEF Runs
  <2>2. CASE AllQuiet(statements')
    BY <1>1, <2>1, <2>2 DEF Owed, AllQuiet, Quiet
  <2>3. CASE SaleAhead(statements')
    BY <1>1, <2>1, <2>3 DEF Owed, SaleAhead, Fill
  <2> QED BY <1>3, <2>2, <2>3 DEF Runs
<1>6. TradesInv'
  BY <1>1, <1>5 DEF RowsInv, TradesInv
<1> QED BY <1>1, <1>4, <1>6 DEF RowsInv

\* The API stores the bridge record of a request.
LEMMA RowsBridgeRecord ==
  ASSUME ScriptsAssumption, LoopInv, RowsInv, api_bridge_record PROVE RowsInv'
<1>1. statements' = statements
  BY DEF api_bridge_record
<1>2. PICK i \in DOMAIN chain :
        /\ chain[i].event.topic = "bridged"
        /\ db' = [db EXCEPT !.bridgeRecord[chain[i].event.serial] =
                                [credit |-> chain[i].event.credit, status |-> "INBOUND"]]
  BY DEF api_bridge_record
<1> DEFINE e == chain[i].event
<1> DEFINE row == [credit |-> e.credit, status |-> "INBOUND"]
<1>3. e \in Published
  BY KnownEvent
<1>4. e.serial \in Serials /\ e.credit \in CreditIds
  BY <1>2, <1>3 DEF ScriptsAssumption, CreditTopics
<1>5. row \in BridgeRecord
  BY <1>4 DEF BridgeRecord, BridgeStatus
<1>6. db' = [db EXCEPT !.bridgeRecord[e.serial] = row]
  BY <1>2
<1> HIDE DEF e, row
<1>7. db' \in Tables /\ db'.trade = db.trade /\ db'.offer = db.offer
  BY <1>4, <1>5, <1>6 DEF RowsInv, Tables
<1>8. StatementsInv'
  BY <1>1, <1>7 DEF RowsInv, StatementsInv, SaleAhead, SaleFilled, Fill, AllQuiet
<1>9. TradesInv'
  BY <1>1, <1>7 DEF RowsInv, TradesInv, Owed
<1> QED BY <1>7, <1>8, <1>9 DEF RowsInv

\* A processor that ends early leaves the rows it wrote.
LEMMA RowsDropped ==
  ASSUME RowsInv, db' = db, statements' = << >> PROVE RowsInv'
<1>1. StatementsInv'
  BY NoStatements DEF StatementsInv
<1>2. \A o : Owed(o)' = 0
  BY DEF Owed
<1>3. ASSUME NEW o \in OfferIds
      PROVE IF db.offer[o] = None THEN TradesOf(db.trade, o) = {}
            ELSE SoldOf(db.trade, o) + 0 <= db.offer[o].filled
  <2>1. IF db.offer[o] = None THEN TradesOf(db.trade, o) = {}
        ELSE SoldOf(db.trade, o) + Owed(o) <= db.offer[o].filled
    BY DEF RowsInv, TradesInv
  <2>2. Owed(o) \in Nat
    BY OwedIs
  <2>3. CASE db.offer[o] = None
    BY <2>1, <2>3
  <2>4. CASE db.offer[o] # None
    <3>1. db.offer[o] \in Offer /\ db.trade \in Seq(Trade)
      BY <2>4, TableIs DEF RowsInv
    <3>2. db.offer[o].filled \in Nat
      BY <3>1 DEF Offer
    <3>3. SoldOf(db.trade, o) \in Nat
      BY <3>1, SoldIsNat
    <3> QED BY <2>1, <2>2, <2>4, <3>2, <3>3
  <2> QED BY <2>3, <2>4
<1>4. TradesInv'
  BY <1>2, <1>3 DEF TradesInv
<1> QED BY <1>1, <1>4 DEF RowsInv

\* Steps beside the database.
LEMMA RowsUnchanged ==
  ASSUME RowsInv, db' = db, statements' = statements PROVE RowsInv'
  BY DEF RowsInv, StatementsInv, SaleAhead, SaleFilled, Fill, AllQuiet, TradesInv, Owed

\* Every step keeps the rows and the loop in shape.
LEMMA RowsStep ==
  ASSUME IndexerAssumption, ScriptsAssumption, RowsInvs, SyncStep PROVE RowsInvs'
<1>1. LoopInv /\ RowsInv /\ statements \in Seq(Range(statements))
  BY DEF RowsInvs, RowsInv, StatementsInv
<1>2. LoopInv'
  BY <1>1, LoopStep
<1> SUFFICES RowsInv'
  BY <1>2 DEF RowsInvs
<1>3. CASE statement
  <2>1. AllQuiet(statements) \/ SaleAhead(statements) \/ SaleFilled(statements)
    BY <1>1 DEF RowsInv, StatementsInv
  <2> QED BY <1>1, <1>3, <2>1, QuietStatement, FillStatement, SaleStatement
<1>4. CASE next_event
  BY <1>1, <1>4, RowsNextEvent
<1>5. CASE api_bridge_record
  BY <1>1, <1>5, RowsBridgeRecord
<1>6. CASE statement_throws \/ main
  BY <1>1, <1>6, RowsDropped DEF statement_throws, main
<1>7. CASE close_ledger \/ poll \/ fetchEvents \/ fetch_error \/ fetch_throws \/ sleep
           \/ UNCHANGED indexerVars
  BY <1>1, <1>7, RowsUnchanged
     DEF close_ledger, poll, fetchEvents, fetch_error, page_arrives, fetch_throws, sleep, indexerVars
<1> QED BY <1>3, <1>4, <1>5, <1>6, <1>7 DEF SyncStep, IndexerNext

\* The rows and the loop keep their shape, over every order of statements,
\* faults and restarts (the processors, sync.ts).
THEOREM RowsInvariant == IndexerSpec => []RowsInvs
<1>1. IndexerInit => RowsInvs
  BY RowsInitially, IndexerAssumption, ScriptsAssumption
<1>2. RowsInvs /\ [IndexerNext]_indexerVars => RowsInvs'
  BY RowsStep, IndexerAssumption, ScriptsAssumption DEF SyncStep
<1> QED BY <1>1, <1>2, PTL DEF IndexerSpec

\* The columns and enums of the schema hold at every statement and the cursor
\* stays within the chain.
THEOREM IndexerTypeCorrect == IndexerSpec => []IndexerTypeOK
<1>1. ASSUME RowsInvs PROVE IndexerTypeOK
  <2>1. DbTypeOK
    BY <1>1 DEF RowsInvs, RowsInv, Tables, DbTypeOK
  <2>2. cursor.ledgerSequence \in 1..MaxLedger + 1
    <3>1. cursor.ledgerSequence \in 1..tip + 1 /\ tip \in 0..MaxLedger
      BY <1>1 DEF RowsInvs, LoopInv, LoopChain, Behind
    <3> QED BY <3>1, IndexerAssumption DEF IndexerAssumption
  <2>3. pageCount < MAX_PAGES
    BY <1>1, IndexerAssumption DEF RowsInvs, LoopInv, IndexerAssumption
  <2> QED BY <1>1, <2>1, <2>2, <2>3 DEF RowsInvs, LoopInv, IndexerTypeOK
<1> QED BY <1>1, RowsInvariant, PTL

\* An offer counts every trade stored for it, at every statement, in processors
\* that are cut off and after replays: processOfferFilled writes the offer
\* before the trade.
THEOREM FilledCoversTradesHolds == IndexerSpec => []FilledCoversTrades
<1>1. ASSUME RowsInvs PROVE FilledCoversTrades
  <2>1. RowsInv
    BY <1>1 DEF RowsInvs
  <2> SUFFICES ASSUME NEW o \in OfferIds, db.offer[o] # None
               PROVE SoldOf(db.trade, o) <= db.offer[o].filled
    BY DEF FilledCoversTrades, SoldOf, TradesOf
  <2>2. SoldOf(db.trade, o) + Owed(o) <= db.offer[o].filled
    BY <2>1 DEF RowsInv, TradesInv
  <2>3. Owed(o) \in Nat
    BY <2>1, OwedIs
  <2>4. db.offer[o] \in Offer /\ db.trade \in Seq(Trade)
    BY <2>1, TableIs DEF RowsInv
  <2>5. db.offer[o].filled \in Nat /\ SoldOf(db.trade, o) \in Nat
    BY <2>4, SoldIsNat DEF Offer
  <2> QED BY <2>2, <2>3, <2>5
<1> QED BY <1>1, RowsInvariant, PTL

-----------------------------------------------------------------------------
\* What the contracts' storage guarantees of the order of their events: a credit
\* is rejected or retired after it was submitted or minted, and an offer is not
\* created after a sale of it.
Orderly(script) ==
  \A i \in DOMAIN script : script[i].ok =>
    /\ script[i].topic \in {"credit_rejected", "credit_retired"} =>
         \E j \in 1..i - 1 : /\ script[j].ok /\ script[j].topic \in {"credit_submitted", "credit_minted"}
                             /\ script[j].credit = script[i].credit
    /\ script[i].topic = "offer_created" =>
         ~\E j \in 1..i - 1 : /\ script[j].ok /\ script[j].topic = "offer_filled"
                              /\ script[j].offer = script[i].offer

OrderlyScripts == \A script \in Scripts : Orderly(script)

\* The chain and the events to come are one of the scripts.
Follows(script) ==
  /\ Len(script) = Len(chain) + Len(future)
  /\ \A i \in DOMAIN chain : chain[i].event = script[i]
  /\ \A k \in DOMAIN future : future[k] = script[Len(chain) + k]

HistoryInv == restarts \in Nat /\ \E script \in Scripts : Follows(script)

\* What a statement does to the columns that mirror the chain.
SetsStatus(s, c) ==
  s.op \in {"update", "upsert"} /\ s.table = "credit" /\ s.key = c /\ "status" \in DOMAIN s.fields
Retires(s, c) == s.op = "create" /\ s.table = "retirement" /\ s.row.credit = c
SetsFilled(s, o) ==
  s.op = "update" /\ s.table = "offer" /\ s.key = o /\ "filled" \in DOMAIN s.fields
Opens(s, o) == s.op = "upsert" /\ s.table = "offer" /\ s.key = o

\* An upsert of a credit says its status, and the rows that are counted and the
\* amounts that are added are written first.
Tidy(ss) ==
  /\ \A k \in DOMAIN ss : ss[k].op = "upsert" /\ ss[k].table = "credit" => "status" \in DOMAIN ss[k].fields
  /\ \A k \in DOMAIN ss : \A x : Retires(ss[k], x) \/ SetsFilled(ss[k], x) => k = 1

\* The events handed out so far that say something of a credit or an offer.
StatusEvents(c) == OfCredit(c, StatusTopics) \cap handed
RetireEvents(c) == OfCredit(c, {"credit_retired"}) \cap handed
FillEvents(o) == OfOffer(o, {"offer_filled"}) \cap handed
FilledBy(F) == SumFunctionOnSet([i \in F |-> chain[i].event.amount], F)

RetirementsOf(d, c) == {k \in DOMAIN d.retirement : d.retirement[k].credit = c}

RowDue(c) == statements # << >> /\ Retires(Head(statements), c)
FillDue(o) == statements # << >> /\ SetsFilled(Head(statements), o)

\* The status column is that of the last event, or a pending statement makes it so.
ShownStatus(c) ==
  LET S == StatusEvents(c)
      due == {k \in DOMAIN statements : SetsStatus(statements[k], c)} IN
  IF due = {} THEN /\ db.credit[c] = None <=> S = {}
                   /\ S # {} => db.credit[c].status = StatusAfter(chain[Max(S)].event.topic)
  ELSE S # {} /\ \A k \in due : statements[k].fields.status = StatusAfter(chain[Max(S)].event.topic)

\* Every retirement has its row, the last one perhaps in a moment.
ShownRetirements(c) ==
  Cardinality(RetireEvents(c)) =
    Cardinality(RetirementsOf(db, c)) + IF RowDue(c) THEN 1 ELSE 0

\* An offer counts the sales handed out, the last one perhaps in a moment.
ShownFilled(o) ==
  /\ db.offer[o] # None =>
       FilledBy(FillEvents(o)) =
         IF FillDue(o) THEN Head(statements).fields.filled ELSE db.offer[o].filled
  /\ \A k \in DOMAIN statements : Opens(statements[k], o) => FillEvents(o) = {}

Shown ==
  /\ \A c \in CreditIds : ShownStatus(c) /\ ShownRetirements(c)
  /\ \A o \in OfferIds : ShownFilled(o)

MirrorInv == Tidy(statements) /\ (~faulty /\ restarts = 0 => Shown)

\* What one statement is of those.
Plain(s) ==
  /\ \A x : ~SetsStatus(s, x) /\ ~Retires(s, x) /\ ~SetsFilled(s, x) /\ ~Opens(s, x)
  /\ ~(s.op = "upsert" /\ s.table = "credit")

Status(s, c, x) ==
  /\ \A y : SetsStatus(s, y) <=> y = c
  /\ s.fields.status = x /\ "status" \in DOMAIN s.fields
  /\ \A y : ~Retires(s, y) /\ ~SetsFilled(s, y) /\ ~Opens(s, y)

\* The statements of the processors.
LEMMA FormsAre ==
  /\ \A c, x : Status(update("credit", c, [status |-> x]), c, x)
  /\ \A c, x, r : Status(upsert("credit", c, [status |-> x], r), c, x)
  /\ \A c, u : Plain(update("credit", c, [owner |-> u]))
  /\ \A o, x : Plain(update("offer", o, [status |-> x]))
  /\ \A s, x : Plain(update("bridgeRecord", s, [status |-> x]))
  /\ \A c, f : Plain(updateFirst(c, f))
  /\ \A row : Plain(create("approval", row)) /\ Plain(create("trade", row))
<1>1. \A c, x : Status(update("credit", c, [status |-> x]), c, x)
  BY DEF Status, update, SetsStatus, Retires, SetsFilled, Opens
<1>2. \A c, x, r : Status(upsert("credit", c, [status |-> x], r), c, x)
  BY DEF Status, upsert, SetsStatus, Retires, SetsFilled, Opens
<1>3. \A c, u : Plain(update("credit", c, [owner |-> u]))
  BY DEF Plain, update, SetsStatus, Retires, SetsFilled, Opens
<1>4. \A o, x : Plain(update("offer", o, [status |-> x]))
  BY DEF Plain, update, SetsStatus, Retires, SetsFilled, Opens
<1>5. \A s, x : Plain(update("bridgeRecord", s, [status |-> x]))
  BY DEF Plain, update, SetsStatus, Retires, SetsFilled, Opens
<1>6. \A c, f : Plain(updateFirst(c, f))
  BY DEF Plain, updateFirst, SetsStatus, Retires, SetsFilled, Opens
<1>7. \A row : Plain(create("approval", row)) /\ Plain(create("trade", row))
  BY DEF Plain, create, SetsStatus, Retires, SetsFilled, Opens
<1> QED BY <1>1, <1>2, <1>3, <1>4, <1>5, <1>6, <1>7

\* What the statements for an event say of the rows.
Writes(ss, e, d) ==
  /\ Tidy(ss)
  /\ \A c : \A k \in DOMAIN ss : SetsStatus(ss[k], c) =>
        /\ e.topic \in StatusTopics /\ e.credit = c
        /\ ss[k].fields.status = StatusAfter(e.topic)
  /\ \A c : \A k \in DOMAIN ss : Retires(ss[k], c) => e.topic = "credit_retired" /\ e.credit = c
  /\ \A o : \A k \in DOMAIN ss : SetsFilled(ss[k], o) =>
        /\ e.topic = "offer_filled" /\ e.offer = o /\ d.offer[o] # None
        /\ ss[k].fields.filled = d.offer[o].filled + e.amount
  /\ \A o : \A k \in DOMAIN ss : Opens(ss[k], o) => e.topic = "offer_created" /\ e.offer = o
  /\ /\ e.topic \in StatusTopics
     /\ e.topic \in {"credit_rejected", "credit_retired"} => d.credit[e.credit] # None
     => \E k \in DOMAIN ss : SetsStatus(ss[k], e.credit)
  /\ e.topic = "credit_retired" /\ d.credit[e.credit] # None =>
        1 \in DOMAIN ss /\ Retires(ss[1], e.credit)
  /\ e.topic = "offer_filled" /\ d.offer[e.offer] # None =>
        1 \in DOMAIN ss /\ SetsFilled(ss[1], e.offer)

\* No statement.
LEMMA WritesNothing ==
  ASSUME NEW e, NEW d,
         e.topic \in StatusTopics =>
           e.topic \in {"credit_rejected", "credit_retired"} /\ d.credit[e.credit] = None,
         e.topic = "offer_filled" => d.offer[e.offer] = None
  PROVE Writes(<< >>, e, d)
<1>1. DOMAIN << >> = {}
  OBVIOUS
<1> QED BY <1>1 DEF Writes, Tidy, StatusTopics

\* One statement that sets a status.
LEMMA WritesStatus ==
  ASSUME NEW e, NEW d, NEW s, Status(s, e.credit, StatusAfter(e.topic)),
         e.topic \in StatusTopics \ {"credit_retired"}
  PROVE Writes(<<s>>, e, d)
<1>1. DOMAIN <<s>> = {1} /\ <<s>>[1] = s
  OBVIOUS
<1>2. e.topic # "offer_filled" /\ e.topic # "credit_retired"
  BY DEF StatusTopics
<1> QED BY <1>1, <1>2 DEF Writes, Tidy, Status

\* One statement that says none of it.
LEMMA WritesPlain ==
  ASSUME NEW e, NEW d, NEW s, Plain(s), e.topic \notin StatusTopics \cup {"offer_filled"}
  PROVE Writes(<<s>>, e, d)
<1>1. DOMAIN <<s>> = {1} /\ <<s>>[1] = s
  OBVIOUS
<1>2. e.topic # "offer_filled" /\ e.topic # "credit_retired"
  BY DEF StatusTopics
<1> QED BY <1>1, <1>2 DEF Writes, Tidy, Plain

\* A status beside a statement that says none of it.
LEMMA WritesBoth ==
  ASSUME NEW e, NEW d, NEW r, NEW s,
         \/ Plain(r) /\ Status(s, e.credit, StatusAfter(e.topic))
         \/ Plain(s) /\ Status(r, e.credit, StatusAfter(e.topic)),
         e.topic \in StatusTopics \ {"credit_retired"}
  PROVE Writes(<<r, s>>, e, d)
<1>1. DOMAIN <<r, s>> = {1, 2} /\ <<r, s>>[1] = r /\ <<r, s>>[2] = s
  OBVIOUS
<1>2. e.topic # "offer_filled" /\ e.topic # "credit_retired"
  BY DEF StatusTopics
<1> QED BY <1>1, <1>2 DEF Writes, Tidy, Plain, Status

\* processCreditRetired stores the retirement before the status.
LEMMA RetiredWrites ==
  ASSUME NEW e, NEW d, e.topic = "credit_retired" PROVE Writes(processCreditRetired(e, d), e, d)
<1> DEFINE r == create("retirement", [credit |-> e.credit, by |-> e.user])
<1> DEFINE s == update("credit", e.credit, [status |-> "RETIRED"])
<1>1. CASE d.credit[e.credit] = None
  BY <1>1, WritesNothing DEF processCreditRetired
<1>2. CASE d.credit[e.credit] # None
  <2>1. processCreditRetired(e, d) = <<r, s>>
    BY <1>2 DEF processCreditRetired
  <2>2. Status(s, e.credit, "RETIRED") /\ StatusAfter(e.topic) = "RETIRED"
    BY FormsAre DEF StatusAfter
  <2>3. /\ \A y : Retires(r, y) <=> y = e.credit
        /\ \A y : ~SetsStatus(r, y) /\ ~SetsFilled(r, y) /\ ~Opens(r, y)
        /\ ~(r.op = "upsert" /\ r.table = "credit")
    BY DEF create, SetsStatus, Retires, SetsFilled, Opens
  <2> HIDE DEF r, s
  <2>4. DOMAIN <<r, s>> = {1, 2} /\ <<r, s>>[1] = r /\ <<r, s>>[2] = s
    OBVIOUS
  <2> QED BY <2>1, <2>2, <2>3, <2>4 DEF Writes, Tidy, Status, StatusTopics
<1> QED BY <1>1, <1>2

\* processOfferFilled adds the amount to what the offer had.
LEMMA FilledWrites ==
  ASSUME NEW e, NEW d, e.topic = "offer_filled" PROVE Writes(processOfferFilled(e, d), e, d)
<1> DEFINE o == d.offer[e.offer]
<1>0. e.topic \notin StatusTopics
  BY DEF StatusTopics
<1>1. CASE o = None
  BY <1>0, <1>1, WritesNothing DEF processOfferFilled
<1>2. CASE o # None
  <2> DEFINE f == [filled |-> o.filled + e.amount]
  <2> DEFINE g == IF f.filled >= o.amount THEN [status |-> "FILLED"] ELSE << >>
  <2> DEFINE q == update("offer", e.offer, merged(f, g))
  <2> DEFINE r == create("trade", [offer |-> e.offer, buyer |-> e.user, amount |-> e.amount])
  <2> DEFINE s == update("credit", o.credit, [owner |-> e.user])
  <2>1. processOfferFilled(e, d) = <<q, r, s>>
    BY <1>2 DEF processOfferFilled
  <2>2. Plain(r) /\ Plain(s)
    BY FormsAre
  <2>3. /\ \A y : SetsFilled(q, y) <=> y = e.offer
        /\ \A y : ~SetsStatus(q, y) /\ ~Retires(q, y) /\ ~Opens(q, y)
        /\ q.op = "update" /\ q.fields.filled = o.filled + e.amount
    <3> DEFINE m == merged(f, g)
    <3>1. MergeOf(m, f, g)
      BY MergedIs
    <3>2. DOMAIN f = {"filled"} /\ f.filled = o.filled + e.amount
      OBVIOUS
    <3>3. q.op = "update" /\ q.table = "offer" /\ q.key = e.offer /\ q.fields = m
      BY DEF update
    <3> HIDE DEF m, f, g, q
    <3>4. "filled" \in DOMAIN m /\ m.filled = o.filled + e.amount
      BY <3>1, <3>2 DEF MergeOf
    <3> QED BY <3>3, <3>4 DEF SetsStatus, Retires, SetsFilled, Opens
  <2> HIDE DEF q, r, s
  <2>4. DOMAIN <<q, r, s>> = {1, 2, 3} /\ <<q, r, s>>[1] = q /\ <<q, r, s>>[2] = r /\ <<q, r, s>>[3] = s
    OBVIOUS
  <2> QED BY <1>0, <1>2, <2>1, <2>2, <2>3, <2>4 DEF Writes, Tidy, Plain
<1> QED BY <1>1, <1>2

\* processOfferCreated makes a row or leaves the filled amount alone.
LEMMA CreatedWrites ==
  ASSUME NEW e, NEW d, e.topic = "offer_created" PROVE Writes(processOfferCreated(e, d), e, d)
<1> DEFINE s == upsert("offer", e.offer, [amount |-> e.amount, status |-> "ACTIVE"],
                       [credit |-> e.credit, seller |-> e.user, filled |-> 0])
<1>0. e.topic \notin StatusTopics
  BY DEF StatusTopics
<1>1. CASE d.credit[e.credit] = None
  BY <1>0, <1>1, WritesNothing DEF processOfferCreated
<1>2. CASE d.credit[e.credit] # None
  <2>1. processOfferCreated(e, d) = <<s>>
    BY <1>2 DEF processOfferCreated
  <2>2. /\ \A y : Opens(s, y) <=> y = e.offer
        /\ \A y : ~SetsStatus(s, y) /\ ~Retires(s, y) /\ ~SetsFilled(s, y)
        /\ s.table = "offer"
    BY DEF upsert, SetsStatus, Retires, SetsFilled, Opens
  <2> HIDE DEF s
  <2>3. DOMAIN <<s>> = {1} /\ <<s>>[1] = s
    OBVIOUS
  <2> QED BY <1>0, <2>1, <2>2, <2>3 DEF Writes, Tidy
<1> QED BY <1>1, <1>2

\* What every processor says of the rows.
LEMMA ProcessorsWrite ==
  ASSUME NEW e, NEW d, e.topic \in Topics PROVE Writes(processEvent(e, d), e, d)
<1>1. CASE e.topic = "credit_submitted"
  <2>1. Status(upsert("credit", e.credit, [status |-> "PENDING"], [owner |-> e.user]),
               e.credit, StatusAfter(e.topic))
    BY <1>1, FormsAre DEF StatusAfter
  <2> QED BY <1>1, <2>1, WritesStatus DEF processEvent, processCreditSubmitted, StatusTopics
<1>2. CASE e.topic = "credit_approved"
  <2>1. Plain(create("approval", [credit |-> e.credit, verifier |-> e.user, approved |-> TRUE]))
    BY FormsAre
  <2> QED BY <1>2, <2>1, WritesPlain, WritesNothing
         DEF processEvent, processCreditApproved, StatusTopics
<1>3. CASE e.topic = "credit_minted"
  <2>1. Status(update("credit", e.credit, [status |-> "ACTIVE"]), e.credit, StatusAfter(e.topic))
    BY <1>3, FormsAre DEF StatusAfter
  <2> QED BY <1>3, <2>1, WritesStatus DEF processEvent, processCreditMinted, StatusTopics
<1>4. CASE e.topic = "credit_rejected"
  <2>1. Status(update("credit", e.credit, [status |-> "REJECTED"]), e.credit, StatusAfter(e.topic))
    BY <1>4, FormsAre DEF StatusAfter
  <2>2. Plain(create("approval", [credit |-> e.credit, verifier |-> e.user, approved |-> FALSE]))
    BY FormsAre
  <2> QED BY <1>4, <2>1, <2>2, WritesBoth, WritesNothing
         DEF processEvent, processCreditRejected, StatusTopics
<1>5. CASE e.topic = "credit_transferred"
  <2>1. Plain(update("credit", e.credit, [owner |-> e.user]))
    BY FormsAre
  <2> QED BY <1>5, <2>1, WritesPlain DEF processEvent, processCreditTransferred, StatusTopics
<1>6. CASE e.topic = "credit_retired"
  BY <1>6, RetiredWrites DEF processEvent
<1>7. CASE e.topic = "offer_created"
  BY <1>7, CreatedWrites DEF processEvent
<1>8. CASE e.topic = "offer_filled"
  BY <1>8, FilledWrites DEF processEvent
<1>9. CASE e.topic = "offer_cancelled"
  <2>1. Plain(update("offer", e.offer, [status |-> "CANCELLED"]))
    BY FormsAre
  <2> QED BY <1>9, <2>1, WritesPlain DEF processEvent, processOfferCancelled, StatusTopics
<1>10. CASE e.topic = "bridged"
  <2>1. Plain(update("bridgeRecord", e.serial, [status |-> "INBOUND"]))
    BY FormsAre
  <2> QED BY <1>10, <2>1, WritesPlain, WritesNothing
         DEF processEvent, processCreditBridged, StatusTopics
<1>11. CASE e.topic = "bridge_ot"
  <2>1. Status(update("credit", e.credit, [status |-> "RETIRED"]), e.credit, StatusAfter(e.topic))
    BY <1>11, FormsAre DEF StatusAfter
  <2>2. Plain(updateFirst(e.credit, [status |-> "OUTBOUND"]))
    BY FormsAre
  <2> QED BY <1>11, <2>1, <2>2, WritesBoth DEF processEvent, processCreditBridgedOut, StatusTopics
<1>12. CASE e.topic = "root_upd"
  BY <1>12, WritesNothing DEF processEvent, processRegistryRootUpdated, StatusTopics
<1> QED BY <1>1, <1>2, <1>3, <1>4, <1>5, <1>6, <1>7, <1>8, <1>9, <1>10, <1>11, <1>12
        DEF Topics, CreditTopics, OfferTopics

\* A statement that a processor may run next.
Allowed(s) ==
  \/ Quiet(s)
  \/ \E o \in OfferIds, n \in 1..MaxAmount : db.offer[o] # None /\ Fill(s, o, n)
  \/ \E o \in OfferIds, n \in 1..MaxAmount : Sale(s, o, n)

\* The next statement is one of them.
LEMMA HeadAllowed ==
  ASSUME StatementsInv, statements # << >> PROVE Allowed(Head(statements))
<1>1. Head(statements) = statements[1] /\ 1 \in DOMAIN statements
  BY TailIs DEF StatementsInv
<1> QED BY <1>1 DEF StatementsInv, AllQuiet, SaleAhead, SaleFilled, Allowed

WritesTo(s, t) == s.op \in {"create", "update", "upsert"} /\ s.table = t

\* What a statement leaves alone.
LEMMA OtherTables ==
  ASSUME db \in Tables, NEW s, Allowed(s)
  PROVE /\ ~WritesTo(s, "credit") => written(db, s).credit = db.credit
        /\ ~WritesTo(s, "offer") => written(db, s).offer = db.offer
        /\ ~WritesTo(s, "retirement") => written(db, s).retirement = db.retirement
<1>1. CASE s.op = "create" /\ s.table \in {"approval", "retirement", "trade"}
  BY <1>1 DEF written, WritesTo, Tables
<1>2. CASE s.op = "update" /\ s.table \in {"credit", "offer", "bridgeRecord"}
  BY <1>2 DEF written, WritesTo, Tables
<1>3. CASE s.op = "upsert" /\ s.table \in {"credit", "offer"}
  BY <1>3 DEF written, WritesTo, Tables
<1>4. CASE s.op = "updateFirst"
  BY <1>4 DEF written, WritesTo, Tables
<1> QED BY <1>1, <1>2, <1>3, <1>4 DEF Allowed, Quiet, Fill, Sale

\* The status of a credit after a merge.
LEMMA MergedStatus ==
  ASSUME NEW f, NEW g, CreditFields(f), CreditFields(g) \/ g \in Credit,
         DOMAIN f \cup DOMAIN g = {"status", "owner"}
  PROVE LET q == merged(f, g) IN
        q \in Credit /\ q # None /\ q.status = IF "status" \in DOMAIN f THEN f.status ELSE g.status
<1>1. merged(f, g) \in Credit
  BY CreditMerge
<1>2. MergeOf(merged(f, g), f, g)
  BY MergedIs
<1> QED BY <1>1, <1>2, NoneAssumption DEF MergeOf

CreditEffect(s, e) ==
  \A c \in CreditIds :
    IF SetsStatus(s, c) THEN e.credit[c] # None /\ e.credit[c].status = s.fields.status
    ELSE /\ e.credit[c] = None <=> db.credit[c] = None
         /\ db.credit[c] # None => e.credit[c].status = db.credit[c].status

\* A statement sets the status it says and no other.
LEMMA CreditStatement ==
  ASSUME db \in Tables, NEW s, Allowed(s), ~throws(db, s),
         s.op = "upsert" /\ s.table = "credit" => "status" \in DOMAIN s.fields
  PROVE CreditEffect(s, written(db, s))
<1>1. CASE ~WritesTo(s, "credit")
  <2>1. written(db, s).credit = db.credit
    BY <1>1, OtherTables
  <2>2. \A c : ~SetsStatus(s, c)
    BY <1>1 DEF SetsStatus, WritesTo
  <2> QED BY <2>1, <2>2 DEF CreditEffect
<1>2. CASE WritesTo(s, "credit")
  <2>1. /\ s.table = "credit" /\ s.key \in CreditIds /\ CreditFields(s.fields)
        /\ \/ s.op = "update"
           \/ /\ s.op = "upsert" /\ CreditFields(s.rest)
              /\ DOMAIN s.fields \cup DOMAIN s.rest = {"status", "owner"}
    BY <1>2 DEF WritesTo, Allowed, Quiet, Fill, Sale
  <2> DEFINE old == IF s.op = "upsert" /\ db.credit[s.key] = None THEN s.rest ELSE db.credit[s.key]
  <2> DEFINE row == merged(s.fields, old)
  <2>2. written(db, s) = [db EXCEPT !.credit[s.key] = row]
    BY <2>1 DEF written, Tables
  <2>3. \A c \in CreditIds : written(db, s).credit[c] = IF c = s.key THEN row ELSE db.credit[c]
    BY <2>1, <2>2 DEF Tables
  <2>4. db.credit[s.key] # None => db.credit[s.key] \in Credit /\ DOMAIN db.credit[s.key] = {"status", "owner"}
    <3>1. db.credit[s.key] \in Credit \cup {None}
      BY <2>1, TableIs
    <3> QED BY <3>1 DEF Credit
  <2>5. row # None /\ row.status = IF "status" \in DOMAIN s.fields THEN s.fields.status ELSE old.status
    <3>1. CASE s.op = "upsert" /\ db.credit[s.key] = None
      <4>1. row = merged(s.fields, s.rest) /\ old = s.rest
        BY <3>1
      <4>2. CreditFields(s.fields) /\ CreditFields(s.rest) /\ DOMAIN s.fields \cup DOMAIN s.rest = {"status", "owner"}
        BY <2>1, <3>1
      <4> HIDE DEF row, old
      <4> QED BY <4>1, <4>2, MergedStatus
    <3>2. CASE db.credit[s.key] # None
      <4>1. row = merged(s.fields, db.credit[s.key]) /\ old = db.credit[s.key]
        BY <3>2
      <4>2. /\ CreditFields(s.fields) /\ db.credit[s.key] \in Credit
            /\ DOMAIN s.fields \cup DOMAIN db.credit[s.key] = {"status", "owner"}
        BY <2>1, <2>4, <3>2 DEF CreditFields
      <4> HIDE DEF row, old
      <4> QED BY <4>1, <4>2, MergedStatus
    <3>3. CASE s.op = "update" /\ db.credit[s.key] = None
      BY <2>1, <3>3 DEF throws
    <3> QED BY <2>1, <3>1, <3>2, <3>3
  <2>6. "status" \notin DOMAIN s.fields => db.credit[s.key] # None /\ old = db.credit[s.key]
    BY <2>1 DEF throws
  <2>7. \A c : SetsStatus(s, c) <=> c = s.key /\ "status" \in DOMAIN s.fields
    BY <2>1 DEF SetsStatus
  <2> HIDE DEF old, row
  <2> QED BY <2>3, <2>5, <2>6, <2>7 DEF CreditEffect
<1> QED BY <1>1, <1>2

OfferEffect(s, e) ==
  \A o \in OfferIds :
    /\ db.offer[o] = None /\ e.offer[o] # None => Opens(s, o) /\ e.offer[o].filled = 0
    /\ db.offer[o] # None => e.offer[o].filled = IF SetsFilled(s, o) THEN s.fields.filled ELSE db.offer[o].filled

\* A statement fills an offer as it says, and a new offer is not filled.
LEMMA OfferStatement ==
  ASSUME db \in Tables, NEW s, Allowed(s), ~throws(db, s)
  PROVE OfferEffect(s, written(db, s))
<1>1. CASE ~WritesTo(s, "offer")
  <2>1. written(db, s).offer = db.offer
    BY <1>1, OtherTables
  <2>2. \A o : ~SetsFilled(s, o)
    BY <1>1 DEF SetsFilled, WritesTo
  <2> QED BY <2>1, <2>2 DEF OfferEffect
<1>2. CASE s.op = "update" /\ s.table = "offer"
  <2>1. /\ s.key \in OfferIds
        /\ DOMAIN s.fields \subseteq {"filled", "status"}
        /\ "status" \in DOMAIN s.fields => s.fields.status \in OfferStatus
        /\ "filled" \in DOMAIN s.fields => s.fields.filled \in Nat
    <3>1. CASE Quiet(s)
      BY <1>2, <3>1 DEF Quiet, StatusField
    <3>2. CASE \E o \in OfferIds, n \in 1..MaxAmount : db.offer[o] # None /\ Fill(s, o, n)
      <4>1. PICK o \in OfferIds, n \in 1..MaxAmount : db.offer[o] # None /\ Fill(s, o, n)
        BY <3>2
      <4>2. db.offer[o] \in Offer
        BY <4>1, TableIs
      <4>3. db.offer[o].filled \in Nat /\ n \in Nat
        BY <4>2, MaxAmountAssumption DEF Offer
      <4> QED BY <4>1, <4>3 DEF Fill
    <3> QED BY <1>2, <3>1, <3>2 DEF Allowed, Sale
  <2>2. db.offer[s.key] # None /\ db.offer[s.key] \in Offer
    BY <1>2, <2>1, TableIs DEF throws
  <2> DEFINE row == merged(s.fields, db.offer[s.key])
  <2>3. row.filled = IF "filled" \in DOMAIN s.fields THEN s.fields.filled ELSE db.offer[s.key].filled
    BY <2>1, <2>2, OfferMerge
  <2>4. written(db, s) = [db EXCEPT !.offer[s.key] = row]
    BY <1>2 DEF written, Tables
  <2>5. \A o \in OfferIds : written(db, s).offer[o] = IF o = s.key THEN row ELSE db.offer[o]
    BY <2>1, <2>4 DEF Tables
  <2>6. \A o : SetsFilled(s, o) <=> o = s.key /\ "filled" \in DOMAIN s.fields
    BY <1>2 DEF SetsFilled
  <2> HIDE DEF row
  <2> QED BY <2>2, <2>3, <2>5, <2>6 DEF OfferEffect
<1>3. CASE s.op # "update" /\ WritesTo(s, "offer")
  <2>1. s.op = "upsert" /\ s.table = "offer" /\ s.key \in OfferIds /\ NewOfferFields(s.fields, s.rest)
    BY <1>3 DEF WritesTo, Allowed, Quiet, Fill, Sale
  <2> DEFINE old == IF db.offer[s.key] = None THEN s.rest ELSE db.offer[s.key]
  <2> DEFINE row == merged(s.fields, old)
  <2>2. row.filled = IF db.offer[s.key] = None THEN 0 ELSE db.offer[s.key].filled
    <3>1. CASE db.offer[s.key] = None
      BY <2>1, <3>1, NewOffer
    <3>2. CASE db.offer[s.key] # None
      <4>1. db.offer[s.key] \in Offer
        BY <2>1, <3>2, TableIs
      <4> QED BY <2>1, <3>2, <4>1, OfferMerge DEF NewOfferFields
    <3> QED BY <3>1, <3>2
  <2>3. written(db, s) = [db EXCEPT !.offer[s.key] = row]
    BY <2>1 DEF written, Tables
  <2>4. \A o \in OfferIds : written(db, s).offer[o] = IF o = s.key THEN row ELSE db.offer[o]
    BY <2>1, <2>3 DEF Tables
  <2>5. \A o : ~SetsFilled(s, o) /\ (Opens(s, o) <=> o = s.key)
    BY <2>1 DEF SetsFilled, Opens
  <2> HIDE DEF old, row
  <2> QED BY <2>2, <2>4, <2>5 DEF OfferEffect
<1> QED BY <1>1, <1>2, <1>3 DEF WritesTo

\* A statement adds the retirement it says.
LEMMA RetirementStatement ==
  ASSUME db \in Tables, NEW s, Allowed(s), NEW c
  PROVE Cardinality(RetirementsOf(written(db, s), c)) =
          Cardinality(RetirementsOf(db, c)) + IF Retires(s, c) THEN 1 ELSE 0
<1> DEFINE R == RetirementsOf(db, c)
<1> DEFINE n == Len(db.retirement)
<1>1. db.retirement \in Seq(Retirement) /\ n \in Nat /\ DOMAIN db.retirement = 1..n
  BY TableIs
<1>2. IsFiniteSet(R) /\ Cardinality(R) \in Nat /\ R \subseteq 1..n
  <2>0. 1 \in Int /\ n \in Int /\ R \subseteq 1..n
    BY <1>1 DEF RetirementsOf
  <2> HIDE DEF R, n
  <2>1. IsFiniteSet(1..n)
    BY <2>0, FS_Interval
  <2> QED BY <2>0, <2>1, FS_Subset, FS_CardinalityType
<1>3. CASE ~WritesTo(s, "retirement")
  <2>1. written(db, s).retirement = db.retirement
    BY <1>3, OtherTables
  <2>2. RetirementsOf(written(db, s), c) = R /\ ~Retires(s, c)
    BY <1>3, <2>1 DEF RetirementsOf, Retires, WritesTo
  <2> HIDE DEF R
  <2> QED BY <1>2, <2>2 DEF R
<1>4. CASE WritesTo(s, "retirement")
  <2>1. s.op = "create" /\ s.table = "retirement" /\ s.row \in Retirement
    BY <1>4 DEF WritesTo, Allowed, Quiet, Fill, Sale
  <2> DEFINE q == Append(db.retirement, s.row)
  <2>2. written(db, s).retirement = q
    BY <2>1 DEF written, Tables
  <2>3. /\ DOMAIN q = 1..n + 1 /\ q[n + 1] = s.row
        /\ \A i \in 1..n : q[i] = db.retirement[i]
    BY <1>1, <2>1
  <2> HIDE DEF q
  <2>4. RetirementsOf(written(db, s), c) = IF s.row.credit = c THEN R \cup {n + 1} ELSE R
    <3>1. \A i \in 1..n + 1 : i \in 1..n \/ i = n + 1
      BY <1>1
    <3>2. \A i \in 1..n : i \in 1..n + 1
      BY <1>1
    <3>3. n + 1 \in 1..n + 1
      BY <1>1
    <3> HIDE DEF n
    <3> QED BY <1>1, <2>2, <2>3, <3>1, <3>2, <3>3 DEF RetirementsOf
  <2>5. n + 1 \notin R
    BY <1>1, <1>2
  <2>6. Retires(s, c) <=> s.row.credit = c
    BY <2>1 DEF Retires
  <2> HIDE DEF R, n
  <2>7. Cardinality(R \cup {n + 1}) = Cardinality(R) + 1
    BY <1>2, <2>5, FS_AddElement
  <2> QED BY <1>2, <2>4, <2>6, <2>7 DEF R
<1> QED BY <1>3, <1>4

\* What is left after the first statement adds no row that is counted and no amount.
LEMMA TidyTail ==
  ASSUME NEW ss, ss \in Seq(Range(ss)), ss # << >>, Tidy(ss)
  PROVE /\ Tidy(Tail(ss))
        /\ \A k \in DOMAIN Tail(ss) : \A x : ~Retires(Tail(ss)[k], x) /\ ~SetsFilled(Tail(ss)[k], x)
        /\ Tail(ss) # << >> => 1 \in DOMAIN Tail(ss) /\ Head(Tail(ss)) = Tail(ss)[1]
<1> DEFINE u == Tail(ss)
<1>1. /\ Len(ss) \in Nat \ {0} /\ DOMAIN ss = 1..Len(ss)
      /\ DOMAIN u = 1..Len(ss) - 1 /\ u \in Seq(Range(u))
      /\ \A k \in 1..Len(ss) - 1 : u[k] = ss[k + 1]
  BY TailIs
<1> HIDE DEF u
<1>2. \A k \in DOMAIN u : k + 1 \in DOMAIN ss /\ u[k] = ss[k + 1] /\ k + 1 # 1
  BY <1>1
<1>3. \A k \in DOMAIN u : \A x : ~Retires(u[k], x) /\ ~SetsFilled(u[k], x)
  BY <1>2 DEF Tidy
<1>4. Tidy(u)
  BY <1>2, <1>3 DEF Tidy
<1>5. u # << >> => 1 \in DOMAIN u /\ Head(u) = u[1]
  BY <1>1, TailIs
<1> QED BY <1>3, <1>4, <1>5 DEF u

\* A statement brings the rows closer to the chain.
LEMMA StatementShows ==
  ASSUME RowsInvs, MirrorInv, ~faulty, restarts = 0, statement PROVE Shown' /\ Tidy(statements)'
<1> DEFINE s == Head(statements)
<1>1. /\ statements # << >> /\ ~throws(db, s) /\ db' = written(db, s)
      /\ statements' = Tail(statements) /\ handed' = handed /\ chain' = chain
  BY DEF statement, chainVars
<1>2. /\ db \in Tables /\ StatementsInv /\ statements \in Seq(Range(statements))
      /\ Tidy(statements) /\ Shown
  BY DEF RowsInvs, RowsInv, StatementsInv, MirrorInv
<1>3. /\ Len(statements) \in Nat \ {0} /\ s = statements[1]
      /\ DOMAIN statements = 1..Len(statements)
      /\ DOMAIN statements' = 1..Len(statements) - 1
      /\ \A k \in 1..Len(statements) - 1 : statements'[k] = statements[k + 1]
  BY <1>1, <1>2, TailIs
<1>4. /\ 1 \in DOMAIN statements
      /\ \A k \in DOMAIN statements' : k + 1 \in DOMAIN statements /\ statements'[k] = statements[k + 1]
      /\ \A k \in DOMAIN statements : k = 1 \/ (k - 1 \in DOMAIN statements' /\ statements'[k - 1] = statements[k])
  BY <1>3
<1>5. /\ Tidy(statements')
      /\ \A k \in DOMAIN statements' : \A x : ~Retires(statements'[k], x) /\ ~SetsFilled(statements'[k], x)
      /\ statements' # << >> => 1 \in DOMAIN statements' /\ Head(statements') = statements'[1]
  BY <1>1, <1>2, TidyTail
<1>6. Allowed(s)
  BY <1>1, <1>2, HeadAllowed
<1>7. CreditEffect(s, db')
  <2>1. s.op = "upsert" /\ s.table = "credit" => "status" \in DOMAIN s.fields
    BY <1>2, <1>3, <1>4 DEF Tidy
  <2> HIDE DEF s
  <2> QED BY <1>1, <1>2, <1>6, <2>1, CreditStatement
<1>8. OfferEffect(s, db')
  BY <1>1, <1>2, <1>6, OfferStatement
<1>9. \A c : Cardinality(RetirementsOf(db', c)) =
               Cardinality(RetirementsOf(db, c)) + IF Retires(s, c) THEN 1 ELSE 0
  BY <1>1, <1>2, <1>6, RetirementStatement
<1> HIDE DEF s
<1>10. \A c, T : OfCredit(c, T)' = OfCredit(c, T) /\ OfOffer(c, T)' = OfOffer(c, T)
  BY <1>1 DEF OfCredit, OfOffer
<1>11. \A c : /\ StatusEvents(c)' = StatusEvents(c) /\ RetireEvents(c)' = RetireEvents(c)
              /\ FillEvents(c)' = FillEvents(c) /\ FilledBy(FillEvents(c))' = FilledBy(FillEvents(c))
  BY <1>1, <1>10 DEF StatusEvents, RetireEvents, FillEvents, FilledBy
<1>12. ASSUME NEW c \in CreditIds PROVE ShownStatus(c)'
  <2> DEFINE S == StatusEvents(c)
             due == {k \in DOMAIN statements : SetsStatus(statements[k], c)}
             left == {k \in DOMAIN statements' : SetsStatus(statements'[k], c)}
             last == StatusAfter(chain[Max(S)].event.topic)
  <2>1. IF due = {} THEN /\ db.credit[c] = None <=> S = {}
                         /\ S # {} => db.credit[c].status = last
        ELSE S # {} /\ \A k \in due : statements[k].fields.status = last
    BY <1>2 DEF Shown, ShownStatus
  <2>2. \A k \in left : k + 1 \in due /\ statements'[k] = statements[k + 1]
    BY <1>4
  <2>3. 1 \in due <=> SetsStatus(s, c)
    BY <1>3, <1>4
  <2>4. \A k \in due : k = 1 \/ k - 1 \in left
    BY <1>4
  <2>5. ShownStatus(c)' <=>
          IF left = {} THEN /\ db'.credit[c] = None <=> S = {}
                            /\ S # {} => db'.credit[c].status = last
          ELSE S # {} /\ \A k \in left : statements'[k].fields.status = last
    BY <1>1, <1>11 DEF ShownStatus
  <2> HIDE DEF S, due, left, last
  <2>6. CASE left # {}
    BY <2>1, <2>2, <2>5, <2>6
  <2>7. CASE left = {} /\ SetsStatus(s, c)
    <3>1. db'.credit[c] # None /\ db'.credit[c].status = s.fields.status
      BY <1>7, <2>7 DEF CreditEffect
    <3>2. 1 \in due
      BY <2>3, <2>7
    <3>3. S # {} /\ s.fields.status = last
      BY <1>3, <2>1, <3>2
    <3> QED BY <2>5, <2>7, <3>1, <3>3
  <2>8. CASE left = {} /\ ~SetsStatus(s, c)
    <3>1. due = {}
      BY <2>3, <2>4, <2>8
    <3>2. /\ db'.credit[c] = None <=> db.credit[c] = None
          /\ db.credit[c] # None => db'.credit[c].status = db.credit[c].status
      BY <1>7, <2>8 DEF CreditEffect
    <3> QED BY <2>1, <2>5, <2>8, <3>1, <3>2
  <2> QED BY <2>6, <2>7, <2>8
<1>13. ASSUME NEW c \in CreditIds PROVE ShownRetirements(c)'
  <2>1. Cardinality(RetireEvents(c)) =
          Cardinality(RetirementsOf(db, c)) + IF Retires(s, c) THEN 1 ELSE 0
    BY <1>1, <1>2 DEF Shown, ShownRetirements, RowDue, s
  <2>2. ~RowDue(c)'
    BY <1>5 DEF RowDue
  <2>3. Cardinality(RetireEvents(c)) = Cardinality(RetirementsOf(db', c))
    BY <1>9, <2>1
  <2>4. Cardinality(RetirementsOf(db', c)) \in Nat
    <3>1. db' \in Tables
      BY <1>1, <1>2, RowsStep, IndexerAssumption, ScriptsAssumption DEF SyncStep, IndexerNext, RowsInvs, RowsInv
    <3>2. db'.retirement \in Seq(Retirement)
      BY <3>1, TableIs
    <3> DEFINE n == Len(db'.retirement)
    <3>3. n \in Nat /\ RetirementsOf(db', c) \subseteq 1..n /\ 1 \in Int /\ n \in Int
      BY <3>2 DEF RetirementsOf
    <3> HIDE DEF n
    <3>4. IsFiniteSet(1..n)
      BY <3>3, FS_Interval
    <3> QED BY <3>3, <3>4, FS_Subset, FS_CardinalityType
  <2> QED BY <1>11, <2>2, <2>3, <2>4 DEF ShownRetirements
<1>14. ASSUME NEW o \in OfferIds PROVE ShownFilled(o)'
  <2>1. /\ db.offer[o] # None =>
             FilledBy(FillEvents(o)) = IF SetsFilled(s, o) THEN s.fields.filled ELSE db.offer[o].filled
        /\ \A k \in DOMAIN statements : Opens(statements[k], o) => FillEvents(o) = {}
    BY <1>1, <1>2 DEF Shown, ShownFilled, FillDue, s
  <2>2. ~FillDue(o)'
    BY <1>5 DEF FillDue
  <2>3. \A k \in DOMAIN statements' : Opens(statements'[k], o) => FillEvents(o) = {}
    BY <1>4, <2>1
  <2>4. db'.offer[o] # None => FilledBy(FillEvents(o)) = db'.offer[o].filled
    <3>1. CASE db.offer[o] # None
      BY <1>8, <2>1, <3>1 DEF OfferEffect
    <3>2. CASE db.offer[o] = None /\ db'.offer[o] # None
      <4>1. Opens(s, o) /\ db'.offer[o].filled = 0
        BY <1>8, <3>2 DEF OfferEffect
      <4>2. FillEvents(o) = {}
        BY <1>3, <1>4, <2>1, <4>1
      <4>3. FilledBy({}) = 0
        BY SumEmpty DEF FilledBy
      <4> QED BY <4>1, <4>2, <4>3
    <3> QED BY <3>1, <3>2
  <2> QED BY <1>11, <2>2, <2>3, <2>4 DEF ShownFilled
<1> QED BY <1>5, <1>12, <1>13, <1>14 DEF Shown

\* The script that the chain follows goes on when a ledger closes.
LEMMA HistoryStep ==
  ASSUME IndexerAssumption, ScriptsAssumption, LoopInv, HistoryInv, SyncStep PROVE HistoryInv'
<1>1. PICK script \in Scripts : Follows(script)
  BY DEF HistoryInv
<1>2. restarts \in Nat /\ restarts' \in Nat
  BY DEF HistoryInv, SyncStep, IndexerNext, close_ledger, api_bridge_record, poll, fetchEvents,
         fetch_error, page_arrives, fetch_throws, next_event, statement, statement_throws, sleep, main,
         indexerVars
<1>3. CASE chain' = chain /\ future' = future
  BY <1>1, <1>2, <1>3 DEF HistoryInv, Follows
<1>4. CASE close_ledger
  <2>1. PICK shape \in LedgerShapes : Added(shape)
    BY <1>4, Closes DEF LoopInv, LoopChain, ChainEvent
  <2> DEFINE N == Len(chain)
             m == Len(shape)
  <2>2. /\ N \in Nat /\ m \in Nat /\ DOMAIN chain = 1..N /\ DOMAIN chain' = 1..N + m
        /\ future \in Seq(Published) /\ Len(future) \in Nat /\ DOMAIN future = 1..Len(future)
        /\ Len(future') = Len(future) - m
        /\ chain' \in Seq([ledger : Nat, txIndex : Nat, event : Published])
    BY <2>1 DEF Added, LoopInv, LoopChain
  <2>3. Len(chain') = N + m
    BY <2>2
  <2>4. /\ \A i \in 1..N : chain'[i] = chain[i]
        /\ \A i \in N + 1..N + m : i - N \in 1..m /\ chain'[i].event = future[i - N]
        /\ \A k \in DOMAIN future' : m + k \in DOMAIN future /\ future'[k] = future[m + k]
    BY <2>1 DEF Added
  <2>5. /\ Len(script) = N + Len(future)
        /\ \A i \in DOMAIN chain : chain[i].event = script[i]
        /\ \A k \in DOMAIN future : future[k] = script[N + k]
    BY <1>1 DEF Follows
  <2>6. m <= Len(future)
    <3>1. future' \in Seq(Published)
      BY <2>1 DEF Added
    <3>2. Len(future') \in Nat
      BY <3>1
    <3> HIDE DEF m
    <3> QED BY <2>2, <3>2
  <2> HIDE DEF N, m
  <2>7. ASSUME NEW i \in DOMAIN chain' PROVE chain'[i].event = script[i]
    <3>1. CASE i \in 1..N
      BY <2>2, <2>4, <2>5, <3>1
    <3>2. CASE i \in N + 1..N + m
      <4>1. i - N \in DOMAIN future /\ N + (i - N) = i
        BY <2>2, <2>6, <3>2
      <4> QED BY <2>4, <2>5, <3>2, <4>1
    <3> QED BY <2>2, <3>1, <3>2
  <2>8. ASSUME NEW k \in DOMAIN future' PROVE future'[k] = script[Len(chain') + k]
    <3>1. m + k \in DOMAIN future /\ future'[k] = future[m + k]
      BY <2>4
    <3>2. k \in Int
      <4>1. future' \in Seq(Published)
        BY <2>1 DEF Added
      <4> QED BY <4>1
    <3>3. N + (m + k) = Len(chain') + k
      BY <2>2, <2>3, <3>2
    <3> QED BY <2>5, <3>1, <3>3
  <2>9. Len(script) = Len(chain') + Len(future')
    BY <2>2, <2>3, <2>5
  <2> QED BY <1>2, <2>7, <2>8, <2>9 DEF HistoryInv, Follows
<1> QED BY <1>3, <1>4 DEF SyncStep, IndexerNext, chainVars, api_bridge_record, poll, fetchEvents,
         fetch_error, page_arrives, fetch_throws, next_event, statement, statement_throws, sleep, main,
         indexerVars

\* What the order of the script says of the chain.
LEMMA OrderlyChain ==
  ASSUME OrderlyScripts, HistoryInv, LoopInv, NEW i \in DOMAIN chain, chain[i].event.ok
  PROVE /\ chain[i].event.topic \in {"credit_rejected", "credit_retired"} =>
             \E j \in DOMAIN chain :
                /\ j < i /\ chain[j].event.ok
                /\ chain[j].event.topic \in {"credit_submitted", "credit_minted"}
                /\ chain[j].event.credit = chain[i].event.credit
        /\ chain[i].event.topic = "offer_created" =>
             ~\E j \in DOMAIN chain :
                /\ j < i /\ chain[j].event.ok /\ chain[j].event.topic = "offer_filled"
                /\ chain[j].event.offer = chain[i].event.offer
<1>1. PICK script \in Scripts : Follows(script)
  BY DEF HistoryInv
<1> DEFINE N == Len(chain)
<1>2. N \in Nat /\ DOMAIN chain = 1..N
  BY DEF LoopInv, LoopChain
<1>3. i \in DOMAIN script
  <2>1. script \in Seq(Published) /\ future \in Seq(Published)
    BY ScriptsAssumption DEF LoopInv, LoopChain, ScriptsAssumption
  <2>2. Len(future) \in Nat /\ DOMAIN script = 1..Len(script) /\ Len(script) = N + Len(future)
    BY <1>1, <2>1 DEF Follows
  <2> HIDE DEF N
  <2> QED BY <1>2, <2>2
<1>4. \A j \in 1..i - 1 : j \in DOMAIN chain /\ j < i
  BY <1>2
<1>5. \A j \in DOMAIN chain : j < i => j \in 1..i - 1
  BY <1>2
<1>6. \A j \in DOMAIN chain : chain[j].event = script[j]
  BY <1>1 DEF Follows
<1>7. Orderly(script)
  BY DEF OrderlyScripts
<1> HIDE DEF N
<1> QED BY <1>3, <1>4, <1>5, <1>6, <1>7 DEF Orderly

\* The next event comes behind those handed out, and behind it none was left out.
LEMMA NextIs ==
  ASSUME SyncInv, LoopInv, ~faulty, pc = "processing", events # << >>
  PROVE LET i == Head(events) IN
        /\ Known(i) /\ i \in Nat /\ \A h \in handed : h < i
        /\ \A j \in DOMAIN chain : Relevant(j) /\ j < i => j \in handed
<1> DEFINE i == Head(events)
<1>1. ChainInv /\ CursorInv /\ ProcessInv /\ TakenInv
  BY DEF SyncInv
<1>2. events \in Seq(Nat) /\ i = events[1] /\ 1 \in DOMAIN events /\ DOMAIN events = 1..Len(events)
  BY DEF LoopInv
<1>3. i \in Range(events) /\ i \in Nat
  BY <1>2 DEF Range
<1>4. Known(i) /\ ~after(i, cursor) /\ \A h \in handed : h < i
  BY <1>1, <1>3 DEF LoopInv, ProcessInv
<1>5. ASSUME NEW j \in DOMAIN chain, Relevant(j), j < i PROVE j \in handed
  <2>1. ~after(j, cursor)
    <3>1. cursor \in Cursors /\ i \in DOMAIN chain
      BY <1>1, <1>4 DEF CursorInv, Reached, Known
    <3>2. after(j, cursor) => i < j
      BY <1>1, <1>4, <3>1, Order
    <3>3. j \in Nat
      BY KnownEvent
    <3> QED BY <1>3, <1>5, <3>2, <3>3
  <2>2. j \in handed \cup Range(events)
    BY <1>1, <1>5, <2>1 DEF TakenInv
  <2>3. j \notin Range(events)
    <3> SUFFICES ASSUME NEW k \in DOMAIN events, events[k] = j PROVE FALSE
      BY DEF Range
    <3>1. k = 1 \/ 1 < k
      BY <1>2
    <3>2. ~(events[1] < events[k])
      BY <1>2, <1>3, <1>5, KnownEvent
    <3>3. k # 1
      BY <1>2, <1>3, <1>5
    <3> QED BY <1>1, <1>2, <3>1, <3>2, <3>3 DEF CursorInv, Increasing
  <2> QED BY <2>2, <2>3
<1> QED BY <1>3, <1>4, <1>5

\* The sets of events grow by the one that is handed out.
LEMMA Grow ==
  ASSUME NEW i, Known(i), chain' = chain, handed' = handed \cup {i}, NEW c, NEW T
  PROVE /\ (OfCredit(c, T) \cap handed)' =
             IF chain[i].event.topic \in T /\ chain[i].event.credit = c
             THEN (OfCredit(c, T) \cap handed) \cup {i} ELSE OfCredit(c, T) \cap handed
        /\ (OfOffer(c, T) \cap handed)' =
             IF chain[i].event.topic \in T /\ chain[i].event.offer = c
             THEN (OfOffer(c, T) \cap handed) \cup {i} ELSE OfOffer(c, T) \cap handed
  BY DEF OfCredit, OfOffer, Known, Relevant

\* Events handed out are finitely many.
LEMMA HandedIs ==
  ASSUME LoopInv, NEW S, S \subseteq handed
  PROVE IsFiniteSet(S) /\ Cardinality(S) \in Nat /\ \E n \in Nat : S \subseteq 1..n
<1> DEFINE n == Len(chain)
<1>1. n \in Nat /\ S \subseteq 1..n /\ 1 \in Int /\ n \in Int
  BY DEF LoopInv, LoopChain
<1> HIDE DEF n
<1>2. IsFiniteSet(1..n)
  BY <1>1, FS_Interval
<1> QED BY <1>1, <1>2, FS_Subset, FS_CardinalityType

\* The last event is the one handed out last.
LEMMA LatestIs ==
  ASSUME LoopInv, NEW S, S \subseteq handed, NEW i \in DOMAIN chain, \A h \in handed : h < i
  PROVE Max(S \cup {i}) = i
<1> DEFINE n == Len(chain)
<1>1. n \in Nat /\ S \subseteq 1..n /\ i \in 1..n
  BY DEF LoopInv, LoopChain
<1> DEFINE U == S \cup {i}
<1>2. U \in SUBSET (1..n) /\ U # {} /\ i \in U
  BY <1>1
<1> HIDE DEF n, U
<1>3. Max(U) \in U /\ \A y \in U : y <= Max(U)
  BY <1>1, <1>2, MaxIsGreatest
<1>4. \A y \in U : y = i \/ y < i
  BY DEF U
<1>5. Max(U) \in Int /\ i \in Int
  <2>1. \A y \in 1..n : y \in Int
    BY <1>1
  <2> QED BY <1>1, <1>2, <1>3, <2>1
<1>6. i <= Max(U) /\ (Max(U) = i \/ Max(U) < i)
  BY <1>2, <1>3, <1>4
<1>7. Max(U) = i
  BY <1>5, <1>6
<1> QED BY <1>7 DEF U

\* A sale that is handed out adds its amount.
LEMMA FilledGrows ==
  ASSUME ScriptsAssumption, LoopInv, NEW o, NEW i \in DOMAIN chain, i \notin handed,
         chain[i].event.topic = "offer_filled"
  PROVE /\ FilledBy(FillEvents(o)) \in Int
        /\ FilledBy(FillEvents(o) \cup {i}) = FilledBy(FillEvents(o)) + chain[i].event.amount
<1> DEFINE F == FillEvents(o)
           U == F \cup {i}
           f == [k \in F |-> chain[k].event.amount]
           g == [k \in U |-> chain[k].event.amount]
<1>1. ASSUME NEW k \in U PROVE chain[k].event.amount \in Int
  <2>1. k \in DOMAIN chain /\ chain[k].event.topic = "offer_filled"
    BY DEF FillEvents, OfOffer
  <2>2. chain[k].event \in Published
    BY <2>1, KnownEvent
  <2>3. chain[k].event.amount \in 1..MaxAmount
    BY <2>1, <2>2 DEF ScriptsAssumption
  <2> QED BY <2>3
<1>2. IsFiniteSet(F)
  BY HandedIs DEF FillEvents
<1>3. IsFiniteSet(U) /\ i \in U /\ U \ {i} = F
  BY <1>2, FS_AddElement DEF FillEvents
<1> HIDE DEF F
<1>4. (\A k \in U : g[k] \in Int /\ g[k] = chain[k].event.amount) /\ \A k \in F : f[k] \in Int /\ f[k] = g[k]
  BY <1>1
<1> HIDE DEF U, f, g
<1>5. SumFunctionOnSet(g, U) = g[i] + SumFunctionOnSet(g, U \ {i})
  BY <1>3, <1>4, SumRemove
<1>6. SumFunctionOnSet(f, F) = SumFunctionOnSet(g, F)
  BY <1>2, <1>4, SumSame
<1>7. SumFunctionOnSet(f, F) \in Int
  BY <1>2, <1>4, SumInt
<1>8. g[i] = chain[i].event.amount /\ g[i] \in Int
  BY <1>3, <1>4
<1>9. SumFunctionOnSet(g, U) = SumFunctionOnSet(f, F) + chain[i].event.amount
  <2>1. SumFunctionOnSet(g, U) = g[i] + SumFunctionOnSet(f, F)
    BY <1>3, <1>5, <1>6
  <2>2. \A x, y \in Int : x + y = y + x
    OBVIOUS
  <2>3. g[i] + SumFunctionOnSet(f, F) = SumFunctionOnSet(f, F) + g[i]
    BY <1>7, <1>8, <2>2
  <2> QED BY <1>8, <2>1, <2>3
<1> QED BY <1>7, <1>9 DEF FilledBy, F, U, f, g

\* A processor starts with statements that make up for its event.
LEMMA NextEventShows ==
  ASSUME IndexerAssumption, ScriptsAssumption, OrderlyScripts, SyncInv, RowsInvs, HistoryInv,
         MirrorInv, next_event
  PROVE Tidy(statements)' /\ (~faulty /\ restarts = 0 => Shown')
<1> DEFINE i == Head(events)
           e == chain[i].event
<1>1. /\ pc = "processing" /\ statements = << >> /\ events # << >>
      /\ statements' = processEvent(e, db) /\ handed' = handed \cup {i}
      /\ chain' = chain /\ db' = db
  BY DEF next_event, chainVars
<1>2. /\ LoopInv /\ RowsInv /\ db \in Tables
      /\ statements' \in Seq(Range(statements'))
  <2>1. LoopInv /\ RowsInv /\ db \in Tables
    BY DEF RowsInvs, RowsInv
  <2>2. RowsInv'
    BY <2>1, RowsNextEvent
  <2> QED BY <2>1, <2>2 DEF RowsInv, StatementsInv
<1>3. Known(i)
  <2>1. events \in Seq(Nat) /\ i = events[1] /\ 1 \in DOMAIN events
    BY <1>1, <1>2 DEF LoopInv
  <2>2. i \in Range(events)
    BY <2>1 DEF Range
  <2> QED BY <1>2, <2>2 DEF LoopInv
<1>4. i \in DOMAIN chain /\ e.ok /\ e.topic \in Topics
  BY <1>3 DEF Known, Relevant
<1>5. Writes(statements', e, db)
  BY <1>1, <1>4, ProcessorsWrite
<1>6. statements' # << >> => Head(statements') = statements'[1] /\ 1 \in DOMAIN statements'
  BY <1>2, TailIs
<1>6a. 1 \in DOMAIN statements' => statements' # << >>
  OBVIOUS
<1> SUFFICES ASSUME ~faulty, restarts = 0 PROVE Shown'
  BY <1>5 DEF Writes
<1>7. Shown
  BY DEF MirrorInv
<1>8. (\A h \in handed : h < i) /\ \A j \in DOMAIN chain : Relevant(j) /\ j < i => j \in handed
  BY <1>1, <1>2, NextIs
<1>9. i \notin handed
  <2>1. i \in Nat
    BY <1>2, <1>4, KnownEvent
  <2> HIDE DEF i
  <2> QED BY <1>8, <2>1
<1>10. ASSUME NEW c
       PROVE /\ StatusEvents(c)' = IF e.topic \in StatusTopics /\ e.credit = c
                                   THEN StatusEvents(c) \cup {i} ELSE StatusEvents(c)
             /\ RetireEvents(c)' = IF e.topic = "credit_retired" /\ e.credit = c
                                   THEN RetireEvents(c) \cup {i} ELSE RetireEvents(c)
             /\ FillEvents(c)' = IF e.topic = "offer_filled" /\ e.offer = c
                                 THEN FillEvents(c) \cup {i} ELSE FillEvents(c)
  <2>1. \A T : /\ (OfCredit(c, T) \cap handed)' =
                    IF e.topic \in T /\ e.credit = c
                    THEN (OfCredit(c, T) \cap handed) \cup {i} ELSE OfCredit(c, T) \cap handed
               /\ (OfOffer(c, T) \cap handed)' =
                    IF e.topic \in T /\ e.offer = c
                    THEN (OfOffer(c, T) \cap handed) \cup {i} ELSE OfOffer(c, T) \cap handed
    BY <1>1, <1>3, Grow
  <2> HIDE DEF i, e
  <2> QED BY <2>1 DEF StatusEvents, RetireEvents, FillEvents
<1>11. e.topic \in {"credit_rejected", "credit_retired"} /\ e.credit \in CreditIds =>
         db.credit[e.credit] # None
  <2> SUFFICES ASSUME e.topic \in {"credit_rejected", "credit_retired"}, e.credit \in CreditIds
               PROVE db.credit[e.credit] # None
    OBVIOUS
  <2>1. PICK j \in DOMAIN chain :
          /\ j < i /\ chain[j].event.ok
          /\ chain[j].event.topic \in {"credit_submitted", "credit_minted"}
          /\ chain[j].event.credit = e.credit
    BY <1>2, <1>4, OrderlyChain
  <2>2. j \in handed
    BY <1>8, <2>1 DEF Relevant, Topics, CreditTopics
  <2>3. j \in StatusEvents(e.credit)
    BY <2>1, <2>2 DEF StatusEvents, OfCredit, StatusTopics
  <2>4. ShownStatus(e.credit) /\ {k \in DOMAIN statements : SetsStatus(statements[k], e.credit)} = {}
    BY <1>1, <1>7 DEF Shown
  <2> QED BY <2>3, <2>4 DEF ShownStatus
<1>12. ASSUME NEW c \in CreditIds PROVE ShownStatus(c)'
  <2> DEFINE S == StatusEvents(c)
             due == {k \in DOMAIN statements' : SetsStatus(statements'[k], c)}
  <2>1. /\ db.credit[c] = None <=> S = {}
        /\ S # {} => db.credit[c].status = StatusAfter(chain[Max(S)].event.topic)
    <3>1. ShownStatus(c) /\ {k \in DOMAIN statements : SetsStatus(statements[k], c)} = {}
      BY <1>1, <1>7 DEF Shown
    <3> QED BY <3>1 DEF ShownStatus
  <2>2. CASE e.topic \in StatusTopics /\ e.credit = c
    <3>1. S' = S \cup {i}
      BY <1>10, <2>2
    <3>2. S \subseteq handed
      BY DEF StatusEvents
    <3>3. Max(S') = i
      <4> HIDE DEF S, i
      <4> QED BY <1>2, <1>4, <1>8, <3>1, <3>2, LatestIs
    <3>4. due # {}
      BY <1>5, <1>11, <2>2 DEF Writes
    <3>5. \A k \in due : statements'[k].fields.status = StatusAfter(e.topic)
      BY <1>5 DEF Writes
    <3> QED BY <1>1, <3>1, <3>3, <3>4, <3>5 DEF ShownStatus
  <2>3. CASE ~(e.topic \in StatusTopics /\ e.credit = c)
    <3>1. S' = S
      BY <1>10, <2>3
    <3>2. due = {}
      BY <1>5, <2>3 DEF Writes
    <3> QED BY <1>1, <2>1, <3>1, <3>2 DEF ShownStatus
  <2> QED BY <2>2, <2>3
<1>13. ASSUME NEW c \in CreditIds PROVE ShownRetirements(c)'
  <2> DEFINE R == RetireEvents(c)
             rows == Cardinality(RetirementsOf(db, c))
  <2>1. Cardinality(R) = rows + 0
    BY <1>1, <1>7 DEF Shown, ShownRetirements, RowDue
  <2>2. IsFiniteSet(R) /\ Cardinality(R) \in Nat
    BY <1>2, HandedIs DEF RetireEvents
  <2>3. ShownRetirements(c)' <=> Cardinality(R') = rows + IF RowDue(c)' THEN 1 ELSE 0
    BY <1>1 DEF ShownRetirements
  <2>3a. rows \in Nat
    <3> DEFINE n == Len(db.retirement)
    <3>1. n \in Nat /\ RetirementsOf(db, c) \subseteq 1..n /\ 1 \in Int /\ n \in Int
      BY <1>2, TableIs DEF RetirementsOf
    <3> HIDE DEF n
    <3>2. IsFiniteSet(1..n)
      BY <3>1, FS_Interval
    <3> QED BY <3>1, <3>2, FS_Subset, FS_CardinalityType
  <2>4. CASE e.topic = "credit_retired" /\ e.credit = c
    <3>1. R' = R \cup {i} /\ i \notin R
      BY <1>9, <1>10, <2>4 DEF RetireEvents
    <3>2. RowDue(c)'
      BY <1>5, <1>6, <1>6a, <1>11, <2>4 DEF Writes, RowDue
    <3> HIDE DEF R, rows, i
    <3>3. Cardinality(R \cup {i}) = Cardinality(R) + 1
      BY <2>2, <3>1, FS_AddElement
    <3>4. Cardinality(R') = rows + 1
      BY <2>1, <2>2, <2>3a, <3>1, <3>3
    <3> QED BY <2>3, <3>2, <3>4
  <2>5. CASE ~(e.topic = "credit_retired" /\ e.credit = c)
    <3>1. R' = R
      BY <1>10, <2>5
    <3>2. ~RowDue(c)'
      BY <1>5, <1>6, <2>5 DEF Writes, RowDue
    <3> HIDE DEF R, rows
    <3> QED BY <2>1, <2>3, <3>1, <3>2
  <2> QED BY <2>4, <2>5
<1>14. ASSUME NEW o \in OfferIds PROVE ShownFilled(o)'
  <2> DEFINE F == FillEvents(o)
  <2>1. db.offer[o] # None => FilledBy(F) = db.offer[o].filled
    BY <1>1, <1>7 DEF Shown, ShownFilled, FillDue
  <2>2. \A G : FilledBy(G)' = FilledBy(G')
    BY <1>1 DEF FilledBy
  <2>3. CASE e.topic = "offer_filled" /\ e.offer = o
    <3>1. F' = F \cup {i}
      BY <1>10, <2>3
    <3>2. FilledBy(F \cup {i}) = FilledBy(F) + e.amount
      BY <1>2, <1>4, <1>9, <2>3, FilledGrows
    <3>3. FilledBy(F)' = FilledBy(F) + e.amount
      BY <1>1, <3>1, <3>2 DEF FilledBy
    <3>4. db.offer[o] # None => FillDue(o)' /\ Head(statements').fields.filled = db.offer[o].filled + e.amount
      BY <1>5, <1>6, <1>6a, <2>3 DEF Writes, FillDue
    <3>5. \A k \in DOMAIN statements' : ~Opens(statements'[k], o)
      BY <1>5, <2>3 DEF Writes
    <3> QED BY <1>1, <2>1, <3>3, <3>4, <3>5 DEF ShownFilled
  <2>4. CASE ~(e.topic = "offer_filled" /\ e.offer = o)
    <3>1. F' = F
      BY <1>10, <2>4
    <3>2. FilledBy(F)' = FilledBy(F)
      BY <1>1, <3>1 DEF FilledBy
    <3>3. ~FillDue(o)'
      BY <1>5, <1>6, <2>4 DEF Writes, FillDue
    <3>4. ASSUME NEW k \in DOMAIN statements', Opens(statements'[k], o) PROVE F = {}
      <4>1. e.topic = "offer_created" /\ e.offer = o
        BY <1>5, <3>4 DEF Writes
      <4>2. ~\E j \in DOMAIN chain : /\ j < i /\ chain[j].event.ok
                                     /\ chain[j].event.topic = "offer_filled" /\ chain[j].event.offer = o
        BY <1>2, <1>4, <4>1, OrderlyChain
      <4> QED BY <1>8, <4>2 DEF FillEvents, OfOffer
    <3> QED BY <1>1, <2>1, <3>1, <3>2, <3>3, <3>4 DEF ShownFilled
  <2> QED BY <2>3, <2>4
<1> QED BY <1>12, <1>13, <1>14 DEF Shown

\* Steps beside the mirrored rows and the events handed out.
LEMMA ShownStays ==
  ASSUME LoopInv, Shown, handed' = handed, statements' = statements,
         db'.credit = db.credit, db'.offer = db.offer, db'.retirement = db.retirement,
         \A i \in DOMAIN chain : i \in DOMAIN chain' /\ chain'[i] = chain[i]
  PROVE Shown'
<1>1. \A i \in handed : i \in DOMAIN chain /\ i \in DOMAIN chain' /\ chain'[i] = chain[i]
  BY DEF LoopInv
<1>2. \A c : /\ StatusEvents(c)' = StatusEvents(c) /\ RetireEvents(c)' = RetireEvents(c)
             /\ FillEvents(c)' = FillEvents(c)
  BY <1>1 DEF StatusEvents, RetireEvents, FillEvents, OfCredit, OfOffer
<1>3. ASSUME NEW c PROVE FilledBy(FillEvents(c))' = FilledBy(FillEvents(c))
  <2> DEFINE F == FillEvents(c)
  <2>1. F' = F /\ F \subseteq handed
    BY <1>2 DEF FillEvents
  <2> HIDE DEF F
  <2>2. [k \in F |-> chain'[k].event.amount] = [k \in F |-> chain[k].event.amount]
    BY <1>1, <2>1
  <2>3. FilledBy(F)' = SumFunctionOnSet([k \in F |-> chain'[k].event.amount], F)
    BY <2>1 DEF FilledBy
  <2> QED BY <2>2, <2>3 DEF FilledBy, F
<1>4. ASSUME NEW c, StatusEvents(c) # {}
      PROVE chain'[Max(StatusEvents(c))] = chain[Max(StatusEvents(c))]
  <2> DEFINE S == StatusEvents(c)
  <2>1. S \subseteq handed /\ S # {}
    BY <1>4 DEF StatusEvents
  <2> HIDE DEF S
  <2>2. PICK n \in Nat : S \subseteq 1..n
    BY <2>1, HandedIs
  <2>3. Max(S) \in S
    BY <2>1, <2>2, MaxIsGreatest
  <2> QED BY <1>1, <2>1, <2>3 DEF S
<1>5. ASSUME NEW c \in CreditIds PROVE ShownStatus(c)'
  <2>1. ShownStatus(c)
    BY DEF Shown
  <2> QED BY <1>2, <1>4, <2>1 DEF ShownStatus
<1>6. ASSUME NEW c \in CreditIds PROVE ShownRetirements(c)'
  <2>1. ShownRetirements(c) /\ RetirementsOf(db', c) = RetirementsOf(db, c)
    BY DEF Shown, RetirementsOf
  <2> QED BY <1>2, <2>1 DEF ShownRetirements, RowDue
<1>7. ASSUME NEW o \in OfferIds PROVE ShownFilled(o)'
  <2>1. ShownFilled(o)
    BY DEF Shown
  <2> QED BY <1>2, <1>3, <2>1 DEF ShownFilled, FillDue
<1> QED BY <1>5, <1>6, <1>7 DEF Shown

SeenInv == SyncInv /\ RowsInvs /\ HistoryInv /\ MirrorInv

\* Every step keeps what the rows show of the events handed out.
LEMMA MirrorStep ==
  ASSUME IndexerAssumption, ScriptsAssumption, OnePerTransaction, OrderlyScripts, SeenInv, SyncStep
  PROVE SeenInv'
<1>1. /\ SyncInv /\ RowsInvs /\ HistoryInv /\ MirrorInv /\ LoopInv /\ Tidy(statements)
      /\ db \in Tables /\ restarts \in Nat
  BY DEF SeenInv, RowsInvs, RowsInv, MirrorInv, HistoryInv
<1>2. SyncInv' /\ RowsInvs' /\ HistoryInv'
  BY <1>1, SyncStepKeeps, RowsStep, HistoryStep
<1> SUFFICES MirrorInv'
  BY <1>2 DEF SeenInv
<1>3. CASE statement
  <2>1. faulty' = faulty /\ restarts' = restarts
    BY <1>3 DEF statement
  <2>2. Tidy(statements)'
    <3>1. statements # << >> /\ statements' = Tail(statements) /\ statements \in Seq(Range(statements))
      BY <1>1, <1>3 DEF statement, RowsInvs, RowsInv, StatementsInv
    <3> QED BY <1>1, <3>1, TidyTail
  <2> QED BY <1>1, <1>3, <2>1, <2>2, StatementShows DEF MirrorInv
<1>4. CASE next_event
  <2>1. faulty' = faulty /\ restarts' = restarts
    BY <1>4 DEF next_event
  <2> QED BY <1>1, <1>4, <2>1, NextEventShows DEF MirrorInv
<1>5. CASE fetch_throws \/ statement_throws \/ fetch_error
  <2>1. faulty' = TRUE /\ Tidy(statements')
    BY <1>1, <1>5 DEF fetch_throws, statement_throws, fetch_error, page_arrives, Tidy
  <2> QED BY <2>1 DEF MirrorInv
<1>6. CASE main
  <2>1. restarts' # 0 /\ Tidy(statements')
    BY <1>1, <1>6 DEF main, Tidy
  <2> QED BY <2>1 DEF MirrorInv
<1>7. CASE api_bridge_record
  <2>1. /\ handed' = handed /\ statements' = statements /\ chain' = chain
        /\ faulty' = faulty /\ restarts' = restarts
        /\ db'.credit = db.credit /\ db'.offer = db.offer /\ db'.retirement = db.retirement
    BY <1>1, <1>7 DEF api_bridge_record, chainVars, Tables
  <2> QED BY <1>1, <2>1, ShownStays DEF MirrorInv
<1>8. CASE close_ledger
  <2>1. \A i \in DOMAIN chain : i \in DOMAIN chain' /\ chain'[i] = chain[i]
    BY <1>1, <1>8, ClosesInOrder DEF SyncInv
  <2>2. handed' = handed /\ statements' = statements /\ db' = db /\ faulty' = faulty /\ restarts' = restarts
    BY <1>8 DEF close_ledger
  <2> QED BY <1>1, <2>1, <2>2, ShownStays DEF MirrorInv
<1>9. CASE poll \/ fetchEvents \/ sleep \/ UNCHANGED indexerVars
  <2>1. /\ handed' = handed /\ statements' = statements /\ db' = db /\ chain' = chain
        /\ faulty' = faulty /\ restarts' = restarts
    BY <1>1, <1>9 DEF poll, fetchEvents, page_arrives, sleep, indexerVars, chainVars, SyncInv, CursorInv
  <2> QED BY <1>1, <2>1, ShownStays DEF MirrorInv
<1> QED BY <1>3, <1>4, <1>5, <1>6, <1>7, <1>8, <1>9 DEF SyncStep, IndexerNext

\* Nothing is shown while nothing was handed out.
LEMMA MirrorInitially ==
  ASSUME IndexerAssumption, ScriptsAssumption, IndexerInit PROVE HistoryInv /\ MirrorInv
<1>1. /\ chain = << >> /\ future \in Scripts /\ restarts = 0 /\ handed = {} /\ statements = << >>
      /\ db = EmptyTables
  BY DEF IndexerInit
<1>2. HistoryInv
  <2>1. future \in Seq(Published) /\ Len(chain) = 0 /\ DOMAIN chain = {}
    BY <1>1 DEF ScriptsAssumption
  <2>2. Len(future) \in Nat /\ \A k \in DOMAIN future : k \in Nat
    BY <2>1
  <2>3. Follows(future)
    BY <2>1, <2>2 DEF Follows
  <2> QED BY <1>1, <2>3 DEF HistoryInv
<1>3. \A c : StatusEvents(c) = {} /\ RetireEvents(c) = {} /\ FillEvents(c) = {}
  BY <1>1 DEF StatusEvents, RetireEvents, FillEvents
<1>4. \A c : RetirementsOf(db, c) = {} /\ Cardinality({}) = 0
  BY <1>1, FS_EmptySet DEF RetirementsOf, EmptyTables
<1>5. Shown
  <2>1. ASSUME NEW c \in CreditIds PROVE ShownStatus(c) /\ ShownRetirements(c)
    <3>1. db.credit[c] = None /\ ~RowDue(c) /\ {k \in DOMAIN statements : SetsStatus(statements[k], c)} = {}
      BY <1>1 DEF EmptyTables, RowDue
    <3>2. Cardinality(RetirementsOf(db, c)) = 0 /\ Cardinality(RetireEvents(c)) = 0
      BY <1>3, <1>4
    <3>3. ShownRetirements(c)
      BY <3>1, <3>2 DEF ShownRetirements
    <3> QED BY <1>3, <3>1, <3>3 DEF ShownStatus
  <2>2. ASSUME NEW o \in OfferIds PROVE ShownFilled(o)
    <3>1. db.offer[o] = None /\ DOMAIN statements = {}
      BY <1>1 DEF EmptyTables
    <3> QED BY <3>1 DEF ShownFilled
  <2> QED BY <2>1, <2>2 DEF Shown
<1>6. Tidy(statements)
  BY <1>1 DEF Tidy
<1> QED BY <1>2, <1>5, <1>6 DEF MirrorInv

\* The database is the mirror of the chain that the architecture promises: once
\* the indexer has caught up on its first run and nothing failed, statuses,
\* retirements and filled amounts are what the events add up to, whatever the
\* pages, the resumes and the ledgers that close meanwhile (the processors, sync.ts).
THEOREM DatabaseMirrorsChain ==
  ASSUME OnePerTransaction, OrderlyScripts PROVE IndexerSpec => []MirrorsChain
<1>1. IndexerInit => SeenInv
  BY SyncInitially, RowsInitially, MirrorInitially, IndexerAssumption, ScriptsAssumption DEF SeenInv
<1>2. SeenInv /\ [IndexerNext]_indexerVars => SeenInv'
  BY MirrorStep, IndexerAssumption, ScriptsAssumption DEF SyncStep
<1>3. ASSUME SeenInv PROVE MirrorsChain
  <2> SUFFICES ASSUME CaughtUp, ~faulty, restarts = 0 PROVE Mirror
    BY DEF MirrorsChain
  <2>1. Shown /\ statements = << >>
    BY <1>3 DEF SeenInv, MirrorInv, RowsInvs, LoopInv, CaughtUp
  <2>2. \A c : /\ StatusEvents(c) = OfCredit(c, StatusTopics)
               /\ RetireEvents(c) = OfCredit(c, {"credit_retired"})
               /\ FillEvents(c) = OfOffer(c, {"offer_filled"})
    BY DEF CaughtUp, Relevant, StatusEvents, RetireEvents, FillEvents, OfCredit, OfOffer,
           StatusTopics, Topics, CreditTopics, OfferTopics
  <2>3. ASSUME NEW c \in CreditIds
        PROVE LET S == OfCredit(c, StatusTopics) IN
              /\ db.credit[c] = None <=> S = {}
              /\ S # {} => db.credit[c].status = StatusAfter(chain[Max(S)].event.topic)
              /\ Cardinality({k \in DOMAIN db.retirement : db.retirement[k].credit = c})
                     = Cardinality(OfCredit(c, {"credit_retired"}))
    <3>1. ShownStatus(c) /\ ShownRetirements(c) /\ ~RowDue(c)
      BY <2>1 DEF Shown, RowDue
    <3>2. {k \in DOMAIN statements : SetsStatus(statements[k], c)} = {}
      BY <2>1
    <3>3. Cardinality(RetirementsOf(db, c)) \in Nat
      <4>1. db \in Tables
        BY <1>3 DEF SeenInv, RowsInvs, RowsInv
      <4> DEFINE n == Len(db.retirement)
      <4>2. n \in Nat /\ RetirementsOf(db, c) \subseteq 1..n /\ 1 \in Int /\ n \in Int
        BY <4>1, TableIs DEF RetirementsOf
      <4> HIDE DEF n
      <4>3. IsFiniteSet(1..n)
        BY <4>2, FS_Interval
      <4> QED BY <4>2, <4>3, FS_Subset, FS_CardinalityType
    <3>4. Cardinality(OfCredit(c, {"credit_retired"})) = Cardinality(RetirementsOf(db, c))
      BY <2>2, <3>1, <3>3 DEF ShownRetirements
    <3> QED BY <2>2, <3>1, <3>2, <3>4 DEF ShownStatus, RetirementsOf
  <2>4. ASSUME NEW o \in OfferIds, db.offer[o] # None
        PROVE LET fills == OfOffer(o, {"offer_filled"}) IN
              db.offer[o].filled = SumFunctionOnSet([k \in fills |-> chain[k].event.amount], fills)
    <3>1. ShownFilled(o) /\ ~FillDue(o)
      BY <2>1 DEF Shown, FillDue
    <3> QED BY <2>2, <2>4, <3>1 DEF ShownFilled, FilledBy
  <2> QED BY <2>3, <2>4 DEF Mirror
<1> QED BY <1>1, <1>2, <1>3, PTL DEF IndexerSpec

=============================================================================
