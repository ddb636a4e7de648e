----------------------------- MODULE FoldLemmas -----------------------------
(***************************************************************************)
(* Lemmas about the folds of the community modules that the components use *)
(* to walk over pages and rows and to add amounts up, and about the least  *)
(* elements of sets of numbers and of finite sets, which take the place of *)
(* induction in the proofs.                                                *)
(***************************************************************************)
EXTENDS Integers, SequencesExt, FiniteSetTheorems, WellFoundedInduction, TLAPS

\* A set of natural numbers has a least element.
LEMMA NatMin ==
  ASSUME NEW T \in SUBSET Nat, T # {}
  PROVE \E m \in T : \A k \in T : m <= k
<1>1. PICK m \in T : \A y \in T : ~ (<<y, m>> \in OpToRel(<, Nat))
  BY WFMin, NatLessThanWellFounded
<1>2. ASSUME NEW y \in T PROVE m <= y
  <2>1. m \in Nat /\ y \in Nat
    OBVIOUS
  <2>2. SUFFICES ASSUME y < m PROVE FALSE
    BY <2>1
  <2>3. <<y, m>> \in OpToRel(<, Nat)
    BY <2>1, <2>2 DEF OpToRel
  <2> QED BY <1>1, <2>3
<1> QED BY <1>2

\* Induction over the natural numbers, for a set.
LEMMA SetNatInduction ==
  ASSUME NEW G, 0 \in G, \A n \in Nat : n \in G => n + 1 \in G
  PROVE Nat \subseteq G
<1>1. SUFFICES ASSUME NEW k \in Nat, k \notin G PROVE FALSE
  OBVIOUS
<1> DEFINE Bad == {n \in Nat : n \notin G}
<1>2. Bad \in SUBSET Nat /\ Bad # {}
  BY <1>1
<1>3. PICK m \in Bad : \A n \in Bad : m <= n
  <2> HIDE DEF Bad
  <2> QED BY <1>2, NatMin
<1>4. m \in Nat /\ m # 0 /\ m - 1 \in Nat
  BY <1>3
<1>5. m - 1 \in G
  BY <1>3, <1>4
<1>6. (m - 1) + 1 \in G
  BY <1>4, <1>5
<1> QED BY <1>3, <1>4, <1>6

\* Among subsets of a finite set there is one with no other of them inside.
LEMMA SetSubsetMin ==
  ASSUME NEW S, IsFiniteSet(S), NEW B \in SUBSET SUBSET S, B # {}
  PROVE \E T \in B : \A U \in SUBSET T : U \in B => U = T
<1>1. \A T \in SUBSET S : IsFiniteSet(T) /\ Cardinality(T) \in Nat
  BY FS_Subset, FS_CardinalityType
<1> DEFINE Sizes == {Cardinality(T) : T \in B}
<1>2. Sizes \in SUBSET Nat /\ Sizes # {}
  BY <1>1
<1>3. PICK m \in Sizes : \A k \in Sizes : m <= k
  <2> HIDE DEF Sizes
  <2> QED BY <1>2, NatMin
<1>4. PICK T \in B : \A U \in B : Cardinality(T) <= Cardinality(U)
  BY <1>3
<1>5. ASSUME NEW U \in SUBSET T, U \in B, U # T PROVE FALSE
  <2>1. IsFiniteSet(T)
    BY <1>1
  <2>2. Cardinality(U) < Cardinality(T)
    BY <1>5, <2>1, FS_Subset, <1>1
  <2> QED BY <2>2, <1>4, <1>1, <1>5
<1> QED BY <1>4, <1>5

\* h folds F over the subsets of S, taking the element ch picks first.
FoldsAt(h, s, b, F, ch) == h[s] = IF s = {} THEN b ELSE F[<<ch[s], h[s \ {ch[s]}]>>]

\* A fold over a finite set that takes its elements in the order of ch exists: built
\* up to each cardinality in turn.
LEMMA FoldExists ==
  ASSUME NEW S, IsFiniteSet(S), NEW V, NEW b \in V, NEW F \in [S \X V -> V],
         NEW ch, \A s \in SUBSET S : s # {} => ch[s] \in s
  PROVE \E h \in [SUBSET S -> V] : \A s \in SUBSET S : FoldsAt(h, s, b, F, ch)
<1> DEFINE Upto(n) == \E h \in [SUBSET S -> V] :
                    \A s \in SUBSET S : Cardinality(s) <= n => FoldsAt(h, s, b, F, ch)
<1> DEFINE G == {n \in Nat : Upto(n)}
<1>1. \A s \in SUBSET S : IsFiniteSet(s) /\ Cardinality(s) \in Nat
  BY FS_Subset, FS_CardinalityType
<1>2. \A s \in SUBSET S : s # {} => /\ s \ {ch[s]} \in SUBSET S
                                    /\ Cardinality(s \ {ch[s]}) = Cardinality(s) - 1
                                    /\ Cardinality(s) # 0
  <2> TAKE s \in SUBSET S
  <2> HAVE s # {}
  <2>1. ch[s] \in s
    OBVIOUS
  <2>2. Cardinality(s \ {ch[s]}) = Cardinality(s) - 1
    BY <1>1, <2>1, FS_RemoveElement
  <2>3. Cardinality(s \ {ch[s]}) \in Nat
    BY <1>1
  <2> QED BY <2>2, <2>3, <1>1
<1>3. Upto(0)
  <2> DEFINE h0 == [s \in SUBSET S |-> b]
  <2>1. h0 \in [SUBSET S -> V]
    OBVIOUS
  <2>2. ASSUME NEW s \in SUBSET S, Cardinality(s) <= 0 PROVE FoldsAt(h0, s, b, F, ch)
    <3>1. Cardinality(s) = 0
      BY <1>1, <2>2
    <3>2. s = {}
      BY <1>2, <3>1
    <3> QED BY <3>2 DEF FoldsAt
  <2> HIDE DEF h0
  <2> QED BY <2>1, <2>2
<1>4. ASSUME NEW n \in Nat, Upto(n) PROVE Upto(n + 1)
  <2>1. PICK h \in [SUBSET S -> V] :
               \A s \in SUBSET S : Cardinality(s) <= n => FoldsAt(h, s, b, F, ch)
    BY <1>4
  <2> DEFINE h1 == [s \in SUBSET S |-> IF s = {} THEN b ELSE F[<<ch[s], h[s \ {ch[s]}]>>]]
  <2>2. \A s \in SUBSET S : s # {} => F[<<ch[s], h[s \ {ch[s]}]>>] \in V
    <3> TAKE s \in SUBSET S
    <3> HAVE s # {}
    <3>1. ch[s] \in S /\ h[s \ {ch[s]}] \in V
      BY <1>2
    <3> QED BY <3>1
  <2>3. h1 \in [SUBSET S -> V]
    BY <2>2
  <2>4. \A s \in SUBSET S : Cardinality(s) <= n => h1[s] = h[s]
    BY <2>1 DEF FoldsAt
  <2>5. ASSUME NEW s \in SUBSET S, Cardinality(s) <= n + 1 PROVE FoldsAt(h1, s, b, F, ch)
    <3>0. h1[s] = IF s = {} THEN b ELSE F[<<ch[s], h[s \ {ch[s]}]>>]
      OBVIOUS
    <3> HIDE DEF h1
    <3>1. CASE s = {}
      BY <3>0, <3>1 DEF FoldsAt
    <3>2. CASE s # {}
      <4>1. /\ s \ {ch[s]} \in SUBSET S /\ Cardinality(s) \in Nat
            /\ Cardinality(s \ {ch[s]}) = Cardinality(s) - 1
        BY <1>1, <1>2, <3>2
      <4>2. Cardinality(s \ {ch[s]}) <= n
        BY <4>1, <2>5
      <4>3. h1[s \ {ch[s]}] = h[s \ {ch[s]}]
        BY <2>4, <4>1, <4>2
      <4> QED BY <4>3, <3>0, <3>2 DEF FoldsAt
    <3> QED BY <3>1, <3>2
  <2> HIDE DEF h1
  <2> QED BY <2>3, <2>5
<1>5. Nat \subseteq G
  <2>1. 0 \in G
    BY <1>3
  <2>2. \A n \in Nat : n \in G => n + 1 \in G
    <3> HIDE DEF Upto
    <3> QED BY <1>4
  <2> HIDE DEF G
  <2> QED BY <2>1, <2>2, SetNatInduction
<1>6. Upto(Cardinality(S))
  <2>1. Cardinality(S) \in Nat
    BY <1>1
  <2> HIDE DEF Upto
  <2> QED BY <2>1, <1>5
<1>7. \A s \in SUBSET S : Cardinality(s) <= Cardinality(S)
  BY FS_Subset
<1> QED BY <1>6, <1>7

\* A sum as the recursive function it abbreviates.
SumIter(f, S) ==
  CHOOSE iter : iter = [s \in SUBSET S |->
      IF s = {} THEN 0 ELSE f[CHOOSE x \in s : TRUE] + iter[s \ {CHOOSE x \in s : TRUE}]]

\* A sum is the recursion that the fold stands for.
LEMMA SumIsIter ==
  ASSUME NEW f, NEW S
  PROVE SumFunctionOnSet(f, S) = SumIter(f, S)[S]
  BY DEF SumIter, SumFunctionOnSet, FoldFunctionOnSet, MapThenFoldSet

SumsAt(h, s, f) ==
  h[s] = IF s = {} THEN 0 ELSE f[CHOOSE x \in s : TRUE] + h[s \ {CHOOSE x \in s : TRUE}]

\* The recursion has a solution: it peels off an element at a time.
LEMMA SumIterStep ==
  ASSUME NEW f, NEW S, IsFiniteSet(S), \A x \in S : f[x] \in Int
  PROVE \A s \in SUBSET S : SumsAt(SumIter(f, S), s, f)
<1> DEFINE ch == [s \in SUBSET S |-> CHOOSE x \in s : TRUE]
<1> DEFINE F == [p \in S \X Int |-> f[p[1]] + p[2]]
<1>1. \A s \in SUBSET S : s # {} => ch[s] \in s /\ ch[s] = CHOOSE x \in s : TRUE
  OBVIOUS
<1>2. F \in [S \X Int -> Int]
  OBVIOUS
<1>3. PICK h \in [SUBSET S -> Int] : \A s \in SUBSET S : FoldsAt(h, s, 0, F, ch)
  <2>1. 0 \in Int /\ \A s \in SUBSET S : s # {} => ch[s] \in s
    BY <1>1
  <2> HIDE DEF F, ch
  <2> QED BY <1>2, <2>1, FoldExists
<1>4. ASSUME NEW s \in SUBSET S
      PROVE h[s] = IF s = {} THEN 0
                   ELSE f[CHOOSE x \in s : TRUE] + h[s \ {CHOOSE x \in s : TRUE}]
  <2>1. CASE s = {}
    BY <1>3, <2>1 DEF FoldsAt
  <2>2. CASE s # {}
    <3>1. h[s] = F[<<ch[s], h[s \ {ch[s]}]>>]
      BY <1>3, <2>2 DEF FoldsAt
    <3>2. ch[s] \in S /\ h[s \ {ch[s]}] \in Int
      BY <1>1, <2>2
    <3>3. F[<<ch[s], h[s \ {ch[s]}]>>] = f[ch[s]] + h[s \ {ch[s]}]
      <4> HIDE DEF ch
      <4> QED BY <3>2
    <3> HIDE DEF F, ch
    <3> QED BY <3>1, <3>3, <1>1, <2>2
  <2> QED BY <2>1, <2>2
<1>5. h = [s \in SUBSET S |->
      IF s = {} THEN 0 ELSE f[CHOOSE x \in s : TRUE] + h[s \ {CHOOSE x \in s : TRUE}]]
  BY <1>4
<1> DEFINE g == SumIter(f, S)
<1>6. g = [s \in SUBSET S |->
      IF s = {} THEN 0 ELSE f[CHOOSE x \in s : TRUE] + g[s \ {CHOOSE x \in s : TRUE}]]
  BY <1>5 DEF SumIter
<1> HIDE DEF g
<1>7. \A s \in SUBSET S : SumsAt(g, s, f)
  BY <1>6 DEF SumsAt
<1> QED BY <1>7 DEF g


\* The sum over a part does not depend on the set it is a part of.
LEMMA SumPicks ==
  ASSUME NEW f, NEW S, IsFiniteSet(S), \A x \in S : f[x] \in Int, NEW T \in SUBSET S
  PROVE SumIter(f, T)[T] = SumIter(f, S)[T]
<1> DEFINE g == SumIter(f, T)
<1> DEFINE h == SumIter(f, S)
<1>1. IsFiniteSet(T) /\ \A x \in T : f[x] \in Int
  BY FS_Subset
<1>2. /\ \A s \in SUBSET T : SumsAt(g, s, f)
      /\ \A s \in SUBSET T : SumsAt(h, s, f)
  BY <1>1, SumIterStep
<1>3. \A s \in SUBSET T : s = {} => g[s] = 0 /\ h[s] = 0
  BY <1>2 DEF SumsAt
<1> HIDE DEF g, h
<1> DEFINE Bad == {s \in SUBSET T : g[s] # h[s]}
<1>5. SUFFICES ASSUME Bad # {} PROVE FALSE
  BY DEF g, h
<1>6. PICK s \in Bad : \A u \in SUBSET s : u \in Bad => u = s
  <2>1. Bad \in SUBSET SUBSET T
    OBVIOUS
  <2> HIDE DEF Bad
  <2> QED BY <1>1, <1>5, <2>1, SetSubsetMin
<1>7. s # {}
  BY <1>3
<1> DEFINE x == CHOOSE x \in s : TRUE
<1>8. x \in s
  BY <1>7
<1>9. s \ {x} \notin Bad /\ s \ {x} \in SUBSET T
  BY <1>6, <1>8
<1>10. g[s \ {x}] = h[s \ {x}]
  BY <1>9
<1>11. g[s] = f[x] + g[s \ {x}] /\ h[s] = f[x] + h[s \ {x}]
  BY <1>2, <1>7 DEF SumsAt
<1>12. g[s] = h[s]
  BY <1>10, <1>11
<1> QED BY <1>12

\* The sum over no index is zero.
LEMMA SumEmpty ==
  ASSUME NEW f PROVE SumFunctionOnSet(f, {}) = 0
<1>1. IsFiniteSet({})
  BY FS_EmptySet
<1>2. SumsAt(SumIter(f, {}), {}, f)
  BY <1>1, SumIterStep
<1>3. SumIter(f, {})[{}] = 0
  BY <1>2 DEF SumsAt
<1> QED BY <1>3, SumIsIter

\* A sum without its first element.
LEMMA SumChosen ==
  ASSUME NEW f, NEW S, IsFiniteSet(S), \A x \in S : f[x] \in Int,
         NEW T \in SUBSET S, T # {}
  PROVE LET c == CHOOSE x \in T : TRUE IN
        /\ c \in T
        /\ SumFunctionOnSet(f, T) = f[c] + SumFunctionOnSet(f, T \ {c})
<1> DEFINE c == CHOOSE x \in T : TRUE
<1> DEFINE h == SumIter(f, S)
<1>1. c \in T
  OBVIOUS
<1>2. SumFunctionOnSet(f, T) = h[T] /\ SumFunctionOnSet(f, T \ {c}) = h[T \ {c}]
  <2>1. T \ {c} \in SUBSET S
    OBVIOUS
  <2> HIDE DEF c
  <2> QED BY <2>1, SumIsIter, SumPicks
<1>3. h[T] = f[c] + h[T \ {c}]
  <2>1. SumsAt(h, T, f)
    BY SumIterStep
  <2> QED BY <2>1 DEF SumsAt
<1> HIDE DEF h, c
<1> QED BY <1>1, <1>2, <1>3 DEF c

\* Integers add up to an integer.
LEMMA SumInt ==
  ASSUME NEW f, NEW S, IsFiniteSet(S), \A x \in S : f[x] \in Int
  PROVE SumFunctionOnSet(f, S) \in Int
<1> DEFINE Bad == {T \in SUBSET S : SumFunctionOnSet(f, T) \notin Int}
<1>1. SUFFICES ASSUME Bad # {} PROVE FALSE
  OBVIOUS
<1>2. PICK T \in Bad : \A U \in SUBSET T : U \in Bad => U = T
  <2>1. Bad \in SUBSET SUBSET S
    OBVIOUS
  <2> HIDE DEF Bad
  <2> QED BY <1>1, <2>1, SetSubsetMin
<1>3. T # {}
  BY SumEmpty
<1>4. PICK c \in T : SumFunctionOnSet(f, T) = f[c] + SumFunctionOnSet(f, T \ {c})
  BY <1>3, SumChosen
<1>5. SumFunctionOnSet(f, T \ {c}) \in Int
  BY <1>2, <1>4
<1> QED BY <1>4, <1>5

\* A sum is one of its values and the sum of the others.
LEMMA SumRemove ==
  ASSUME NEW f, NEW S, IsFiniteSet(S), \A x \in S : f[x] \in Int, NEW x \in S
  PROVE SumFunctionOnSet(f, S) = f[x] + SumFunctionOnSet(f, S \ {x})
<1> DEFINE Z(T) == SumFunctionOnSet(f, T)
<1> DEFINE Bad == {T \in SUBSET S : \E y \in T : Z(T) # f[y] + Z(T \ {y})}
<1>0. \A T \in SUBSET S : Z(T) \in Int
  BY SumInt, FS_Subset
<1>1. SUFFICES ASSUME Bad # {} PROVE FALSE
  OBVIOUS
<1> HIDE DEF Z
<1>2. PICK T \in Bad : \A U \in SUBSET T : U \in Bad => U = T
  <2>1. Bad \in SUBSET SUBSET S
    OBVIOUS
  <2> HIDE DEF Bad
  <2> QED BY <1>1, <2>1, SetSubsetMin
<1>3. PICK y \in T : Z(T) # f[y] + Z(T \ {y})
  BY <1>2
<1>4. PICK c \in T : Z(T) = f[c] + Z(T \ {c})
  BY <1>3, SumChosen DEF Z
<1>5. c # y
  BY <1>3, <1>4
<1>6. \A U \in SUBSET T : U # T => \A z \in U : Z(U) = f[z] + Z(U \ {z})
  <2> SUFFICES ASSUME NEW U \in SUBSET T, U # T PROVE U \notin Bad
    OBVIOUS
  <2> HIDE DEF Bad
  <2> QED BY <1>2
<1>7. /\ Z(T \ {c}) = f[y] + Z((T \ {c}) \ {y})
      /\ Z(T \ {y}) = f[c] + Z((T \ {y}) \ {c})
  <2>1. T \ {c} \in SUBSET T /\ T \ {c} # T /\ y \in T \ {c}
    BY <1>5
  <2>2. T \ {y} \in SUBSET T /\ T \ {y} # T /\ c \in T \ {y}
    BY <1>5
  <2> QED BY <1>6, <2>1, <2>2
<1>8. (T \ {c}) \ {y} = (T \ {y}) \ {c}
  OBVIOUS
<1>9. f[c] \in Int /\ f[y] \in Int /\ Z((T \ {y}) \ {c}) \in Int
  BY <1>0
<1>10. Z(T \ {c}) = f[y] + Z((T \ {y}) \ {c})
  BY <1>7, <1>8
<1>11. f[c] + (f[y] + Z((T \ {y}) \ {c})) = f[y] + (f[c] + Z((T \ {y}) \ {c}))
  <2> HIDE DEF Bad
  <2> QED BY <1>9
<1> HIDE DEF Bad
<1> QED BY <1>3, <1>4, <1>7, <1>10, <1>11

\* A smaller value at every index makes a smaller sum.
LEMMA SumMonotonic ==
  ASSUME NEW f, NEW g, NEW S, IsFiniteSet(S),
         \A x \in S : f[x] \in Int /\ g[x] \in Int /\ f[x] <= g[x]
  PROVE SumFunctionOnSet(f, S) <= SumFunctionOnSet(g, S)
<1> DEFINE Y(T) == SumFunctionOnSet(f, T)
<1> DEFINE Z(T) == SumFunctionOnSet(g, T)
<1> DEFINE Bad == {T \in SUBSET S : ~(Y(T) <= Z(T))}
<1>1. \A T \in SUBSET S : IsFiniteSet(T) /\ Y(T) \in Int /\ Z(T) \in Int
  BY SumInt, FS_Subset
<1>2. Y({}) = 0 /\ Z({}) = 0
  BY SumEmpty
<1>3. \A T \in SUBSET S : \A x \in T :
        Y(T) = f[x] + Y(T \ {x}) /\ Z(T) = g[x] + Z(T \ {x})
  <2> SUFFICES ASSUME NEW T \in SUBSET S, NEW x \in T
               PROVE Y(T) = f[x] + Y(T \ {x}) /\ Z(T) = g[x] + Z(T \ {x})
    OBVIOUS
  <2>1. IsFiniteSet(T) /\ \A y \in T : f[y] \in Int /\ g[y] \in Int
    BY <1>1
  <2> QED BY <2>1, SumRemove
<1> HIDE DEF Y, Z
<1>4. SUFFICES ASSUME Bad # {} PROVE FALSE
  BY DEF Y, Z
<1>5. PICK T \in Bad : \A U \in SUBSET T : U \in Bad => U = T
  <2>1. Bad \in SUBSET SUBSET S
    OBVIOUS
  <2> HIDE DEF Bad
  <2> QED BY <1>4, <2>1, SetSubsetMin
<1>6. PICK x \in T : TRUE
  <2>1. ~(Y(T) <= Z(T))
    BY <1>5
  <2>2. T # {}
    <3> HIDE DEF Bad
    <3> QED BY <1>2, <2>1
  <2> QED BY <2>2
<1>7. T \ {x} \notin Bad /\ T \ {x} \in SUBSET S /\ T \in SUBSET S
  BY <1>5, <1>6
<1>8. Y(T \ {x}) <= Z(T \ {x})
  BY <1>7
<1>9. Y(T) <= Z(T)
  <2>1. Y(T) = f[x] + Y(T \ {x}) /\ Z(T) = g[x] + Z(T \ {x})
    BY <1>3, <1>6, <1>7
  <2>2. f[x] \in Int /\ g[x] \in Int /\ f[x] <= g[x]
    BY <1>6, <1>7
  <2>3. Y(T \ {x}) \in Int /\ Z(T \ {x}) \in Int
    BY <1>1, <1>7
  <2> HIDE DEF Bad
  <2> QED BY <2>1, <2>2, <2>3, <1>8
<1> QED BY <1>9

\* Functions that agree on the indices have one sum.
LEMMA SumSame ==
  ASSUME NEW f, NEW g, NEW S, IsFiniteSet(S), \A x \in S : f[x] \in Int /\ f[x] = g[x]
  PROVE SumFunctionOnSet(f, S) = SumFunctionOnSet(g, S)
<1>1. /\ \A x \in S : f[x] \in Int /\ g[x] \in Int /\ f[x] <= g[x]
      /\ \A x \in S : g[x] \in Int /\ f[x] \in Int /\ g[x] <= f[x]
  OBVIOUS
<1>2. /\ SumFunctionOnSet(f, S) <= SumFunctionOnSet(g, S)
      /\ SumFunctionOnSet(g, S) <= SumFunctionOnSet(f, S)
  BY <1>1, SumMonotonic
<1>3. SumFunctionOnSet(f, S) \in Int /\ SumFunctionOnSet(g, S) \in Int
  BY <1>1, SumInt
<1> QED BY <1>2, <1>3

\* A sum of natural numbers is one.
LEMMA SumNat ==
  ASSUME NEW f, NEW S, IsFiniteSet(S), \A x \in S : f[x] \in Nat
  PROVE SumFunctionOnSet(f, S) \in Nat
<1> DEFINE Bad == {T \in SUBSET S : SumFunctionOnSet(f, T) \notin Nat}
<1>1. SUFFICES ASSUME Bad # {} PROVE FALSE
  OBVIOUS
<1>2. PICK T \in Bad : \A U \in SUBSET T : U \in Bad => U = T
  <2>1. Bad \in SUBSET SUBSET S
    OBVIOUS
  <2> HIDE DEF Bad
  <2> QED BY <1>1, <2>1, SetSubsetMin
<1>3. T # {}
  <2>1. SumFunctionOnSet(f, {}) = 0
    BY SumEmpty
  <2>2. SumFunctionOnSet(f, T) \notin Nat
    BY <1>2
  <2> HIDE DEF Bad
  <2> QED BY <2>1, <2>2
<1>4. PICK c \in T : SumFunctionOnSet(f, T) = f[c] + SumFunctionOnSet(f, T \ {c})
  <2>1. T \in SUBSET S /\ \A x \in S : f[x] \in Int
    BY <1>2
  <2> HIDE DEF Bad
  <2> QED BY <1>3, <2>1, SumChosen
<1>5. SumFunctionOnSet(f, T \ {c}) \in Nat
  <2>1. T \ {c} \in SUBSET S /\ T \ {c} \in SUBSET T /\ T \ {c} # T
    BY <1>4
  <2>2. T \ {c} \notin Bad
    <3> HIDE DEF Bad
    <3> QED BY <1>2, <2>1
  <2> QED BY <2>1, <2>2
<1> QED BY <1>4, <1>5

\* An index that changes its value changes the sum by as much.
LEMMA SumChanges ==
  ASSUME NEW f, NEW g, NEW S, IsFiniteSet(S), NEW x \in S, f[x] \in Int, g[x] \in Int,
         \A y \in S \ {x} : f[y] \in Int /\ f[y] = g[y]
  PROVE SumFunctionOnSet(g, S) = SumFunctionOnSet(f, S) - f[x] + g[x]
<1>1. IsFiniteSet(S \ {x})
  BY FS_Subset
<1>2. SumFunctionOnSet(f, S \ {x}) = SumFunctionOnSet(g, S \ {x})
  BY <1>1, SumSame
<1>3. /\ SumFunctionOnSet(f, S) = f[x] + SumFunctionOnSet(f, S \ {x})
      /\ SumFunctionOnSet(g, S) = g[x] + SumFunctionOnSet(g, S \ {x})
  BY SumRemove
<1>4. SumFunctionOnSet(f, S \ {x}) \in Int
  BY <1>1, SumInt
<1> QED BY <1>2, <1>3, <1>4

\* Nothing adds up to nothing.
LEMMA SumZero ==
  ASSUME NEW f, NEW S, IsFiniteSet(S), \A x \in S : f[x] = 0
  PROVE SumFunctionOnSet(f, S) = 0
<1> DEFINE Bad == {T \in SUBSET S : SumFunctionOnSet(f, T) # 0}
<1>0. \A x \in S : f[x] \in Int
  OBVIOUS
<1>1. SUFFICES ASSUME Bad # {} PROVE FALSE
  OBVIOUS
<1>2. PICK T \in Bad : \A U \in SUBSET T : U \in Bad => U = T
  <2>1. Bad \in SUBSET SUBSET S
    OBVIOUS
  <2> HIDE DEF Bad
  <2> QED BY <1>1, <2>1, SetSubsetMin
<1>3. T # {}
  BY SumEmpty
<1>4. PICK c \in T : SumFunctionOnSet(f, T) = f[c] + SumFunctionOnSet(f, T \ {c})
  BY <1>0, <1>3, SumChosen
<1>5. SumFunctionOnSet(f, T \ {c}) = 0
  BY <1>2, <1>4
<1> QED
  BY <1>2, <1>4, <1>5

\* Shares that are c times the values divided by w, rounded down, add up to the whole
\* divided by w, less one for each at most.
LEMMA SumShares ==
    ASSUME NEW f, NEW g, NEW S, IsFiniteSet(S), NEW c \in Int, NEW w \in Nat \ {0},
           \A x \in S : /\ f[x] \in Int /\ g[x] \in Int
                        /\ w * g[x] <= c * f[x] /\ c * f[x] <= w * g[x] + (w - 1)
    PROVE  /\ w * SumFunctionOnSet(g, S) <= c * SumFunctionOnSet(f, S)
           /\ c * SumFunctionOnSet(f, S)
                <= w * SumFunctionOnSet(g, S) + (w - 1) * Cardinality(S)
  <1> DEFINE Y(T) == SumFunctionOnSet(f, T)
             Z(T) == SumFunctionOnSet(g, T)
             N(T) == Cardinality(T)
             Good(T) == w * Z(T) <= c * Y(T) /\ c * Y(T) <= w * Z(T) + (w - 1) * N(T)
             Bad == {T \in SUBSET S : ~Good(T)}
  <1>1. SUFFICES ASSUME Bad # {} PROVE FALSE
    <2>1. S \in SUBSET S /\ S \notin Bad
      BY <1>1
    <2> QED
      BY <2>1
  <1>2. PICK T \in Bad : \A U \in SUBSET T : U \in Bad => U = T
    <2>1. Bad \in SUBSET SUBSET S
      OBVIOUS
    <2> HIDE DEF Bad
    <2> QED
      BY <1>1, <2>1, SetSubsetMin
  <1>3. \A U \in SUBSET S : IsFiniteSet(U) /\ Y(U) \in Int /\ Z(U) \in Int /\ N(U) \in Nat
    BY FS_Subset, FS_CardinalityType, SumInt
  <1>4. CASE T = {}
    <2>1. Y(T) = 0 /\ Z(T) = 0 /\ N(T) = 0
      BY <1>4, SumEmpty, FS_EmptySet
    <2> HIDE DEF Y, Z, N
    <2>2. Good(T)
      BY <2>1
    <2> QED
      BY <1>2, <2>2
  <1>5. CASE T # {}
    <2>1. PICK x \in T : TRUE
      BY <1>5
    <2> DEFINE U == T \ {x}
    <2>2. T \in SUBSET S /\ U \in SUBSET S /\ U \in SUBSET T /\ U # T /\ IsFiniteSet(T) /\ x \in S
      BY <1>2, <1>3, <2>1
    <2>3. Good(U)
      BY <1>2, <2>2
    <2>4. Y(T) = f[x] + Y(U) /\ Z(T) = g[x] + Z(U)
      BY <2>1, <2>2, SumRemove
    <2>5. N(T) = N(U) + 1
      <3>1. N(U) = N(T) - 1
        BY <2>1, <2>2, FS_RemoveElement
      <3>2. N(T) \in Nat
        BY <1>3, <2>2
      <3> QED
        BY <3>1, <3>2
    <2>6. /\ f[x] \in Int /\ g[x] \in Int
          /\ w * g[x] <= c * f[x] /\ c * f[x] <= w * g[x] + (w - 1)
      BY <2>2
    <2>7. Y(U) \in Int /\ Z(U) \in Int /\ N(U) \in Nat
      BY <1>3, <2>2
    <2> HIDE DEF Y, Z, N, U
    <2>8. /\ w * (g[x] + Z(U)) = w * g[x] + w * Z(U)
          /\ c * (f[x] + Y(U)) = c * f[x] + c * Y(U)
          /\ (w - 1) * (N(U) + 1) = (w - 1) * N(U) + (w - 1)
      <3>1. \A a, b, d \in Int : a * (b + d) = a * b + a * d
        OBVIOUS
      <3> QED
        BY <2>6, <2>7, <3>1
    <2>9. Good(T)
      <3>1. /\ w * g[x] \in Int /\ w * Z(U) \in Int /\ c * f[x] \in Int /\ c * Y(U) \in Int
            /\ (w - 1) * N(U) \in Int
        BY <2>6, <2>7
      <3> QED
        BY ONLY <2>3, <2>4, <2>5, <2>6, <2>8, <3>1, w \in Nat
    <2> QED
      BY <1>2, <2>9
  <1> QED
    BY <1>4, <1>5

\* The part of T with the key y.
Keyed(T, key, y) == {x \in T : key[x] = y}

\* The parts of a set by their key add up to the whole.
LEMMA SumPartition ==
    ASSUME NEW S, IsFiniteSet(S), NEW v, \A x \in S : v[x] \in Int,
           NEW Y, IsFiniteSet(Y), NEW key, \A x \in S : key[x] \in Y
    PROVE  SumFunctionOnSet([y \in Y |-> SumFunctionOnSet(v, Keyed(S, key, y))], Y)
             = SumFunctionOnSet(v, S)
  <1> DEFINE Z(T) == SumFunctionOnSet(v, T)
             W(T) == [y \in Y |-> Z(Keyed(T, key, y))]
             Bad == {T \in SUBSET S : SumFunctionOnSet(W(T), Y) # Z(T)}
  <1>1. SUFFICES ASSUME Bad # {} PROVE FALSE
    <2>1. S \in SUBSET S /\ S \notin Bad
      BY <1>1
    <2> QED
      BY <2>1
  <1>2. PICK T \in Bad : \A U \in SUBSET T : U \in Bad => U = T
    <2>1. Bad \in SUBSET SUBSET S
      OBVIOUS
    <2> HIDE DEF Bad
    <2> QED
      BY <1>1, <2>1, SetSubsetMin
  <1>3. \A U \in SUBSET S : IsFiniteSet(U) /\ Z(U) \in Int
    BY FS_Subset, SumInt
  <1>4. \A U \in SUBSET S : \A y \in Y : W(U)[y] \in Int /\ Keyed(U, key, y) \in SUBSET S
    BY <1>3 DEF Keyed
  <1>5. CASE T = {}
    <2>1. \A y \in Y : Keyed(T, key, y) = {}
      BY <1>5 DEF Keyed
    <2>2. \A y \in Y : W(T)[y] = 0
      BY <2>1, SumEmpty
    <2> HIDE DEF W
    <2>3. SumFunctionOnSet(W(T), Y) = 0
      BY <2>2, SumZero
    <2>4. Z(T) = 0
      BY <1>5, SumEmpty
    <2> QED
      BY <1>2, <2>3, <2>4
  <1>6. CASE T # {}
    <2>1. PICK x \in T : TRUE
      BY <1>6
    <2> DEFINE U == T \ {x}
               k == key[x]
    <2>2. T \in SUBSET S /\ U \in SUBSET S /\ U \in SUBSET T /\ U # T /\ IsFiniteSet(T)
          /\ x \in S /\ k \in Y
      BY <1>2, <1>3, <2>1
    <2>3. SumFunctionOnSet(W(U), Y) = Z(U)
      BY <1>2, <2>2
    <2>4. Z(T) = v[x] + Z(U)
      BY <2>1, <2>2, SumRemove
    <2>5. \A y \in Y \ {k} : Keyed(U, key, y) = Keyed(T, key, y)
      BY DEF Keyed
    <2>6. W(T)[k] = v[x] + W(U)[k]
      <3>1. Keyed(U, key, k) = Keyed(T, key, k) \ {x} /\ x \in Keyed(T, key, k)
        BY <2>1 DEF Keyed
      <3>2. Keyed(T, key, k) \in SUBSET S /\ IsFiniteSet(Keyed(T, key, k))
        BY <1>3, <1>4, <2>2
      <3>3. Z(Keyed(T, key, k)) = v[x] + Z(Keyed(T, key, k) \ {x})
        BY <3>1, <3>2, SumRemove
      <3> QED
        BY <2>2, <3>1, <3>3
    <2>7. \A y \in Y \ {k} : W(U)[y] = W(T)[y] /\ W(U)[y] \in Int
      BY <1>4, <2>2, <2>5
    <2>8. W(U)[k] \in Int /\ W(T)[k] \in Int /\ v[x] \in Int
      BY <1>4, <2>2
    <2> HIDE DEF W, U, k, Bad
    <2>9. SumFunctionOnSet(W(T), Y) = SumFunctionOnSet(W(U), Y) - W(U)[k] + W(T)[k]
      BY <2>2, <2>7, <2>8, SumChanges
    <2>10. Z(U) \in Int
      BY <1>3, <2>2
    <2> HIDE DEF Z
    <2>11. SumFunctionOnSet(W(T), Y) = Z(T)
      BY ONLY <2>3, <2>4, <2>6, <2>8, <2>9, <2>10
    <2> QED
      BY <1>2, <2>11 DEF Bad
  <1> QED
    BY <1>5, <1>6

\* A set has at least as many elements as their values under a function.
LEMMA ImageIsNoLarger ==
    ASSUME NEW S, IsFiniteSet(S), NEW f, DOMAIN f = S
    PROVE  LET I == {f[x] : x \in S} IN
           IsFiniteSet(I) /\ Cardinality(I) \in Nat /\ Cardinality(I) <= Cardinality(S)
  <1> DEFINE I == {f[x] : x \in S}
             g == [x \in S |-> f[x]]
  <1>1. g \in Surjection(S, I)
    BY DEF Surjection
  <1> HIDE DEF g, I
  <1> QED
    BY <1>1, FS_Surjection, FS_CardinalityType DEF ExistsSurjection, I

\* Max is the greatest element.
LEMMA MaxIsGreatest ==
  ASSUME NEW n \in Nat, NEW T \in SUBSET (1..n), T # {}
  PROVE Max(T) \in T /\ \A y \in T : y <= Max(T)
<1> DEFINE D == {n - x : x \in T}
<1>1. D \in SUBSET Nat /\ D # {}
  <2>1. \A x \in T : x \in Nat /\ x <= n
    OBVIOUS
  <2>2. \A x \in T : n - x \in Nat
    BY <2>1
  <2> QED BY <2>2
<1>2. PICK m \in D : \A k \in D : m <= k
  <2> HIDE DEF D
  <2> QED BY <1>1, NatMin
<1>3. PICK x \in T : m = n - x
  BY <1>2
<1>4. \A y \in T : x >= y
  <2> TAKE y \in T
  <2>1. n - y \in D /\ y \in Nat /\ x \in Nat
    BY <1>3
  <2>2. n - x <= n - y
    <3> HIDE DEF D
    <3> QED BY <1>2, <1>3, <2>1
  <2> QED BY <2>1, <2>2
<1>5. Max(T) \in T /\ \A y \in T : Max(T) >= y
  <2>1. \E z \in T : \A y \in T : z >= y
    BY <1>4
  <2> QED BY <2>1 DEF Max
<1>6. \A y \in T : y \in Nat
  OBVIOUS
<1>7. \A y \in T : y <= Max(T)
  BY <1>5, <1>6
<1> QED BY <1>5, <1>7

\* The last index of a prefix, and the prefix without it.
LEMMA PrefixMax ==
  ASSUME NEW n \in Nat, NEW k \in 1..n
  PROVE Max(1..k) = k /\ (1..k) \ {k} = 1..(k - 1)
<1>1. Max(1..k) \in 1..k /\ \A y \in 1..k : y <= Max(1..k)
  <2>1. k \in Nat /\ 1..k \in SUBSET (1..k) /\ 1..k # {}
    OBVIOUS
  <2> QED BY <2>1, MaxIsGreatest
<1>2. k \in 1..k
  OBVIOUS
<1>3. Max(1..k) = k
  BY <1>1, <1>2
<1> QED BY <1>3

\* What a sequence holds is of its type.
LEMMA ElementIn ==
  ASSUME NEW S, NEW s \in Seq(S), NEW i \in DOMAIN s
  PROVE s[i] \in S /\ i \in Nat /\ i \in 1..Len(s) /\ Len(s) \in Nat
  OBVIOUS

\* One sequence behind another.
LEMMA ConcatIs ==
  ASSUME NEW S, NEW s \in Seq(S), NEW t \in Seq(S)
  PROVE /\ s \o t \in Seq(S)
        /\ Len(s \o t) = Len(s) + Len(t)
        /\ DOMAIN (s \o t) = 1..Len(s) + Len(t)
        /\ \A i \in 1..Len(s) : (s \o t)[i] = s[i]
        /\ \A i \in Len(s) + 1..Len(s) + Len(t) : (s \o t)[i] = t[i - Len(s)]
<1>1. s \o t \in Seq(S) /\ Len(s \o t) = Len(s) + Len(t)
  OBVIOUS
<1>2. \A i \in 1..Len(s) : (s \o t)[i] = s[i]
  OBVIOUS
<1>3. \A i \in Len(s) + 1..Len(s) + Len(t) : (s \o t)[i] = t[i - Len(s)]
  OBVIOUS
<1> QED BY <1>1, <1>2, <1>3
====
