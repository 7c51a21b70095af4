---------------------------- MODULE SumTheorems ----------------------------
(***************************************************************************)
(* Sums over finite sets (MapThenSumSet), for the proofs about amounts: a   *)
(* sum does not depend on the order in which the elements are taken, grows   *)
(* with its set, and depends only on the values of its elements.            *)
(*                                                                          *)
(* The library's induction principles take an operator, which no installed   *)
(* prover instantiates; the induction here is over sets of numbers, from     *)
(* the fact that the natural numbers are well founded.                       *)
(***************************************************************************)
EXTENDS Naturals, FiniteSetsExt, FiniteSetTheorems, TLAPS

\* The sum of f[x] for the x in S.
Total(f, S) == MapThenSumSet(LAMBDA x : f[x], S)

\* The recursion MapThenSumSet is defined by.
Pick(s) == CHOOSE x \in s : TRUE
Unfold(f, s, g) == IF s = {} THEN 0 ELSE f[Pick(s)] + g[s \ {Pick(s)}]
Unfolded(f, S, g) == [s \in SUBSET S |-> Unfold(f, s, g)]
Sums(f, S) == CHOOSE g : g = Unfolded(f, S, g)

LEMMA TotalIsRecursive == \A f, S : Total(f, S) = Sums(f, S)[S]
BY DEF Total, MapThenSumSet, MapThenFoldSet, Sums, Unfolded, Unfold, Pick

\* A set of numbers with 0 and the successor of each of its elements is Nat.
LEMMA NatSetInduction ==
  ASSUME NEW S \in SUBSET Nat, 0 \in S, \A n \in S : n + 1 \in S
  PROVE  S = Nat
<1> SUFFICES ASSUME S # Nat PROVE FALSE
  OBVIOUS
<1>1. PICK m \in Nat \ S : \A y \in Nat \ S : ~(<<y, m>> \in OpToRel(<, Nat))
  BY NatLessThanWellFounded, WFMin
<1>2. m # 0 /\ m - 1 \in Nat /\ m - 1 < m /\ m = (m - 1) + 1
  OBVIOUS
<1>3. <<m - 1, m>> \in OpToRel(<, Nat)
  BY <1>2 DEF OpToRel
<1>4. m - 1 \notin Nat \ S
  BY <1>1, <1>3
<1> QED
  BY <1>2, <1>4

LEMMA PickElement == \A s : s # {} => Pick(s) \in s
BY DEF Pick

\* Taking an element out of a nonempty finite set.
LEMMA Smaller ==
  ASSUME NEW s, IsFiniteSet(s), NEW x \in s
  PROVE  /\ IsFiniteSet(s \ {x}) /\ Cardinality(s) \in Nat /\ Cardinality(s) > 0
         /\ Cardinality(s \ {x}) = Cardinality(s) - 1
         /\ Cardinality(s \ {x}) \in Nat
<1>1. IsFiniteSet(s \ {x}) /\ Cardinality(s \ {x}) = Cardinality(s) - 1
  BY FS_RemoveElement
<1>2. Cardinality(s) \in Nat /\ Cardinality(s \ {x}) \in Nat
  BY <1>1, FS_CardinalityType
<1> QED
  BY <1>1, <1>2

LEMMA Subsets ==
  ASSUME NEW S, IsFiniteSet(S), NEW s \in SUBSET S
  PROVE  /\ IsFiniteSet(s) /\ Cardinality(s) \in Nat
         /\ Cardinality(s) <= Cardinality(S) /\ Cardinality(S) \in Nat
         /\ Cardinality(s) = 0 <=> s = {}
<1>1. IsFiniteSet(s) /\ Cardinality(s) <= Cardinality(S)
  BY FS_Subset
<1> QED
  BY <1>1, FS_CardinalityType, FS_EmptySet

-----------------------------------------------------------------------------
(* The recursion has a solution. *)

\* The sets of at most n elements.
UpTo(S, n) == {s \in SUBSET S : Cardinality(s) <= n}
SolvesUpTo(f, S, n, g) == g = [s \in UpTo(S, n) |-> Unfold(f, s, g)]

LEMMA SolutionUpTo ==
  ASSUME NEW S, IsFiniteSet(S), NEW f
  PROVE  \A n \in Nat : \E g : SolvesUpTo(f, S, n, g)
<1> DEFINE N == {n \in Nat : \E g : SolvesUpTo(f, S, n, g)}
<1>1. 0 \in N
  <2> DEFINE g == [s \in UpTo(S, 0) |-> 0]
  <2>1. \A s \in UpTo(S, 0) : s = {}
    BY Subsets DEF UpTo
  <2>2. \A s \in UpTo(S, 0) : Unfold(f, s, g) = 0
    BY <2>1 DEF Unfold
  <2>3. g = [s \in UpTo(S, 0) |-> Unfold(f, s, g)]
    BY <2>2
  <2> QED
    BY <2>3 DEF SolvesUpTo
<1>2. ASSUME NEW n \in N PROVE n + 1 \in N
  <2>1. PICK g : SolvesUpTo(f, S, n, g)
    OBVIOUS
  <2> DEFINE h == [s \in UpTo(S, n + 1) |-> Unfold(f, s, g)]
  <2>2. ASSUME NEW s \in UpTo(S, n + 1) PROVE Unfold(f, s, g) = Unfold(f, s, h)
    <3>1. CASE s = {}
      BY <3>1 DEF Unfold
    <3>2. CASE s # {}
      <4> DEFINE t == s \ {Pick(s)}
      <4>1. s \in SUBSET S /\ Cardinality(s) <= n + 1 /\ Pick(s) \in s
        BY <3>2, PickElement DEF UpTo
      <4>2. IsFiniteSet(s)
        BY <4>1, Subsets
      <4>3. t \in SUBSET S /\ Cardinality(t) \in Nat /\ Cardinality(t) <= n
        BY <4>1, <4>2, Smaller
      <4>4. t \in UpTo(S, n) /\ t \in UpTo(S, n + 1)
        BY <4>3 DEF UpTo
      <4>5. g[t] = Unfold(f, t, g)
        BY <2>1, <4>4 DEF SolvesUpTo
      <4>6. h[t] = Unfold(f, t, g)
        BY <4>4
      <4> QED
        BY <4>5, <4>6 DEF Unfold
    <3> QED
      BY <3>1, <3>2
  <2>3. h = [s \in UpTo(S, n + 1) |-> Unfold(f, s, h)]
    BY <2>2
  <2> HIDE DEF h
  <2> QED
    BY <2>3 DEF SolvesUpTo
<1> HIDE DEF N
<1>3. N \in SUBSET Nat
  BY DEF N
<1>4. N = Nat
  BY <1>1, <1>2, <1>3, NatSetInduction
<1> QED
  BY <1>4 DEF N

LEMMA SumsUnfold ==
  ASSUME NEW S, IsFiniteSet(S), NEW f
  PROVE  \A s \in SUBSET S : Sums(f, S)[s] = Unfold(f, s, Sums(f, S))
<1>1. Cardinality(S) \in Nat
  BY FS_CardinalityType
<1>2. UpTo(S, Cardinality(S)) = SUBSET S
  BY Subsets DEF UpTo
<1>3. \E g : g = Unfolded(f, S, g)
  <2>1. PICK g : SolvesUpTo(f, S, Cardinality(S), g)
    BY <1>1, SolutionUpTo
  <2>2. g = [s \in UpTo(S, Cardinality(S)) |-> Unfold(f, s, g)]
    BY <2>1 DEF SolvesUpTo
  <2>3. g = Unfolded(f, S, g)
    BY <1>2, <2>2 DEF Unfolded
  <2> QED
    BY <2>3
<1>4. Sums(f, S) = Unfolded(f, S, Sums(f, S))
  BY <1>3 DEF Sums
<1> QED
  BY <1>4 DEF Unfolded
-----------------------------------------------------------------------------
(* What a sum is. *)

\* The sum over a subset is the same in whichever larger set it is computed.
LEMMA SumsOfSubset ==
  ASSUME NEW S, IsFiniteSet(S), NEW T \in SUBSET S, NEW f
  PROVE  Sums(f, S)[T] = Total(f, T)
<1> DEFINE g == Sums(f, S)
           h == Sums(f, T)
           N == {n \in Nat : \A s \in SUBSET T : Cardinality(s) = n => g[s] = h[s]}
<1>1. IsFiniteSet(T) /\ Cardinality(T) \in Nat
  BY Subsets
<1>2. \A s \in SUBSET T : g[s] = Unfold(f, s, g) /\ h[s] = Unfold(f, s, h)
  BY <1>1, SumsUnfold
<1> HIDE DEF g, h
<1>3. 0 \in N
  <2> SUFFICES ASSUME NEW s \in SUBSET T, Cardinality(s) = 0 PROVE g[s] = h[s]
    OBVIOUS
  <2>1. s = {}
    BY <1>1, Subsets
  <2> QED
    BY <1>2, <2>1 DEF Unfold
<1>4. ASSUME NEW n \in N PROVE n + 1 \in N
  <2> SUFFICES ASSUME NEW s \in SUBSET T, Cardinality(s) = n + 1 PROVE g[s] = h[s]
    OBVIOUS
  <2>1. s # {} /\ IsFiniteSet(s) /\ n \in Nat
    BY <1>1, Subsets
  <2>2. Pick(s) \in s
    BY <2>1, PickElement
  <2>3. s \ {Pick(s)} \in SUBSET T /\ Cardinality(s \ {Pick(s)}) = n
    BY <2>1, <2>2, Smaller
  <2>4. g[s \ {Pick(s)}] = h[s \ {Pick(s)}]
    BY <2>3
  <2> QED
    BY <1>2, <2>1, <2>4 DEF Unfold
<1> HIDE DEF N
<1>5. N \in SUBSET Nat
  BY DEF N
<1>6. N = Nat
  BY <1>3, <1>4, <1>5, NatSetInduction
<1>7. g[T] = h[T]
  BY <1>1, <1>6 DEF N
<1> QED
  BY <1>7, TotalIsRecursive DEF g, h

LEMMA TotalUnfold ==
  ASSUME NEW S, IsFiniteSet(S), NEW f
  PROVE  Total(f, S) = IF S = {} THEN 0 ELSE f[Pick(S)] + Total(f, S \ {Pick(S)})
<1>1. Total(f, S) = Unfold(f, S, Sums(f, S))
  BY TotalIsRecursive, SumsUnfold
<1>2. CASE S = {}
  BY <1>1, <1>2 DEF Unfold
<1>3. CASE S # {}
  <2>1. S \ {Pick(S)} \in SUBSET S
    OBVIOUS
  <2>2. Sums(f, S)[S \ {Pick(S)}] = Total(f, S \ {Pick(S)})
    BY <2>1, SumsOfSubset
  <2> QED
    BY <1>1, <1>3, <2>2 DEF Unfold
<1> QED
  BY <1>2, <1>3

LEMMA TotalEmpty == \A f : Total(f, {}) = 0
BY TotalUnfold, FS_EmptySet

LEMMA TotalType ==
  ASSUME NEW S, IsFiniteSet(S), NEW f, \A x \in S : f[x] \in Nat
  PROVE  Total(f, S) \in Nat
<1> DEFINE N == {n \in Nat : \A s \in SUBSET S : Cardinality(s) = n => Total(f, s) \in Nat}
<1>1. 0 \in N
  BY Subsets, TotalEmpty
<1>2. ASSUME NEW n \in N PROVE n + 1 \in N
  <2> SUFFICES ASSUME NEW s \in SUBSET S, Cardinality(s) = n + 1 PROVE Total(f, s) \in Nat
    OBVIOUS
  <2>1. s # {} /\ IsFiniteSet(s) /\ n \in Nat
    BY Subsets
  <2>2. Pick(s) \in s
    BY <2>1, PickElement
  <2>3. s \ {Pick(s)} \in SUBSET S /\ Cardinality(s \ {Pick(s)}) = n
    BY <2>1, <2>2, Smaller
  <2>4. Total(f, s \ {Pick(s)}) \in Nat /\ f[Pick(s)] \in Nat
    BY <2>2, <2>3
  <2>5. Total(f, s) = f[Pick(s)] + Total(f, s \ {Pick(s)})
    BY <2>1, TotalUnfold
  <2> QED
    BY <2>4, <2>5
<1> HIDE DEF N
<1>3. N \in SUBSET Nat
  BY DEF N
<1>4. N = Nat
  BY <1>1, <1>2, <1>3, NatSetInduction
<1> QED
  BY <1>4, FS_CardinalityType DEF N

\* One more element adds its value, whatever order the sum is computed in.
THEOREM TotalAdd ==
  ASSUME NEW D, IsFiniteSet(D), NEW f, \A x \in D : f[x] \in Nat,
         NEW S \in SUBSET D, NEW x \in D \ S
  PROVE  Total(f, S \cup {x}) = Total(f, S) + f[x]
<1> DEFINE N == {n \in Nat : \A s \in SUBSET D : Cardinality(s) = n =>
                   \A y \in D \ s : Total(f, s \cup {y}) = Total(f, s) + f[y]}
<1>1. \A s \in SUBSET D : IsFiniteSet(s) /\ Total(f, s) \in Nat
  BY Subsets, TotalType
<1>2. 0 \in N
  <2> SUFFICES ASSUME NEW y \in D PROVE Total(f, {} \cup {y}) = Total(f, {}) + f[y]
    BY Subsets
  <2>1. Pick({y}) = y
    BY PickElement
  <2>2. Total(f, {y}) = f[y] + Total(f, {y} \ {y})
    BY <1>1, <2>1, TotalUnfold
  <2>3. {y} \ {y} = {} /\ {} \cup {y} = {y}
    OBVIOUS
  <2> QED
    BY <2>2, <2>3, TotalEmpty
<1>3. ASSUME NEW n \in N PROVE n + 1 \in N
  <2> SUFFICES ASSUME NEW s \in SUBSET D, Cardinality(s) = n + 1, NEW y \in D \ s
               PROVE  Total(f, s \cup {y}) = Total(f, s) + f[y]
    OBVIOUS
  <2> DEFINE u == s \cup {y}
             z == Pick(u)
  <2>1. IsFiniteSet(s) /\ IsFiniteSet(u) /\ n \in Nat /\ u \in SUBSET D
    BY <1>1
  <2>2. z \in u
    BY PickElement
  <2>3. Total(f, u) = f[z] + Total(f, u \ {z})
    BY <2>1, TotalUnfold
  <2> HIDE DEF z
  <2>4. CASE z = y
    <3>1. u \ {z} = s
      BY <2>4
    <3> QED
      BY <1>1, <2>1, <2>3, <2>4, <3>1
  <2>5. CASE z # y
    <3> DEFINE t == s \ {z}
    <3>1. z \in s
      BY <2>2, <2>5
    <3>2. t \in SUBSET D /\ Cardinality(t) = n /\ y \in D \ t /\ z \in D \ t
      BY <2>1, <3>1, Smaller
    <3>3. u \ {z} = t \cup {y} /\ t \cup {z} = s
      BY <2>5, <3>1
    <3>4. Total(f, t \cup {y}) = Total(f, t) + f[y] /\ Total(f, t \cup {z}) = Total(f, t) + f[z]
      BY <3>2
    <3>5. Total(f, u) = f[z] + (Total(f, t) + f[y]) /\ Total(f, s) = Total(f, t) + f[z]
      BY <2>3, <3>3, <3>4
    <3>6. Total(f, t) \in Nat /\ f[z] \in Nat /\ f[y] \in Nat
      BY <1>1, <3>2
    <3> QED
      BY <3>5, <3>6
  <2> QED
    BY <2>4, <2>5
<1> HIDE DEF N
<1>4. N \in SUBSET Nat
  BY DEF N
<1>5. N = Nat
  BY <1>2, <1>3, <1>4, NatSetInduction
<1>6. Cardinality(S) \in Nat
  BY Subsets
<1> QED
  BY <1>5, <1>6 DEF N

\* A sum of natural numbers grows with its set.
THEOREM TotalMonotone ==
  ASSUME NEW D, IsFiniteSet(D), NEW f, \A x \in D : f[x] \in Nat,
         NEW S \in SUBSET D, NEW T \in SUBSET S
  PROVE  Total(f, T) <= Total(f, S)
<1> DEFINE N == {n \in Nat : \A s \in SUBSET D :
                   T \subseteq s /\ Cardinality(s \ T) = n => Total(f, T) <= Total(f, s)}
<1>1. \A s \in SUBSET D : IsFiniteSet(s) /\ Total(f, s) \in Nat
  BY Subsets, TotalType
<1>2. 0 \in N
  <2> SUFFICES ASSUME NEW s \in SUBSET D, T \subseteq s, Cardinality(s \ T) = 0
               PROVE  Total(f, T) <= Total(f, s)
    OBVIOUS
  <2>1. s \ T = {}
    BY Subsets
  <2>2. s = T
    BY <2>1
  <2> QED
    BY <1>1, <2>2
<1>3. ASSUME NEW n \in N PROVE n + 1 \in N
  <2> SUFFICES ASSUME NEW s \in SUBSET D, T \subseteq s, Cardinality(s \ T) = n + 1
               PROVE  Total(f, T) <= Total(f, s)
    OBVIOUS
  <2>1. s \ T # {} /\ IsFiniteSet(s \ T) /\ n \in Nat
    BY <1>1, Subsets
  <2>2. PICK x \in s \ T : TRUE
    BY <2>1
  <2> DEFINE t == s \ {x}
  <2>3. t \in SUBSET D /\ x \in D \ t /\ T \subseteq t /\ t \cup {x} = s
        /\ t \ T = (s \ T) \ {x}
    BY <2>2
  <2>4. Cardinality(t \ T) = n
    BY <2>1, <2>3, Smaller
  <2> HIDE DEF t
  <2>5. Total(f, T) <= Total(f, t)
    BY <2>3, <2>4
  <2>6. Total(f, s) = Total(f, t) + f[x]
    BY <2>3, TotalAdd
  <2>7. Total(f, T) \in Nat /\ Total(f, t) \in Nat /\ f[x] \in Nat
    BY <1>1, <2>3
  <2> QED
    BY <2>5, <2>6, <2>7
<1> HIDE DEF N
<1>4. N \in SUBSET Nat
  BY DEF N
<1>5. N = Nat
  BY <1>2, <1>3, <1>4, NatSetInduction
<1>6. Cardinality(S \ T) \in Nat /\ T \subseteq S
  BY Subsets
<1> QED
  BY <1>5, <1>6 DEF N

\* A sum depends on the values of its elements only.
THEOREM TotalSame ==
  ASSUME NEW S, IsFiniteSet(S), NEW f, NEW g, \A x \in S : f[x] = g[x]
  PROVE  Total(f, S) = Total(g, S)
<1> DEFINE N == {n \in Nat : \A s \in SUBSET S : Cardinality(s) = n => Total(f, s) = Total(g, s)}
<1>1. 0 \in N
  BY Subsets, TotalEmpty
<1>2. ASSUME NEW n \in N PROVE n + 1 \in N
  <2> SUFFICES ASSUME NEW s \in SUBSET S, Cardinality(s) = n + 1
               PROVE  Total(f, s) = Total(g, s)
    OBVIOUS
  <2>1. s # {} /\ IsFiniteSet(s) /\ n \in Nat
    BY Subsets
  <2>2. Pick(s) \in s
    BY <2>1, PickElement
  <2>3. s \ {Pick(s)} \in SUBSET S /\ Cardinality(s \ {Pick(s)}) = n
    BY <2>1, <2>2, Smaller
  <2>4. Total(f, s \ {Pick(s)}) = Total(g, s \ {Pick(s)}) /\ f[Pick(s)] = g[Pick(s)]
    BY <2>2, <2>3
  <2>5. /\ Total(f, s) = f[Pick(s)] + Total(f, s \ {Pick(s)})
        /\ Total(g, s) = g[Pick(s)] + Total(g, s \ {Pick(s)})
    BY <2>1, TotalUnfold
  <2> QED
    BY <2>4, <2>5
<1> HIDE DEF N
<1>3. N \in SUBSET Nat
  BY DEF N
<1>4. N = Nat
  BY <1>1, <1>2, <1>3, NatSetInduction
<1> QED
  BY <1>4, FS_CardinalityType DEF N

\* The sum over two sets without a common element.
THEOREM TotalUnion ==
  ASSUME NEW D, IsFiniteSet(D), NEW f, \A x \in D : f[x] \in Nat,
         NEW S \in SUBSET D, NEW T \in SUBSET D, S \cap T = {}
  PROVE  Total(f, S \cup T) = Total(f, S) + Total(f, T)
<1> DEFINE N == {n \in Nat : \A s \in SUBSET D : Cardinality(s) = n /\ S \cap s = {}
                   => Total(f, S \cup s) = Total(f, S) + Total(f, s)}
<1>1. \A s \in SUBSET D : IsFiniteSet(s) /\ Total(f, s) \in Nat
  BY Subsets, TotalType
<1>2. 0 \in N
  <2> SUFFICES ASSUME NEW s \in SUBSET D, Cardinality(s) = 0
               PROVE  Total(f, S \cup s) = Total(f, S) + Total(f, s)
    OBVIOUS
  <2>1. s = {} /\ S \cup {} = S
    BY Subsets
  <2> QED
    BY <1>1, <2>1, TotalEmpty
<1>3. ASSUME NEW n \in N PROVE n + 1 \in N
  <2> SUFFICES ASSUME NEW s \in SUBSET D, Cardinality(s) = n + 1, S \cap s = {}
               PROVE  Total(f, S \cup s) = Total(f, S) + Total(f, s)
    OBVIOUS
  <2>1. s # {} /\ IsFiniteSet(s) /\ n \in Nat
    BY <1>1, Subsets
  <2>2. PICK x \in s : TRUE
    BY <2>1
  <2> DEFINE t == s \ {x}
  <2>3. /\ t \in SUBSET D /\ x \in D \ t /\ t \cup {x} = s /\ S \cap t = {}
        /\ S \cup t \in SUBSET D /\ x \in D \ (S \cup t) /\ (S \cup t) \cup {x} = S \cup s
    BY <2>2
  <2>4. Cardinality(t) = n
    BY <2>1, <2>2, Smaller
  <2> HIDE DEF t
  <2>5. Total(f, S \cup t) = Total(f, S) + Total(f, t)
    BY <2>3, <2>4
  <2>6. /\ Total(f, t \cup {x}) = Total(f, t) + f[x]
        /\ Total(f, (S \cup t) \cup {x}) = Total(f, S \cup t) + f[x]
    BY <2>3, TotalAdd
  <2>7. Total(f, S) \in Nat /\ Total(f, t) \in Nat /\ f[x] \in Nat
    BY <1>1, <2>3
  <2>8. /\ Total(f, s) = Total(f, t) + f[x]
        /\ Total(f, S \cup s) = (Total(f, S) + Total(f, t)) + f[x]
    BY <2>3, <2>5, <2>6
  <2> QED
    BY <2>7, <2>8
<1> HIDE DEF N
<1>4. N \in SUBSET Nat
  BY DEF N
<1>5. N = Nat
  BY <1>2, <1>3, <1>4, NatSetInduction
<1>6. Cardinality(T) \in Nat
  BY Subsets
<1> QED
  BY <1>5, <1>6 DEF N

\* g gives the elements of S other names, with their values in h.
ValuesOf(g, S) == {g[x] : x \in S}
Renames(g, S, f, h) ==
    /\ \A x, y \in S : g[x] = g[y] => x = y
    /\ \A x \in S : f[x] \in Nat /\ h[g[x]] = f[x]

\* A sum does not depend on what its elements are called.
THEOREM TotalImage ==
  ASSUME NEW X, IsFiniteSet(X), NEW g, NEW f, NEW h, Renames(g, X, f, h)
  PROVE  Total(h, ValuesOf(g, X)) = Total(f, X)
<1> DEFINE Y == ValuesOf(g, X)
           N == {n \in Nat : \A s \in SUBSET X : Cardinality(s) = n
                   => Total(h, ValuesOf(g, s)) = Total(f, s)}
<1>0. /\ \A x, y \in X : g[x] = g[y] => x = y
      /\ \A x \in X : f[x] \in Nat /\ h[g[x]] = f[x]
  BY DEF Renames
<1>1. IsFiniteSet(Y) /\ \A y \in Y : h[y] \in Nat
  <2>1. IsFiniteSet(Y)
    <3> DEFINE k == [x \in X |-> g[x]]
    <3>1. k \in Surjection(X, Y)
      BY DEF ValuesOf, Surjection
    <3> QED
      BY <3>1, FS_Surjection
  <2>2. \A y \in Y : h[y] \in Nat
    BY <1>0 DEF ValuesOf
  <2> QED
    BY <2>1, <2>2
<1>2. 0 \in N
  <2> SUFFICES ASSUME NEW s \in SUBSET X, Cardinality(s) = 0
               PROVE  Total(h, ValuesOf(g, s)) = Total(f, s)
    OBVIOUS
  <2>1. s = {}
    BY Subsets
  <2>2. ValuesOf(g, s) = {}
    BY <2>1 DEF ValuesOf
  <2> QED
    BY <2>1, <2>2, TotalEmpty
<1>3. ASSUME NEW n \in N PROVE n + 1 \in N
  <2> SUFFICES ASSUME NEW s \in SUBSET X, Cardinality(s) = n + 1
               PROVE  Total(h, ValuesOf(g, s)) = Total(f, s)
    OBVIOUS
  <2>1. s # {} /\ IsFiniteSet(s) /\ n \in Nat
    BY Subsets
  <2>2. PICK x \in s : TRUE
    BY <2>1
  <2> DEFINE t == s \ {x}
  <2>3. t \in SUBSET X /\ x \in X \ t /\ t \cup {x} = s
    BY <2>2
  <2>4. Cardinality(t) = n
    BY <2>1, <2>2, Smaller
  <2> HIDE DEF t
  <2>5. /\ ValuesOf(g, t) \in SUBSET Y /\ g[x] \in Y \ ValuesOf(g, t)
        /\ ValuesOf(g, s) = ValuesOf(g, t) \cup {g[x]}
    BY <1>0, <2>3 DEF ValuesOf
  <2> HIDE DEF Y
  <2>6. Total(h, ValuesOf(g, t)) = Total(f, t)
    BY <2>3, <2>4
  <2>7. Total(f, s) = Total(f, t) + f[x]
    BY <1>0, <2>3, TotalAdd
  <2>8. Total(h, ValuesOf(g, s)) = Total(h, ValuesOf(g, t)) + h[g[x]]
    BY <1>1, <2>5, TotalAdd
  <2> QED
    BY <1>0, <2>3, <2>6, <2>7, <2>8
<1> HIDE DEF N
<1>4. N \in SUBSET Nat
  BY DEF N
<1>5. N = Nat
  BY <1>2, <1>3, <1>4, NatSetInduction
<1>6. Cardinality(X) \in Nat
  BY Subsets
<1> QED
  BY <1>5, <1>6 DEF N
=============================================================================
