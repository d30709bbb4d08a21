----------------------------- MODULE SumLemmas -----------------------------
(***************************************************************************)
(* Sums of a function over its finite domain, as the counters of the       *)
(* models are added up (SumFunction of the community modules): a sum does  *)
(* not depend on the order, it changes as its summands do, and it can be   *)
(* restricted, bounded and exchanged with another; counting is adding up   *)
(* ones.  A finite set can be written down in order, once and whole.       *)
(* Rounding down to a multiple.                                            *)
(***************************************************************************)
EXTENDS Integers, FiniteSets, Functions, FiniteSetTheorems, TLAPS

\* The element a fold takes next
Picked(T) == CHOOSE x \in T : TRUE

\* g[T] is the sum of f over T, for every subset T of S, the picked element last.
Folds(g, f, D) ==
    /\ g \in [D -> Int]
    /\ \A T \in D : g[T] = IF T = {} THEN 0 ELSE g[T \ {Picked(T)}] + f[Picked(T)]

\* The same with any element last.
Sums(g, f, S) ==
    /\ g \in [SUBSET S -> Int] /\ g[{}] = 0
    /\ \A T \in SUBSET S, x \in S : x \in T => g[T] = g[T \ {x}] + f[x]

Smaller(S, n) == {T \in SUBSET S : Cardinality(T) <= n}
----------------------------------------------------------------------------
\* A set of natural numbers that is not empty has a least element.
LEMMA LeastNatural ==
  ASSUME NEW S, S \subseteq Nat, S # {}
  PROVE  \E m \in S : \A k \in S : m <= k
  <1>1. PICK R : R = {ss \in Nat \X Nat : ss[1] < ss[2]}
    OBVIOUS
  <1>2. IsWellFoundedOn(R, Nat)
    BY <1>1, NatLessThanWellFounded DEF OpToRel
  <1>3. PICK m \in S : \A k \in S : <<k, m>> \notin R
    BY <1>2, WFMin
  <1>4. ASSUME NEW k \in S, k < m PROVE FALSE
    <2>1. PICK ss : ss = <<k, m>>
      OBVIOUS
    <2>2. ss \in Nat \X Nat /\ ss[1] = k /\ ss[2] = m
      BY <2>1
    <2>3. ss \in R
      BY <1>1, <1>4, <2>2
    <2>4. QED
      BY <1>3, <2>1, <2>3
  <1>5. QED
    BY <1>4

\* What is left of a finite set without one of its elements
LEMMA LeftOver ==
  ASSUME NEW S, IsFiniteSet(S), NEW T \in SUBSET S, NEW x \in T
  PROVE  /\ T \ {x} \in SUBSET S /\ IsFiniteSet(T)
         /\ Cardinality(T \ {x}) = Cardinality(T) - 1 /\ Cardinality(T) \in Nat \ {0}
         /\ Cardinality(T) <= Cardinality(S)
  <1>1. IsFiniteSet(T) /\ Cardinality(T) <= Cardinality(S)
    BY FS_Subset
  <1>2. Cardinality(T \ {x}) = Cardinality(T) - 1
    BY <1>1, FS_RemoveElement
  <1>3. Cardinality(T) \in Nat \ {0}
    BY <1>1, FS_CardinalityType, FS_EmptySet
  <1>4. QED
    BY <1>1, <1>2, <1>3

\* Induction on the subsets of a finite set
LEMMA SubsetInduction ==
  ASSUME NEW S, IsFiniteSet(S), NEW Good,
         \A T \in SUBSET S : (\A U \in SUBSET T : U # T => U \in Good) => T \in Good
  PROVE  SUBSET S \subseteq Good
  <1>1. SUFFICES ASSUME NEW B \in SUBSET S, B \notin Good PROVE FALSE
    OBVIOUS
  <1>2. PICK Sizes : Sizes = {n \in Nat : \E T \in SUBSET S : T \notin Good /\ Cardinality(T) = n}
    OBVIOUS
  <1>3. Cardinality(B) \in Nat
    BY FS_Subset, FS_CardinalityType
  <1>4. PICK m \in Sizes : \A k \in Sizes : m <= k
    BY <1>1, <1>2, <1>3, LeastNatural
  <1>5. PICK T \in SUBSET S : T \notin Good /\ Cardinality(T) = m
    BY <1>2
  <1>6. PICK U \in SUBSET T : U # T /\ U \notin Good
    BY <1>5
  <1>7. IsFiniteSet(T) /\ IsFiniteSet(U)
    BY FS_Subset
  <1>8. Cardinality(U) <= Cardinality(T) /\ Cardinality(U) # Cardinality(T)
    BY <1>6, <1>7, FS_Subset
  <1>9. Cardinality(U) \in Nat /\ m \in Nat
    BY <1>2, <1>7, FS_CardinalityType
  <1>10. Cardinality(U) \in Sizes /\ Cardinality(U) < m
    BY <1>2, <1>5, <1>6, <1>8, <1>9
  <1>11. QED
    BY <1>4, <1>9, <1>10
----------------------------------------------------------------------------
\* The recursion of a fold has a solution.
LEMMA FoldsExist ==
  ASSUME NEW S, IsFiniteSet(S), NEW f \in [S -> Int]
  PROVE  \E g : Folds(g, f, SUBSET S)
  <1>1. PICK Bad : Bad = {n \in Nat : ~ \E g : Folds(g, f, Smaller(S, n))}
    OBVIOUS
  <1>2. Bad = {}
    <2>1. SUFFICES ASSUME Bad # {} PROVE FALSE
      OBVIOUS
    <2>2. PICK m \in Bad : \A k \in Bad : m <= k
      BY <1>1, <2>1, LeastNatural
    <2>3. m \in Nat /\ ~ \E g : Folds(g, f, Smaller(S, m))
      BY <1>1
    <2>4. ASSUME NEW T \in Smaller(S, m), T # {}
          PROVE  /\ Picked(T) \in S /\ T \ {Picked(T)} \in SUBSET S /\ m # 0
                 /\ T \ {Picked(T)} \in Smaller(S, m - 1)
      <3>1. T \in SUBSET S /\ Cardinality(T) <= m /\ Picked(T) \in T
        BY <2>4 DEF Smaller, Picked
      <3>2. PICK p : p = Picked(T)
        OBVIOUS
      <3>3. /\ T \ {p} \in SUBSET S /\ Cardinality(T) \in Nat \ {0}
            /\ Cardinality(T \ {p}) = Cardinality(T) - 1
        BY <3>1, <3>2, LeftOver
      <3>4. QED
        BY <2>3, <3>1, <3>2, <3>3 DEF Smaller
    <2>5. CASE m = 0
      <3>1. PICK g : g = [T \in Smaller(S, m) |-> 0]
        OBVIOUS
      <3>2. Folds(g, f, Smaller(S, m))
        BY <2>4, <2>5, <3>1 DEF Folds
      <3>3. QED
        BY <2>3, <3>2
    <2>6. CASE m # 0
      <3>1. m - 1 \in Nat /\ m - 1 \notin Bad
        BY <2>2, <2>3, <2>6
      <3>2. PICK g : Folds(g, f, Smaller(S, m - 1))
        BY <1>1, <3>1
      <3>3. PICK h : h = [T \in Smaller(S, m) |-> IF T = {} THEN 0 ELSE g[T \ {Picked(T)}] + f[Picked(T)]]
        OBVIOUS
      <3>4. ASSUME NEW T \in Smaller(S, m) PROVE h[T] \in Int
        <4>1. CASE T = {}
          BY <3>3, <4>1
        <4>2. CASE T # {}
          BY <2>4, <3>2, <3>3, <4>2 DEF Folds
        <4>3. QED
          BY <4>1, <4>2
      <3>5. ASSUME NEW T \in Smaller(S, m - 1) PROVE T \in Smaller(S, m) /\ h[T] = g[T]
        <4>1. T \in Smaller(S, m)
          <5>1. IsFiniteSet(T)
            BY FS_Subset DEF Smaller
          <5>2. Cardinality(T) \in Nat
            BY <5>1, FS_CardinalityType
          <5>3. QED
            BY <2>3, <5>2 DEF Smaller
        <4>2. g[T] = IF T = {} THEN 0 ELSE g[T \ {Picked(T)}] + f[Picked(T)]
          BY <3>2 DEF Folds
        <4>3. QED
          BY <3>3, <4>1, <4>2
      <3>6. \A T \in Smaller(S, m) : h[T] = IF T = {} THEN 0 ELSE h[T \ {Picked(T)}] + f[Picked(T)]
        BY <2>4, <3>3, <3>5
      <3>7. Folds(h, f, Smaller(S, m))
        BY <3>3, <3>4, <3>6 DEF Folds
      <3>8. QED
        BY <2>3, <3>7
    <2>7. QED
      BY <2>5, <2>6
  <1>3. PICK n \in Nat : n = Cardinality(S)
    BY FS_CardinalityType
  <1>4. Smaller(S, n) = SUBSET S
    BY <1>3, FS_Subset DEF Smaller
  <1>5. n \notin Bad
    BY <1>2
  <1>6. QED
    BY <1>1, <1>3, <1>4, <1>5

\* The order of the summands does not matter.
LEMMA AnyLast ==
  ASSUME NEW S, IsFiniteSet(S), NEW f \in [S -> Int], NEW g, Folds(g, f, SUBSET S)
  PROVE  Sums(g, f, S)
  <1>1. PICK Good : Good = {T \in SUBSET S : \A x \in T : g[T] = g[T \ {x}] + f[x]}
    OBVIOUS
  <1>2. ASSUME NEW T \in SUBSET S, \A U \in SUBSET T : U # T => U \in Good PROVE T \in Good
    <2>1. SUFFICES ASSUME NEW x \in T PROVE g[T] = g[T \ {x}] + f[x]
      BY <1>1
    <2>2. PICK e : e = Picked(T)
      OBVIOUS
    <2>3. e \in T /\ g[T] = g[T \ {e}] + f[e]
      BY <2>2 DEF Folds, Picked
    <2>4. CASE x = e
      BY <2>3, <2>4
    <2>5. CASE x # e
      <3>1. PICK U, V, W : U = T \ {e} /\ V = T \ {x} /\ W = U \ {x}
        OBVIOUS
      <3>2. /\ U \in Good /\ V \in Good /\ x \in U /\ e \in V /\ W = V \ {e}
            /\ W \in SUBSET S /\ V \in SUBSET S
        BY <1>2, <2>3, <2>5, <3>1
      <3>3. g[U] = g[W] + f[x] /\ g[V] = g[W] + f[e]
        BY <1>1, <3>1, <3>2
      <3>4. g[W] \in Int /\ f[x] \in Int /\ f[e] \in Int
        BY <2>3, <3>2 DEF Folds
      <3>5. QED
        BY <2>3, <3>1, <3>3, <3>4
    <2>6. QED
      BY <2>4, <2>5
  <1>3. SUBSET S \subseteq Good
    BY <1>2, SubsetInduction
  <1>4. {} \in SUBSET S
    OBVIOUS
  <1>5. g[{}] = 0
    BY <1>4 DEF Folds
  <1>6. QED
    BY <1>1, <1>3, <1>5 DEF Folds, Sums

\* What SumFunction computes
LEMMA SumIs ==
  ASSUME NEW S, IsFiniteSet(S), NEW f \in [S -> Int]
  PROVE  \E g : Sums(g, f, S) /\ SumFunction(f) = g[S]
  <1> DEFINE Eq(g) == g = [T \in SUBSET S |-> IF T = {} THEN 0 ELSE f[Picked(T)] + g[T \ {Picked(T)}]]
  <1>1. PICK g : Folds(g, f, SUBSET S)
    BY FoldsExist
  <1>2. ASSUME NEW T \in SUBSET S, T # {}
        PROVE g[T] = f[Picked(T)] + g[T \ {Picked(T)}]
    <2>1. Picked(T) \in S /\ T \ {Picked(T)} \in SUBSET S
      BY <1>2 DEF Picked
    <2>2. f[Picked(T)] \in Int /\ g[T \ {Picked(T)}] \in Int
      BY <1>1, <2>1 DEF Folds
    <2>3. QED
      BY <1>1, <1>2, <2>2 DEF Folds
  <1>3. \A T \in SUBSET S : g[T] = IF T = {} THEN 0 ELSE f[Picked(T)] + g[T \ {Picked(T)}]
    BY <1>1, <1>2 DEF Folds
  <1>4. Eq(g)
    BY <1>1, <1>3 DEF Folds
  <1>5. PICK c : c = CHOOSE e : Eq(e)
    OBVIOUS
  <1>6. Eq(c)
    BY <1>4, <1>5
  <1>7. DOMAIN f = S
    OBVIOUS
  <1>8. SumFunction(f) = c[S]
    BY <1>5, <1>7 DEF SumFunction, SumFunctionOnSet, FoldFunctionOnSet, MapThenFoldSet, Picked
  <1>9. PICK Good : Good = {T \in SUBSET S : c[T] = g[T]}
    OBVIOUS
  <1>10. ASSUME NEW T \in SUBSET S, \A U \in SUBSET T : U # T => U \in Good PROVE T \in Good
    <2>1. CASE T = {}
      BY <1>3, <1>6, <1>9, <2>1
    <2>2. CASE T # {}
      <3>1. Picked(T) \in T
        BY <2>2 DEF Picked
      <3>2. PICK U : U = T \ {Picked(T)}
        OBVIOUS
      <3>3. c[U] = g[U]
        BY <1>9, <1>10, <3>1, <3>2
      <3>4. c[T] = f[Picked(T)] + c[U]
        BY <1>6, <2>2, <3>2
      <3>5. g[T] = f[Picked(T)] + g[U]
        BY <1>3, <2>2, <3>2
      <3>6. QED
        BY <1>9, <3>3, <3>4, <3>5
    <2>3. QED
      BY <2>1, <2>2
  <1>11. SUBSET S \subseteq Good
    BY <1>10, SubsetInduction
  <1>12. c[S] = g[S]
    BY <1>9, <1>11
  <1>13. QED
    BY <1>1, <1>8, <1>12, AnyLast
----------------------------------------------------------------------------
\* A sum of whole numbers is one.
LEMMA SumType ==
  ASSUME NEW S, IsFiniteSet(S), NEW f \in [S -> Int]
  PROVE  SumFunction(f) \in Int
  <1>1. PICK g : Sums(g, f, S) /\ SumFunction(f) = g[S]
    BY SumIs
  <1>2. QED
    BY <1>1 DEF Sums

\* A sum of nothing, and one of zeros
LEMMA SumZero ==
  ASSUME NEW S, IsFiniteSet(S), NEW f \in [S -> Int], \A x \in S : f[x] = 0
  PROVE  SumFunction(f) = 0
  <1>1. PICK g : Sums(g, f, S) /\ SumFunction(f) = g[S]
    BY SumIs
  <1>2. PICK Good : Good = {T \in SUBSET S : g[T] = 0}
    OBVIOUS
  <1>3. ASSUME NEW T \in SUBSET S, \A U \in SUBSET T : U # T => U \in Good PROVE T \in Good
    <2>1. CASE T = {}
      BY <1>1, <1>2, <2>1 DEF Sums
    <2>2. ASSUME NEW x \in T PROVE T \in Good
      <3>1. PICK U : U = T \ {x}
        OBVIOUS
      <3>2. g[U] = 0 /\ x \in S
        BY <1>2, <1>3, <3>1
      <3>3. g[T] = g[U] + f[x]
        BY <1>1, <3>1 DEF Sums
      <3>4. QED
        BY <1>2, <3>2, <3>3
    <2>3. QED
      BY <2>1, <2>2
  <1>4. SUBSET S \subseteq Good
    BY <1>3, SubsetInduction
  <1>5. QED
    BY <1>1, <1>2, <1>4

\* The sum of two functions
LEMMA SumPlus ==
  ASSUME NEW S, IsFiniteSet(S), NEW f \in [S -> Int], NEW h \in [S -> Int], NEW k \in [S -> Int],
         \A x \in S : k[x] = f[x] + h[x]
  PROVE  /\ SumFunction(f) \in Int /\ SumFunction(h) \in Int
         /\ SumFunction(k) = SumFunction(f) + SumFunction(h)
  <1>1. PICK a : Sums(a, f, S) /\ SumFunction(f) = a[S]
    BY SumIs
  <1>2. PICK b : Sums(b, h, S) /\ SumFunction(h) = b[S]
    BY SumIs
  <1>3. PICK c : Sums(c, k, S) /\ SumFunction(k) = c[S]
    BY SumIs
  <1>4. PICK Good : Good = {T \in SUBSET S : c[T] = a[T] + b[T]}
    OBVIOUS
  <1>5. ASSUME NEW T \in SUBSET S, \A U \in SUBSET T : U # T => U \in Good PROVE T \in Good
    <2>1. CASE T = {}
      <3>1. a[T] = 0 /\ b[T] = 0 /\ c[T] = 0
        BY <1>1, <1>2, <1>3, <2>1 DEF Sums
      <3>2. QED
        BY <1>4, <3>1
    <2>2. ASSUME NEW x \in T PROVE T \in Good
      <3>1. PICK U : U = T \ {x}
        OBVIOUS
      <3>2. c[U] = a[U] + b[U] /\ x \in S /\ U \in SUBSET S
        BY <1>4, <1>5, <3>1
      <3>3. a[T] = a[U] + f[x] /\ b[T] = b[U] + h[x] /\ c[T] = c[U] + k[x]
        BY <1>1, <1>2, <1>3, <3>1 DEF Sums
      <3>4. a[U] \in Int /\ b[U] \in Int /\ f[x] \in Int /\ h[x] \in Int
        BY <1>1, <1>2, <3>2 DEF Sums
      <3>5. QED
        BY <1>4, <3>2, <3>3, <3>4
    <2>3. QED
      BY <2>1, <2>2
  <1>6. SUBSET S \subseteq Good
    BY <1>5, SubsetInduction
  <1>7. a[S] \in Int /\ b[S] \in Int /\ c[S] = a[S] + b[S]
    BY <1>1, <1>2, <1>4, <1>6 DEF Sums
  <1>8. QED
    BY <1>1, <1>2, <1>3, <1>7

\* A single summand
LEMMA SumOne ==
  ASSUME NEW S, IsFiniteSet(S), NEW x \in S, NEW f \in [S -> Int], \A y \in S : y # x => f[y] = 0
  PROVE  SumFunction(f) = f[x]
  <1>1. PICK g : Sums(g, f, S) /\ SumFunction(f) = g[S]
    BY SumIs
  <1>2. PICK Good : Good = {T \in SUBSET S : g[T] = IF x \in T THEN f[x] ELSE 0}
    OBVIOUS
  <1>3. ASSUME NEW T \in SUBSET S, \A U \in SUBSET T : U # T => U \in Good PROVE T \in Good
    <2>1. CASE T = {}
      BY <1>1, <1>2, <2>1 DEF Sums
    <2>2. ASSUME NEW y \in T PROVE T \in Good
      <3>1. PICK U : U = T \ {y}
        OBVIOUS
      <3>2. g[U] = (IF x \in U THEN f[x] ELSE 0) /\ y \in S /\ f[y] \in Int /\ f[x] \in Int
        BY <1>2, <1>3, <3>1
      <3>3. g[T] = g[U] + f[y]
        BY <1>1, <3>1 DEF Sums
      <3>4. CASE y = x
        <4>1. g[U] = 0 /\ x \in T
          BY <3>1, <3>2, <3>4
        <4>2. QED
          BY <1>2, <3>2, <3>3, <3>4, <4>1
      <3>5. CASE y # x
        <4>1. f[y] = 0 /\ (x \in U <=> x \in T) /\ g[U] \in Int
          BY <3>1, <3>2, <3>5
        <4>2. g[T] = IF x \in T THEN f[x] ELSE 0
          BY <3>2, <3>3, <4>1
        <4>3. QED
          BY <1>2, <4>2
      <3>6. QED
        BY <3>4, <3>5
    <2>3. QED
      BY <2>1, <2>2
  <1>4. SUBSET S \subseteq Good
    BY <1>3, SubsetInduction
  <1>5. QED
    BY <1>1, <1>2, <1>4

\* Where one summand changes, the sum changes by as much.
LEMMA SumChanges ==
  ASSUME NEW S, IsFiniteSet(S), NEW f \in [S -> Int], NEW h \in [S -> Int], NEW x \in S,
         \A y \in S : y # x => h[y] = f[y]
  PROVE  SumFunction(f) \in Int /\ SumFunction(h) = SumFunction(f) + (h[x] - f[x])
  <1>1. PICK d : d = [y \in S |-> h[y] - f[y]]
    OBVIOUS
  <1>2. d \in [S -> Int] /\ d[x] = h[x] - f[x]
    BY <1>1
  <1>3. ASSUME NEW y \in S PROVE h[y] = f[y] + d[y] /\ (y # x => d[y] = 0)
    <2>1. h[y] \in Int /\ f[y] \in Int /\ d[y] = h[y] - f[y]
      BY <1>1
    <2>2. QED
      BY <2>1
  <1>4. SumFunction(f) \in Int /\ SumFunction(h) = SumFunction(f) + SumFunction(d)
    <2>1. d \in [S -> Int]
      BY <1>2
    <2>2. \A y \in S : h[y] = f[y] + d[y]
      BY <1>3
    <2>3. QED
      BY <2>1, <2>2, SumPlus
  <1>5. SumFunction(d) = d[x]
    BY <1>2, <1>3, SumOne
  <1>6. QED
    BY <1>2, <1>4, <1>5

\* A sum lies between none and all of its summands at their bound.
LEMMA SumBounded ==
  ASSUME NEW S, IsFiniteSet(S), NEW n \in Nat, NEW f \in [S -> Int], \A x \in S : f[x] \in 0 .. n
  PROVE  SumFunction(f) \in Nat /\ SumFunction(f) <= Cardinality(S) * n
  <1>1. PICK g : Sums(g, f, S) /\ SumFunction(f) = g[S]
    BY SumIs
  <1>2. PICK Good : Good = {T \in SUBSET S : g[T] \in 0 .. (Cardinality(T) * n)}
    OBVIOUS
  <1>3. ASSUME NEW T \in SUBSET S, \A U \in SUBSET T : U # T => U \in Good PROVE T \in Good
    <2>1. CASE T = {}
      <3>1. g[T] = 0 /\ Cardinality(T) = 0
        BY <1>1, <2>1, FS_EmptySet DEF Sums
      <3>2. 0 \in 0 .. (0 * n)
        OBVIOUS
      <3>3. QED
        BY <1>2, <3>1, <3>2
    <2>2. ASSUME NEW x \in T PROVE T \in Good
      <3>1. PICK U : U = T \ {x}
        OBVIOUS
      <3>2. Cardinality(U) = Cardinality(T) - 1 /\ Cardinality(T) \in Nat \ {0}
        BY <3>1, LeftOver
      <3>3. PICK p \in Int : p = Cardinality(U) * n
        BY <3>2
      <3>4. Cardinality(T) * n = p + n
        BY <3>2, <3>3
      <3>5. g[U] \in 0 .. p
        BY <1>2, <1>3, <3>1, <3>3
      <3>6. g[T] = g[U] + f[x] /\ f[x] \in 0 .. n
        BY <1>1, <3>1 DEF Sums
      <3>7. g[T] \in 0 .. (p + n)
        BY <3>3, <3>5, <3>6
      <3>8. QED
        BY <1>2, <3>4, <3>7
    <2>3. QED
      BY <2>1, <2>2
  <1>4. SUBSET S \subseteq Good
    BY <1>3, SubsetInduction
  <1>5. g[S] \in 0 .. (Cardinality(S) * n)
    BY <1>2, <1>4
  <1>6. Cardinality(S) * n \in Int
    BY FS_CardinalityType
  <1>7. QED
    BY <1>1, <1>5, <1>6

\* A sum of natural numbers is one.
LEMMA SumNat ==
  ASSUME NEW S, IsFiniteSet(S), NEW f \in [S -> Nat]
  PROVE  SumFunction(f) \in Nat
  <1>1. PICK g : Sums(g, f, S) /\ SumFunction(f) = g[S]
    BY SumIs
  <1>2. PICK Good : Good = {T \in SUBSET S : g[T] \in Nat}
    OBVIOUS
  <1>3. ASSUME NEW T \in SUBSET S, \A U \in SUBSET T : U # T => U \in Good PROVE T \in Good
    <2>1. CASE T = {}
      BY <1>1, <1>2, <2>1 DEF Sums
    <2>2. ASSUME NEW x \in T PROVE T \in Good
      <3>1. PICK U : U = T \ {x}
        OBVIOUS
      <3>2. g[U] \in Nat /\ f[x] \in Nat
        BY <1>2, <1>3, <3>1
      <3>3. g[T] = g[U] + f[x]
        BY <1>1, <3>1 DEF Sums
      <3>4. QED
        BY <1>2, <3>2, <3>3
    <2>3. QED
      BY <2>1, <2>2
  <1>4. SUBSET S \subseteq Good
    BY <1>3, SubsetInduction
  <1>5. QED
    BY <1>1, <1>2, <1>4

\* Summands that are zero can be left out.
LEMMA SumRestricted ==
  ASSUME NEW S, IsFiniteSet(S), NEW T \in SUBSET S, NEW f \in [S -> Int], NEW h \in [T -> Int],
         \A x \in T : h[x] = f[x], \A x \in S \ T : f[x] = 0
  PROVE  SumFunction(h) = SumFunction(f)
  <1>1. PICK a : Sums(a, f, S) /\ SumFunction(f) = a[S]
    BY SumIs
  <1>2. IsFiniteSet(T)
    BY FS_Subset
  <1>3. PICK b : Sums(b, h, T) /\ SumFunction(h) = b[T]
    BY <1>2, SumIs
  <1>4. PICK Good : Good = {U \in SUBSET S : a[U] = b[U \cap T]}
    OBVIOUS
  <1>5. ASSUME NEW U \in SUBSET S, \A V \in SUBSET U : V # U => V \in Good PROVE U \in Good
    <2>1. CASE U = {}
      <3>1. a[U] = 0 /\ U \cap T = {} /\ b[{}] = 0
        BY <1>1, <1>3, <2>1 DEF Sums
      <3>2. QED
        BY <1>4, <3>1
    <2>2. ASSUME NEW x \in U PROVE U \in Good
      <3>1. PICK V : V = U \ {x}
        OBVIOUS
      <3>2. a[V] = b[V \cap T]
        BY <1>4, <1>5, <3>1
      <3>3. a[U] = a[V] + f[x] /\ a[V] \in Int
        BY <1>1, <3>1 DEF Sums
      <3>4. CASE x \in T
        <4>1. PICK W : W = U \cap T
          OBVIOUS
        <4>2. W \in SUBSET T /\ x \in W /\ W \ {x} = V \cap T
          BY <3>1, <3>4, <4>1
        <4>3. b[W] = b[W \ {x}] + h[x]
          BY <1>3, <3>4, <4>2 DEF Sums
        <4>4. h[x] = f[x]
          BY <3>4
        <4>5. QED
          BY <1>4, <3>2, <3>3, <4>1, <4>2, <4>3, <4>4
      <3>5. CASE x \notin T
        <4>1. f[x] = 0 /\ U \cap T = V \cap T
          BY <3>1, <3>5
        <4>2. QED
          BY <1>4, <3>2, <3>3, <4>1
      <3>6. QED
        BY <3>4, <3>5
    <2>3. QED
      BY <2>1, <2>2
  <1>6. SUBSET S \subseteq Good
    BY <1>5, SubsetInduction
  <1>7. a[S] = b[T] /\ S \cap T = T
    BY <1>4, <1>6
  <1>8. QED
    BY <1>1, <1>3, <1>7

\* A sum may be taken class by class: s[x] is the class of x.
LEMMA SumByClass ==
  ASSUME NEW S, IsFiniteSet(S), NEW C, IsFiniteSet(C), NEW s \in [S -> C], NEW f \in [S -> Int]
  PROVE  SumFunction([c \in C |-> SumFunction([x \in S |-> IF s[x] = c THEN f[x] ELSE 0])]) = SumFunction(f)
  <1>1. PICK P : P = [c \in C |-> [x \in S |-> IF s[x] = c THEN f[x] ELSE 0]]
    OBVIOUS
  <1>2. \A c \in C : P[c] \in [S -> Int]
    BY <1>1
  <1>3. PICK B : B = [c \in C |-> CHOOSE g : Sums(g, P[c], S) /\ SumFunction(P[c]) = g[S]]
    OBVIOUS
  <1>4. ASSUME NEW c \in C PROVE Sums(B[c], P[c], S) /\ SumFunction(P[c]) = B[c][S]
    <2>1. \E g : Sums(g, P[c], S) /\ SumFunction(P[c]) = g[S]
      BY <1>2, SumIs
    <2>2. QED
      BY <1>3, <2>1
  <1>5. PICK a : Sums(a, f, S) /\ SumFunction(f) = a[S]
    BY SumIs
  <1>6. PICK R : R = [T \in SUBSET S |-> [c \in C |-> B[c][T]]]
    OBVIOUS
  <1>7. ASSUME NEW T \in SUBSET S PROVE R[T] \in [C -> Int] /\ \A c \in C : R[T][c] = B[c][T]
    BY <1>4, <1>6 DEF Sums
  <1>8. PICK Good : Good = {T \in SUBSET S : SumFunction(R[T]) = a[T]}
    OBVIOUS
  <1>9. ASSUME NEW T \in SUBSET S, \A U \in SUBSET T : U # T => U \in Good PROVE T \in Good
    <2>1. CASE T = {}
      <3>1. \A c \in C : R[T][c] = 0
        BY <1>4, <1>7, <2>1 DEF Sums
      <3>2. SumFunction(R[T]) = 0
        BY <1>7, <3>1, SumZero
      <3>3. a[T] = 0
        BY <1>5, <2>1 DEF Sums
      <3>4. QED
        BY <1>8, <3>2, <3>3
    <2>2. ASSUME NEW x \in T PROVE T \in Good
      <3>1. PICK U : U = T \ {x}
        OBVIOUS
      <3>2. SumFunction(R[U]) = a[U] /\ U \in SUBSET S /\ x \in S /\ s[x] \in C
        BY <1>8, <1>9, <3>1
      <3>3. a[T] = a[U] + f[x]
        BY <1>5, <3>1 DEF Sums
      <3>4. ASSUME NEW c \in C PROVE R[T][c] = R[U][c] + (IF s[x] = c THEN f[x] ELSE 0)
        <4>1. B[c][T] = B[c][U] + P[c][x]
          BY <1>4, <3>1, <3>2 DEF Sums
        <4>2. P[c][x] = IF s[x] = c THEN f[x] ELSE 0
          BY <1>1, <3>2
        <4>3. QED
          BY <1>7, <3>2, <4>1, <4>2
      <3>5. R[T] \in [C -> Int] /\ R[U] \in [C -> Int]
        BY <1>7, <3>2
      <3>6. \A c \in C : c # s[x] => R[T][c] = R[U][c]
        BY <3>4, <3>5
      <3>7. SumFunction(R[U]) \in Int /\ SumFunction(R[T]) = SumFunction(R[U]) + (R[T][s[x]] - R[U][s[x]])
        BY <3>2, <3>5, <3>6, SumChanges
      <3>8. R[T][s[x]] = R[U][s[x]] + f[x] /\ R[U][s[x]] \in Int /\ f[x] \in Int
        BY <3>2, <3>4, <3>5
      <3>9. QED
        BY <1>8, <3>2, <3>3, <3>7, <3>8
    <2>3. QED
      BY <2>1, <2>2
  <1>10. SUBSET S \subseteq Good
    BY <1>9, SubsetInduction
  <1>11. SumFunction(R[S]) = a[S]
    BY <1>8, <1>10
  <1>12. R[S] = [c \in C |-> SumFunction([x \in S |-> IF s[x] = c THEN f[x] ELSE 0])]
    <2>1. \A c \in C : R[S][c] = SumFunction(P[c])
      BY <1>4, <1>7
    <2>2. \A c \in C : P[c] = [x \in S |-> IF s[x] = c THEN f[x] ELSE 0]
      BY <1>1
    <2>3. \A c \in C : R[S][c] = SumFunction([x \in S |-> IF s[x] = c THEN f[x] ELSE 0])
      BY <2>1, <2>2
    <2>4. QED
      BY <1>7, <2>3
  <1>13. QED
    BY <1>5, <1>11, <1>12
\* One element more adds its value.
LEMMA SumOneMore ==
  ASSUME NEW S, IsFiniteSet(S), NEW x, x \notin S, NEW f \in [S -> Int],
         NEW h \in [S \cup {x} -> Int], \A y \in S : h[y] = f[y]
  PROVE  /\ SumFunction(f) \in Int
         /\ SumFunction(h) = SumFunction(f) + h[x]
  <1>1. PICK T : T = S \cup {x}
    OBVIOUS
  <1>2. IsFiniteSet(T)
    BY <1>1, FS_AddElement
  <1>3. PICK g : g = [y \in T |-> IF y = x THEN 0 ELSE h[y]]
    OBVIOUS
  <1>4. g \in [T -> Int] /\ h \in [T -> Int] /\ x \in T /\ S \in SUBSET T
    BY <1>1, <1>3
  <1>5. \A y \in T : y # x => h[y] = g[y]
    BY <1>3
  <1>6. SumFunction(g) \in Int /\ SumFunction(h) = SumFunction(g) + (h[x] - g[x])
    BY <1>2, <1>4, <1>5, SumChanges
  <1>7. (\A y \in S : f[y] = g[y]) /\ (\A y \in T \ S : g[y] = 0) /\ g[x] = 0 /\ h[x] \in Int
    BY <1>1, <1>3, <1>4
  <1>8. SumFunction(f) = SumFunction(g)
    BY <1>2, <1>4, <1>7, SumRestricted
  <1>9. QED
    BY <1>6, <1>7, <1>8
----------------------------------------------------------------------------
(* Finite sets in order. *)

\* R orders S strictly, each element before or after any other.
Orders(R, S) ==
    /\ \A a \in S : <<a, a>> \notin R
    /\ \A a, b \in S : a # b => <<a, b>> \in R \/ <<b, a>> \in R
    /\ \A a, b, c \in S : <<a, b>> \in R /\ <<b, c>> \in R => <<a, c>> \in R

InOrder(s, R) == \A i, j \in DOMAIN s : i < j => <<s[i], s[j]>> \in R

LEMMA LastOf ==
  ASSUME NEW S, IsFiniteSet(S), NEW R, Orders(R, S), NEW V \in SUBSET S, V # {}
  PROVE  \E m \in V : \A x \in V : x # m => <<x, m>> \in R
  <1>1. PICK Good : Good = {T \in SUBSET S : T # {} => \E m \in T : \A x \in T : x # m => <<x, m>> \in R}
    OBVIOUS
  <1>2. ASSUME NEW T \in SUBSET S, \A U \in SUBSET T : U # T => U \in Good PROVE T \in Good
    <2>1. SUFFICES ASSUME T # {} PROVE \E m \in T : \A x \in T : x # m => <<x, m>> \in R
      BY <1>1
    <2>2. PICK e \in T : TRUE
      BY <2>1
    <2>3. PICK U : U = T \ {e}
      OBVIOUS
    <2>4. U \in Good
      BY <1>2, <2>2, <2>3
    <2>5. CASE U = {}
      BY <2>2, <2>3, <2>5
    <2>6. CASE U # {}
      <3>1. PICK m \in U : \A x \in U : x # m => <<x, m>> \in R
        BY <1>1, <2>4, <2>6
      <3>2. e \in S /\ m \in S /\ e # m /\ m \in T
        BY <2>3
      <3>3. CASE <<e, m>> \in R
        BY <2>3, <3>1, <3>2, <3>3
      <3>4. CASE <<m, e>> \in R
        <4>1. ASSUME NEW x \in T, x # e PROVE <<x, e>> \in R
          BY <2>3, <3>1, <3>2, <3>4, <4>1 DEF Orders
        <4>2. QED
          BY <4>1
      <3>5. QED
        BY <3>2, <3>3, <3>4 DEF Orders
    <2>7. QED
      BY <2>5, <2>6
  <1>3. SUBSET S \subseteq Good
    BY <1>2, SubsetInduction
  <1>4. QED
    BY <1>1, <1>3

\* A finite set can be written down in order.
LEMMA OrderExists ==
  ASSUME NEW S, IsFiniteSet(S), NEW R, Orders(R, S)
  PROVE  \E s \in [1 .. Cardinality(S) -> S] : InOrder(s, R)
  <1>1. PICK Good : Good = {T \in SUBSET S : \E s \in [1 .. Cardinality(T) -> T] : InOrder(s, R)}
    OBVIOUS
  <1>2. ASSUME NEW T \in SUBSET S, \A U \in SUBSET T : U # T => U \in Good PROVE T \in Good
    <2>1. CASE T = {}
      <3>1. Cardinality(T) = 0 /\ 1 .. 0 = {}
        BY <2>1, FS_EmptySet
      <3>2. PICK s : s = [i \in 1 .. 0 |-> 0]
        OBVIOUS
      <3>3. s \in [1 .. Cardinality(T) -> T] /\ DOMAIN s = {}
        BY <3>1, <3>2
      <3>4. InOrder(s, R)
        BY <3>3 DEF InOrder
      <3>5. QED
        BY <1>1, <3>3, <3>4
    <2>2. CASE T # {}
      <3>1. PICK m \in T : \A x \in T : x # m => <<x, m>> \in R
        BY <2>2, LastOf
      <3>2. PICK n \in Nat \ {0} : n = Cardinality(T) /\ Cardinality(T \ {m}) = n - 1
        BY LeftOver
      <3>3. T \ {m} \in Good
        BY <1>2
      <3>4. PICK s \in [1 .. n - 1 -> T \ {m}] : InOrder(s, R)
        BY <1>1, <3>2, <3>3
      <3>5. PICK t : t = [i \in 1 .. n |-> IF i = n THEN m ELSE s[i]]
        OBVIOUS
      <3>6. ASSUME NEW i \in 1 .. n, i # n PROVE i \in 1 .. n - 1 /\ s[i] \in T \ {m} /\ t[i] = s[i]
        BY <3>4, <3>5, <3>6
      <3>7. t \in [1 .. n -> T] /\ DOMAIN t = 1 .. n /\ t[n] = m
        BY <3>5, <3>6
      <3>8. ASSUME NEW i \in 1 .. n, NEW j \in 1 .. n, i < j PROVE <<t[i], t[j]>> \in R
        <4>1. i # n
          BY <3>8
        <4>2. CASE j = n
          BY <3>1, <3>6, <3>7, <4>1, <4>2
        <4>3. CASE j # n
          <5>1. /\ i \in DOMAIN s /\ j \in DOMAIN s /\ t[i] = s[i] /\ t[j] = s[j]
            BY <3>4, <3>6, <4>1, <4>3
          <5>2. QED
            BY <3>4, <3>8, <5>1 DEF InOrder
        <4>4. QED
          BY <4>2, <4>3
      <3>9. InOrder(t, R)
        BY <3>7, <3>8 DEF InOrder
      <3>10. QED
        BY <1>1, <3>2, <3>7, <3>9
    <2>3. QED
      BY <2>1, <2>2
  <1>3. SUBSET S \subseteq Good
    BY <1>2, SubsetInduction
  <1>4. QED
    BY <1>1, <1>3

\* Whatever is in order lists all of it, and once.
LEMMA OrderIsAll ==
  ASSUME NEW S, IsFiniteSet(S), NEW R, Orders(R, S), NEW s \in [1 .. Cardinality(S) -> S], InOrder(s, R)
  PROVE  /\ \A x \in S : \E i \in DOMAIN s : s[i] = x
         /\ \A i, j \in DOMAIN s : s[i] = s[j] => i = j
  <1>1. PICK n \in Nat : n = Cardinality(S) /\ s \in [1 .. n -> S]
    BY FS_CardinalityType
  <1>2. ASSUME NEW i \in 1 .. n, NEW j \in 1 .. n, i < j PROVE s[i] # s[j]
    BY <1>1, <1>2 DEF InOrder, Orders
  <1>3. \A i, j \in 1 .. n : s[i] = s[j] => i = j
    BY <1>2
  <1>4. IsFiniteSet(1 .. n) /\ Cardinality(1 .. n) = n
    BY FS_Interval
  <1>5. s \in Injection(1 .. n, S)
    BY <1>1, <1>3 DEF Injection, IsInjective
  <1>6. s \in Surjection(1 .. n, S)
    BY <1>1, <1>4, <1>5, FS_Injection
  <1>7. QED
    BY <1>1, <1>3, <1>6 DEF Surjection
----------------------------------------------------------------------------
(* Counting. *)

\* Counting is adding up ones.
LEMMA SumOfOnes ==
  ASSUME NEW S, IsFiniteSet(S), NEW f \in [S -> Int], \A x \in S : f[x] = 1
  PROVE  SumFunction(f) = Cardinality(S)
  <1>1. PICK a : Sums(a, f, S) /\ SumFunction(f) = a[S]
    BY SumIs
  <1>2. PICK Good : Good = {T \in SUBSET S : a[T] = Cardinality(T)}
    OBVIOUS
  <1>3. ASSUME NEW T \in SUBSET S, \A U \in SUBSET T : U # T => U \in Good PROVE T \in Good
    <2>1. CASE T = {}
      BY <1>1, <1>2, <2>1, FS_EmptySet DEF Sums
    <2>2. ASSUME NEW x \in T PROVE T \in Good
      <3>1. PICK U : U = T \ {x}
        OBVIOUS
      <3>2. a[U] = Cardinality(U) /\ a[T] = a[U] + f[x] /\ f[x] = 1
        BY <1>1, <1>2, <1>3, <3>1 DEF Sums
      <3>3. Cardinality(U) = Cardinality(T) - 1 /\ Cardinality(T) \in Nat \ {0}
        BY <3>1, LeftOver
      <3>4. QED
        BY <1>2, <3>2, <3>3
    <2>3. QED
      BY <2>1, <2>2
  <1>4. SUBSET S \subseteq Good
    BY <1>3, SubsetInduction
  <1>5. QED
    BY <1>1, <1>2, <1>4

\* Counting may be done class by class: s[x] is the class of x, n counts each.
LEMMA CountByClass ==
  ASSUME NEW S, IsFiniteSet(S), NEW C, IsFiniteSet(C), NEW s \in [S -> C], NEW n \in [C -> Int],
         \A c \in C : n[c] = Cardinality({x \in S : s[x] = c})
  PROVE  SumFunction(n) = Cardinality(S)
  <1>1. PICK f : f = [x \in S |-> 1]
    OBVIOUS
  <1>2. f \in [S -> Int] /\ SumFunction(f) = Cardinality(S)
    BY <1>1, SumOfOnes
  <1>3. ASSUME NEW c \in C PROVE n[c] = SumFunction([x \in S |-> IF s[x] = c THEN f[x] ELSE 0])
    <2>1. PICK T : T = {x \in S : s[x] = c}
      OBVIOUS
    <2>2. PICK g, h : g = [x \in S |-> IF s[x] = c THEN f[x] ELSE 0] /\ h = [x \in T |-> 1]
      OBVIOUS
    <2>3. /\ T \in SUBSET S /\ IsFiniteSet(T) /\ g \in [S -> Int] /\ h \in [T -> Int]
          /\ \A x \in T : h[x] = g[x] /\ h[x] = 1
          /\ \A x \in S \ T : g[x] = 0
      BY <1>1, <2>1, <2>2, FS_Subset
    <2>4. SumFunction(h) = SumFunction(g)
      BY <2>3, SumRestricted
    <2>5. SumFunction(h) = Cardinality(T)
      BY <2>3, SumOfOnes
    <2>6. QED
      BY <2>1, <2>2, <2>4, <2>5
  <1>4. n = [c \in C |-> SumFunction([x \in S |-> IF s[x] = c THEN f[x] ELSE 0])]
    BY <1>3
  <1>5. SumFunction([c \in C |-> SumFunction([x \in S |-> IF s[x] = c THEN f[x] ELSE 0])]) = SumFunction(f)
    BY <1>2, SumByClass
  <1>6. QED
    BY <1>2, <1>4, <1>5

\* Larger summands make a larger sum.
LEMMA SumMore ==
  ASSUME NEW S, IsFiniteSet(S), NEW f \in [S -> Int], NEW h \in [S -> Int], \A x \in S : f[x] <= h[x]
  PROVE  SumFunction(f) \in Int /\ SumFunction(h) \in Int /\ SumFunction(f) <= SumFunction(h)
  <1>1. PICK d : d = [x \in S |-> h[x] - f[x]]
    OBVIOUS
  <1>2. d \in [S -> Nat] /\ d \in [S -> Int] /\ \A x \in S : h[x] = f[x] + d[x]
    BY <1>1
  <1>3. SumFunction(f) \in Int /\ SumFunction(h) = SumFunction(f) + SumFunction(d)
    BY <1>2, SumPlus
  <1>4. SumFunction(d) \in Nat
    BY <1>2, SumNat
  <1>5. QED
    BY <1>3, <1>4

\* A sum of natural numbers is no less than any of them.
LEMMA SummandBelow ==
  ASSUME NEW S, IsFiniteSet(S), NEW f \in [S -> Nat], NEW x \in S
  PROVE  f[x] <= SumFunction(f)
  <1>1. PICK g : g = [y \in S |-> IF y = x THEN f[y] ELSE 0]
    OBVIOUS
  <1>2. g \in [S -> Int] /\ f \in [S -> Int] /\ g[x] = f[x] /\ \A y \in S : (y # x => g[y] = 0) /\ g[y] <= f[y]
    BY <1>1
  <1>3. SumFunction(g) = f[x]
    BY <1>2, SumOne
  <1>4. SumFunction(g) <= SumFunction(f)
    BY <1>2, SumMore
  <1>5. QED
    BY <1>3, <1>4
----------------------------------------------------------------------------
(* Multiples. *)

\* Multiplying keeps the order.
LEMMA MoreIsMore == ASSUME NEW k \in Nat, NEW x \in Int, NEW y \in Int, x <= y
                    PROVE  x * k <= y * k
  OBVIOUS

\* The multiple below a number
LEMMA DivBounds == ASSUME NEW d \in Int, NEW k \in Nat \ {0}
                   PROVE  /\ d \div k \in Int /\ (d \div k) * k <= d
                          /\ d < (d \div k) * k + k
  OBVIOUS

LEMMA Multiples == ASSUME NEW q \in Int, NEW r \in Int, NEW k \in Nat \ {0}
                   PROVE  /\ (q - 1) * k = q * k - k /\ (q + 1) * k = q * k + k
                          /\ q * k \in Int /\ (q <= r <=> q * k <= r * k)
  <1>1. /\ (q - 1) * k = q * k - k /\ (q + 1) * k = q * k + k /\ q * k \in Int /\ r * k \in Int
    OBVIOUS
  <1>2. ASSUME q <= r PROVE q * k <= r * k
    BY <1>2, MoreIsMore
  <1>3. ASSUME q > r PROVE q * k > r * k
    <2>1. r + 1 <= q
      BY <1>3
    <2>2. (r + 1) * k <= q * k
      BY <2>1, MoreIsMore
    <2>3. (r + 1) * k = r * k + k
      OBVIOUS
    <2>4. QED
      BY <1>1, <2>2, <2>3
  <1>4. QED
    BY <1>1, <1>2, <1>3

\* The window a time falls in
LEMMA DivIs == ASSUME NEW d \in Int, NEW q \in Int, NEW k \in Nat \ {0}
               PROVE  /\ d \div k = q <=> d \in q * k .. q * k + k - 1
                      /\ d \div k < q <=> d < q * k
                      /\ d \div k >= q <=> d >= q * k
  <1>1. PICK e \in Int : e = d \div k
    BY DivBounds
  <1>2. /\ e * k \in Int /\ q * k \in Int /\ e * k <= d /\ d < e * k + k
    BY <1>1, DivBounds, Multiples
  <1>3. ASSUME e < q PROVE d < q * k
    <2>1. e + 1 <= q
      BY <1>3
    <2>2. (e + 1) * k <= q * k /\ (e + 1) * k = e * k + k
      BY <2>1, Multiples
    <2>3. QED
      BY <1>2, <2>2
  <1>4. ASSUME e >= q PROVE d >= q * k
    <2>1. q * k <= e * k
      BY <1>4, Multiples
    <2>2. QED
      BY <1>2, <2>1
  <1>5. ASSUME e > q PROVE d >= q * k + k
    <2>1. q + 1 <= e
      BY <1>5
    <2>2. (q + 1) * k <= e * k /\ (q + 1) * k = q * k + k
      BY <2>1, Multiples
    <2>3. QED
      BY <1>2, <2>2
  <1>6. QED
    BY <1>1, <1>2, <1>3, <1>4, <1>5
=============================================================================
