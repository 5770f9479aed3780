----------------------------- MODULE SumLemmas ------------------------------
(***************************************************************************)
(* Sums over a finite set, as MapThenSumSet computes them: what changes    *)
(* when one summand does.  Induction is by the least counterexample, which *)
(* WFMin provides for sets and not only for operators.                     *)
(***************************************************************************)
EXTENDS FiniteSetsExt, FiniteSetTheorems, TLAPS

\* A set of natural numbers has a least one.
LEMMA Smallest ==
    ASSUME NEW T, T \subseteq Nat, T # {}
    PROVE  \E m \in T : \A k \in T : m <= k
  <1>1. PICK m \in T : \A k \in T : ~(<<k, m>> \in OpToRel(<, Nat))
    BY NatLessThanWellFounded, WFMin, Zenon
  <1>2. ASSUME NEW k \in T PROVE m <= k
    <2>1. k \in Nat /\ m \in Nat
      OBVIOUS
    <2>2. ~(k < m)
      BY <1>1, <2>1, Zenon DEF OpToRel
    <2> QED
      BY <2>1, <2>2
  <1> QED
    BY <1>2

\* Induction over the natural numbers, the property given as a set.
LEMMA SetInduction ==
    ASSUME NEW T, 0 \in T, \A n \in Nat : n \in T => n + 1 \in T
    PROVE  Nat \subseteq T
  <1> DEFINE Bad == Nat \ T
  <1>1. SUFFICES ASSUME Bad # {} PROVE FALSE
    OBVIOUS
  <1>2. PICK m \in Bad : \A k \in Bad : m <= k
    BY <1>1, Smallest
  <1>3. m \in Nat /\ m # 0 /\ m \notin T
    OBVIOUS
  <1>4. m - 1 \in Nat /\ ~(m <= m - 1)
    BY <1>3
  <1>5. m - 1 \notin Bad
    BY <1>2, <1>4
  <1> QED
    BY <1>3, <1>4, <1>5

-----------------------------------------------------------------------------
\* The element a sum takes first, and the equation of the partial sums.
First(s) == CHOOSE x \in s : TRUE

Equation(f, s, g) == IF s = {} THEN 0 ELSE f[First(s)] + g[s \ {First(s)}]

PartialSums(f, S) == CHOOSE g : g = [s \in SUBSET S |-> Equation(f, s, g)]

Sum(f, S) == PartialSums(f, S)[S]

LEMMA SumIsMapThenSum ==
    ASSUME NEW f, NEW S
    PROVE  MapThenSumSet(LAMBDA x : f[x], S) = Sum(f, S)
  BY DEF MapThenSumSet, MapThenFoldSet, Sum, PartialSums, Equation, First

LEMMA FirstIsElement ==
    ASSUME NEW s, s # {} PROVE First(s) \in s
  BY DEF First

\* The subsets of S with at most n elements.
Small(S, n) == {s \in SUBSET S : Cardinality(s) <= n}

LEMMA SmallFacts ==
    ASSUME NEW S, IsFiniteSet(S), NEW n \in Nat
    PROVE  /\ Small(S, 0) = {{}}
           /\ Small(S, n) \subseteq Small(S, n + 1)
           /\ \A s \in Small(S, n + 1) : s # {} => s \ {First(s)} \in Small(S, n)
           /\ Small(S, Cardinality(S)) = SUBSET S
  <1>1. \A s \in SUBSET S : IsFiniteSet(s) /\ Cardinality(s) \in Nat
                            /\ Cardinality(s) <= Cardinality(S)
    BY FS_Subset, FS_CardinalityType
  <1>2. Small(S, 0) = {{}}
    BY <1>1, FS_EmptySet DEF Small
  <1>3. Small(S, n) \subseteq Small(S, n + 1)
    BY <1>1 DEF Small
  <1>4. ASSUME NEW s \in Small(S, n + 1), s # {}
        PROVE  s \ {First(s)} \in Small(S, n)
    <2>1. s \in SUBSET S /\ Cardinality(s) <= n + 1 /\ First(s) \in s
      BY <1>4, FirstIsElement DEF Small
    <2>2. Cardinality(s \ {First(s)}) = Cardinality(s) - 1
      BY <1>1, <2>1, FS_RemoveElement
    <2>3. QED
      BY <1>1, <2>1, <2>2 DEF Small
  <1>5. Small(S, Cardinality(S)) = SUBSET S
    BY <1>1 DEF Small
  <1>6. QED
    BY <1>2, <1>3, <1>4, <1>5

\* The partial sums exist.
LEMMA SumsExist ==
    ASSUME NEW S, IsFiniteSet(S), NEW f \in [S -> Int]
    PROVE  /\ PartialSums(f, S) = [s \in SUBSET S |-> Equation(f, s, PartialSums(f, S))]
           /\ PartialSums(f, S) \in [SUBSET S -> Int]
  <1> DEFINE Solves(g, n) == \A s \in Small(S, n) : g[s] = Equation(f, s, g)
             T == {n \in Nat : \E g \in [Small(S, n) -> Int] : Solves(g, n)}
  <1>a. \A n \in Nat : /\ Small(S, 0) = {{}}
                       /\ Small(S, n) \subseteq Small(S, n + 1)
                       /\ \A s \in Small(S, n + 1) : s # {} => s \ {First(s)} \in Small(S, n)
    BY SmallFacts
  <1>1. 0 \in T
    <2> DEFINE g == [s \in Small(S, 0) |-> 0]
    <2>1. g \in [Small(S, 0) -> Int] /\ Solves(g, 0)
      BY <1>a DEF Equation
    <2>2. QED
      BY <2>1
  <1>2. ASSUME NEW n \in Nat, n \in T PROVE n + 1 \in T
    <2>1. PICK g \in [Small(S, n) -> Int] : Solves(g, n)
      BY <1>2
    <2> DEFINE h == [s \in Small(S, n + 1) |-> Equation(f, s, g)]
    <2>2. ASSUME NEW s \in Small(S, n + 1)
          PROVE  Equation(f, s, g) \in Int
      <3>1. CASE s = {}
        BY <3>1 DEF Equation
      <3>2. CASE s # {}
        <4>1. s \ {First(s)} \in Small(S, n) /\ First(s) \in S
          BY <1>a, <3>2, FirstIsElement DEF Small
        <4>2. f[First(s)] \in Int /\ g[s \ {First(s)}] \in Int
          BY <2>1, <4>1
        <4>3. QED
          BY <3>2, <4>2 DEF Equation
      <3>3. QED
        BY <3>1, <3>2
    <2>3. ASSUME NEW s \in Small(S, n) PROVE h[s] = g[s]
      BY <1>a, <2>1, <2>3
    <2>4. ASSUME NEW s \in Small(S, n + 1) PROVE h[s] = Equation(f, s, h)
      <3>1. CASE s = {}
        BY <3>1 DEF Equation
      <3>2. CASE s # {}
        <4>1. h[s \ {First(s)}] = g[s \ {First(s)}]
          BY <1>a, <2>3, <3>2
        <4>2. QED
          BY <3>2, <4>1 DEF Equation
      <3>3. QED
        BY <3>1, <3>2
    <2>5. h \in [Small(S, n + 1) -> Int]
      BY <2>2
    <2> HIDE DEF h
    <2>6. QED
      BY <2>4, <2>5
  <1>3. Cardinality(S) \in Nat /\ Small(S, Cardinality(S)) = SUBSET S
    BY FS_CardinalityType, SmallFacts
  <1>4. Cardinality(S) \in T
    <2> HIDE DEF T
    <2>1. QED
      BY <1>1, <1>2, <1>3, SetInduction
  <1>5. PICK g \in [SUBSET S -> Int] : \A s \in SUBSET S : g[s] = Equation(f, s, g)
    BY <1>3, <1>4
  <1>6. g = [s \in SUBSET S |-> Equation(f, s, g)]
    BY <1>5
  <1> DEFINE G == PartialSums(f, S)
  <1>7. G = [s \in SUBSET S |-> Equation(f, s, G)]
    BY <1>6 DEF PartialSums
  <1> DEFINE U == {n \in Nat : \A s \in Small(S, n) : G[s] \in Int}
  <1> HIDE DEF G
  <1>8. 0 \in U
    BY <1>a, <1>7 DEF Equation, Small
  <1>9. ASSUME NEW n \in Nat, n \in U PROVE n + 1 \in U
    <2>1. ASSUME NEW s \in Small(S, n + 1) PROVE G[s] \in Int
      <3>1. G[s] = Equation(f, s, G)
        BY <1>7 DEF Small
      <3>2. CASE s = {}
        BY <3>1, <3>2 DEF Equation
      <3>3. CASE s # {}
        <4>1. s \ {First(s)} \in Small(S, n) /\ First(s) \in S
          BY <1>a, <3>3, FirstIsElement DEF Small
        <4>2. f[First(s)] \in Int /\ G[s \ {First(s)}] \in Int
          BY <1>9, <4>1
        <4>3. QED
          BY <3>1, <3>3, <4>2 DEF Equation
      <3>4. QED
        BY <3>2, <3>3
    <2>2. QED
      BY <2>1
  <1>10. Cardinality(S) \in U
    <2> HIDE DEF U
    <2>1. QED
      BY <1>3, <1>8, <1>9, SetInduction
  <1>11. G \in [SUBSET S -> Int]
    BY <1>3, <1>7, <1>10
  <1>12. QED
    BY <1>7, <1>11 DEF G

-----------------------------------------------------------------------------
\* When one summand changes, the sum changes by as much.
LEMMA SumUpdate ==
    ASSUME NEW S, IsFiniteSet(S), NEW f \in [S -> Int], NEW h \in [S -> Int], NEW x \in S,
           \A y \in S : y # x => h[y] = f[y]
    PROVE  Sum(f, S) \in Int /\ Sum(h, S) = Sum(f, S) + (h[x] - f[x])
  <1> DEFINE F == PartialSums(f, S)
             H == PartialSums(h, S)
             delta == h[x] - f[x]
             T == {n \in Nat : \A s \in Small(S, n) :
                                 H[s] = F[s] + (IF x \in s THEN delta ELSE 0)}
  <1>1. /\ F \in [SUBSET S -> Int] /\ \A s \in SUBSET S : F[s] = Equation(f, s, F)
        /\ H \in [SUBSET S -> Int] /\ \A s \in SUBSET S : H[s] = Equation(h, s, H)
    BY SumsExist
  <1>2. delta \in Int
    OBVIOUS
  <1>a. \A n \in Nat : /\ Small(S, 0) = {{}}
                       /\ \A s \in Small(S, n + 1) : s # {} => s \ {First(s)} \in Small(S, n)
    BY SmallFacts
  <1> HIDE DEF F, H
  <1>3. 0 \in T
    <2>1. F[{}] = 0 /\ H[{}] = 0
      BY <1>1 DEF Equation
    <2>2. \A s \in Small(S, 0) : s = {}
      BY <1>a
    <2>3. ASSUME NEW s \in Small(S, 0)
          PROVE  H[s] = F[s] + (IF x \in s THEN delta ELSE 0)
      <3>1. x \notin s /\ F[s] = 0 /\ H[s] = 0
        BY <2>1, <2>2
      <3>2. QED
        BY <3>1
    <2>4. QED
      BY <2>3
  <1>4. ASSUME NEW n \in Nat, n \in T PROVE n + 1 \in T
    <2>1. ASSUME NEW s \in Small(S, n + 1)
          PROVE  H[s] = F[s] + (IF x \in s THEN delta ELSE 0)
      <3>0. s \in SUBSET S /\ F[s] = Equation(f, s, F) /\ H[s] = Equation(h, s, H)
        BY <1>1 DEF Small
      <3>1. CASE s = {}
        BY <3>0, <3>1 DEF Equation
      <3>2. CASE s # {}
        <4> DEFINE y == First(s)
                   r == s \ {y}
        <4>1. y \in s /\ r \in Small(S, n) /\ r \in SUBSET S
          BY <1>a, <3>0, <3>2, FirstIsElement
        <4>2. H[r] = F[r] + (IF x \in r THEN delta ELSE 0)
          BY <1>4, <4>1
        <4>3. F[s] = f[y] + F[r] /\ H[s] = h[y] + H[r]
          BY <3>0, <3>2 DEF Equation
        <4>4. F[r] \in Int /\ H[r] \in Int /\ f[y] \in Int /\ h[y] \in Int
          BY <1>1, <3>0, <4>1
        <4>5. CASE y = x
          <5>1. x \notin r /\ x \in s
            BY <4>1, <4>5
          <5>2. QED
            BY <4>2, <4>3, <4>4, <4>5, <5>1
        <4>6. CASE y # x
          <5>1. (x \in r <=> x \in s) /\ h[y] = f[y]
            BY <3>0, <4>1, <4>6
          <5>2. QED
            BY <1>2, <4>2, <4>3, <4>4, <5>1
        <4>7. QED
          BY <4>5, <4>6
      <3>3. QED
        BY <3>1, <3>2
    <2>2. QED
      BY <2>1
  <1>5. Cardinality(S) \in Nat /\ Small(S, Cardinality(S)) = SUBSET S
    BY FS_CardinalityType, SmallFacts
  <1>6. Cardinality(S) \in T
    <2> HIDE DEF T
    <2>1. QED
      BY <1>3, <1>4, <1>5, SetInduction
  <1>7. H[S] = F[S] + delta /\ F[S] \in Int
    BY <1>1, <1>5, <1>6
  <1>8. QED
    BY <1>7 DEF F, H, Sum

\* A sum of zeros is zero.
LEMMA SumZero ==
    ASSUME NEW S, IsFiniteSet(S), NEW f \in [S -> {0}]
    PROVE  Sum(f, S) = 0
  <1> DEFINE F == PartialSums(f, S)
             T == {n \in Nat : \A s \in Small(S, n) : F[s] = 0}
  <1>0. f \in [S -> Int]
    OBVIOUS
  <1>b. F = [s \in SUBSET S |-> Equation(f, s, F)]
    BY <1>0, SumsExist, Zenon
  <1>1. \A s \in SUBSET S : F[s] = Equation(f, s, F)
    <2> HIDE DEF F
    <2>1. QED
      BY <1>b
  <1>a. \A n \in Nat : /\ Small(S, 0) = {{}}
                       /\ \A s \in Small(S, n + 1) : s # {} => s \ {First(s)} \in Small(S, n)
    BY SmallFacts
  <1> HIDE DEF F
  <1>2. 0 \in T
    BY <1>1, <1>a DEF Equation
  <1>3. ASSUME NEW n \in Nat, n \in T PROVE n + 1 \in T
    <2>1. ASSUME NEW s \in Small(S, n + 1) PROVE F[s] = 0
      <3>1. s \in SUBSET S /\ F[s] = Equation(f, s, F)
        BY <1>1 DEF Small
      <3>2. CASE s = {}
        BY <3>1, <3>2 DEF Equation
      <3>3. CASE s # {}
        <4>1. F[s \ {First(s)}] = 0 /\ f[First(s)] = 0
          BY <1>3, <1>a, <3>1, <3>3, FirstIsElement
        <4>2. QED
          BY <3>1, <3>3, <4>1 DEF Equation
      <3>4. QED
        BY <3>2, <3>3
    <2>2. QED
      BY <2>1
  <1>4. Cardinality(S) \in Nat /\ Small(S, Cardinality(S)) = SUBSET S
    BY FS_CardinalityType, SmallFacts
  <1>5. Cardinality(S) \in T
    <2> HIDE DEF T
    <2>1. QED
      BY <1>2, <1>3, <1>4, SetInduction
  <1>6. QED
    BY <1>4, <1>5 DEF F, Sum

=============================================================================
