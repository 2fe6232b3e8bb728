------------------------------ MODULE RanksAndSums ------------------------------
(***************************************************************************)
(* What the proofs keep needing of finite sets: members numbered by what   *)
(* comes before them, and the sums of the community modules.               *)
(***************************************************************************)
EXTENDS Integers, FiniteSets, Functions, FiniteSetTheorems, TLAPS

(***************************************************************************)
(* Ranks in a finite set                                                   *)
(***************************************************************************)

LEMMA BelowCount == ASSUME NEW n \in Nat PROVE IsFiniteSet(0..n - 1) /\ Cardinality(0..n - 1) = n
<1>1. /\ IsFiniteSet(0..n - 1)
      /\ Cardinality(0..n - 1) = IF 0 > n - 1 THEN 0 ELSE n - 1 - 0 + 1
  BY FS_Interval
<1> QED BY <1>1

\* P has what comes before each member of R.
Orders(P, R) ==
    /\ P \in [R -> SUBSET R]
    /\ \A k \in R : k \notin P[k]
    /\ \A a, b \in R : a # b => a \in P[b] \/ b \in P[a]
    /\ \A a, b \in R : a \in P[b] => P[a] \subseteq P[b]

\* How many come before a member numbers the members from 0.
LEMMA RanksNumber ==
    ASSUME NEW R, IsFiniteSet(R), NEW P, Orders(P, R)
    PROVE  /\ \A k \in R : Cardinality(P[k]) \in 0..Cardinality(R) - 1
           /\ \A a, b \in R : Cardinality(P[a]) = Cardinality(P[b]) => a = b
           /\ \A i \in 0..Cardinality(R) - 1 : \E k \in R : Cardinality(P[k]) = i
<1> DEFINE c == Cardinality(R)
           rank == [k \in R |-> Cardinality(P[k])]
<1>1. c \in Nat
  BY FS_CardinalityType
<1>2. ASSUME NEW k \in R PROVE IsFiniteSet(P[k]) /\ rank[k] \in 0..c - 1
  <2>1. P[k] \subseteq R /\ P[k] # R
    BY DEF Orders
  <2>2. IsFiniteSet(P[k]) /\ Cardinality(P[k]) <= c /\ (Cardinality(P[k]) = c => P[k] = R)
    BY <2>1, FS_Subset
  <2>3. Cardinality(P[k]) \in Nat
    BY <2>2, FS_CardinalityType
  <2> QED BY <1>1, <2>1, <2>2, <2>3
<1>3. ASSUME NEW a \in R, NEW b \in R, rank[a] = rank[b] PROVE a = b
  <2>1. \A x, y \in R : x \in P[y] => rank[x] # rank[y]
    <3> SUFFICES ASSUME NEW x \in R, NEW y \in R, x \in P[y] PROVE rank[x] # rank[y]
      OBVIOUS
    <3>1. P[x] \subseteq P[y] /\ P[x] # P[y]
      BY DEF Orders
    <3> QED BY <1>2, <3>1, FS_Subset
  <2> QED BY <1>3, <2>1 DEF Orders
<1>4. rank \in Injection(R, 0..c - 1)
  BY <1>2, <1>3 DEF Injection, IsInjective
<1>5. IsFiniteSet(0..c - 1) /\ Cardinality(0..c - 1) = c
  BY <1>1, BelowCount
<1>6. rank \in Surjection(R, 0..c - 1)
  BY <1>4, <1>5, FS_Injection
<1>7. \A i \in 0..c - 1 : \E k \in R : rank[k] = i
  BY <1>6 DEF Surjection
<1> QED BY <1>2, <1>3, <1>7

LEMMA RanksReach ==
    ASSUME NEW R, IsFiniteSet(R), NEW P, Orders(P, R)
    PROVE  \A i \in Nat : i < Cardinality(R) => \E k : k \in R /\ Cardinality(P[k]) = i
<1>1. Cardinality(R) \in Nat
  BY FS_CardinalityType
<1>2. \A i \in Nat : i < Cardinality(R) => i \in 0..Cardinality(R) - 1
  BY <1>1
<1> QED BY <1>2, RanksNumber

\* A finite set that is not empty has a member that nothing comes before.
LEMMA FirstExists ==
    ASSUME NEW R, IsFiniteSet(R), R # {}, NEW P, Orders(P, R)
    PROVE  \E k : k \in R /\ \A h \in R \ {k} : k \in P[h]
<1>1. Cardinality(R) \in Nat /\ Cardinality(R) # 0
  BY FS_EmptySet, FS_CardinalityType
<1>2. PICK k : k \in R /\ Cardinality(P[k]) = 0
  <2>1. 0 \in Nat /\ 0 < Cardinality(R)
    BY <1>1
  <2> QED BY <2>1, RanksReach
<1>3. IsFiniteSet(P[k])
  BY <1>2, FS_Subset DEF Orders
<1>4. P[k] = {}
  BY <1>2, <1>3, FS_EmptySet
<1> QED BY <1>2, <1>4 DEF Orders

\* The first n of at least n are n.
LEMMA FirstAreSoMany ==
    ASSUME NEW R, IsFiniteSet(R), NEW P, Orders(P, R), NEW n \in Nat, n <= Cardinality(R)
    PROVE  Cardinality({k \in R : Cardinality(P[k]) < n}) = n
<1> DEFINE N == {k \in R : Cardinality(P[k]) < n}
           first == [k \in N |-> Cardinality(P[k])]
           c == Cardinality(R)
<1>1. c \in Nat /\ \A k \in R : Cardinality(P[k]) \in 0..c - 1
  BY FS_CardinalityType, RanksNumber
<1>2. \A k : k \in N <=> k \in R /\ Cardinality(P[k]) < n
  OBVIOUS
<1>3. first \in [N -> 0..n - 1] /\ IsInjective(first)
  <2>1. \A k \in N : Cardinality(P[k]) \in 0..n - 1
    BY <1>1
  <2>2. first \in [N -> 0..n - 1]
    BY <2>1
  <2>3. \A a, b \in N : Cardinality(P[a]) = Cardinality(P[b]) => a = b
    BY RanksNumber
  <2> QED BY <2>2, <2>3 DEF IsInjective
<1> HIDE DEF N
<1>4. \A i \in 0..n - 1 : \E k \in N : first[k] = i
  <2> SUFFICES ASSUME NEW i \in 0..n - 1 PROVE \E k \in N : first[k] = i
    OBVIOUS
  <2>1. i \in 0..c - 1 /\ i < n
    BY <1>1
  <2>2. PICK k \in R : Cardinality(P[k]) = i
    BY <2>1, RanksNumber
  <2>3. k \in N
    BY <1>2, <2>1, <2>2
  <2> QED BY <2>2, <2>3
<1> HIDE DEF first
<1>5. first \in Injection(N, 0..n - 1) /\ first \in Surjection(N, 0..n - 1)
  BY <1>3, <1>4 DEF Injection, Surjection
<1>6. IsFiniteSet(0..n - 1) /\ Cardinality(0..n - 1) = n
  BY BelowCount
<1>7. Cardinality(N) = n
  BY <1>5, <1>6, FS_Injection
<1> QED BY <1>7 DEF N

---------------------------------------------------------------------------
(***************************************************************************)
(* Sums over a finite set.  A set of numbers with 0 and, with each number, *)
(* the next one has all of them: its first gap would follow on a member.   *)
(* The induction is of a set, not of a predicate, so that it can be cited. *)
(***************************************************************************)
LEMMA AllNumbers ==
    ASSUME NEW G, 0 \in G, \A n \in Nat : n \in G => n + 1 \in G
    PROVE  Nat \subseteq G
<1> SUFFICES ASSUME NEW n \in Nat, n \notin G PROVE FALSE
  OBVIOUS
<1> DEFINE B == {k \in 0..n : k \notin G}
           P == [k \in B |-> {h \in B : h < k}]
<1>1. n \in B /\ B \subseteq 0..n /\ B \subseteq Nat
  OBVIOUS
<1>2. IsFiniteSet(B)
  <2>1. IsFiniteSet(0..n)
    BY FS_Interval
  <2> QED BY <1>1, <2>1, FS_Subset
<1>3. Orders(P, B)
  <2>1. \A a, b \in B : a \in P[b] <=> a < b
    OBVIOUS
  <2>2. P \in [B -> SUBSET B] /\ \A a \in B : a \in Int
    OBVIOUS
  <2> HIDE DEF B, P
  <2>3. ASSUME NEW a \in B, NEW b \in B, a # b PROVE a \in P[b] \/ b \in P[a]
    BY <2>1, <2>2, <2>3
  <2>4. ASSUME NEW a \in B, NEW b \in B, a \in P[b] PROVE P[a] \subseteq P[b]
    <3> SUFFICES ASSUME NEW z \in P[a] PROVE z \in P[b]
      OBVIOUS
    <3>1. z \in B
      BY <2>2
    <3> QED BY <2>1, <2>2, <2>4, <3>1
  <2>5. \A a \in B : a \notin P[a]
    BY <2>1, <2>2
  <2> QED BY <2>2, <2>3, <2>4, <2>5 DEF Orders
<1>4. PICK k : k \in B /\ \A h \in B \ {k} : k \in P[h]
  <2> HIDE DEF P, B
  <2> QED BY <1>1, <1>2, <1>3, FirstExists
<1>5. k \in 0..n /\ k \notin G /\ k # 0
  BY <1>4
<1>6. k - 1 \in 0..n /\ k - 1 \in Nat /\ (k - 1) + 1 = k /\ ~(k < k - 1)
  BY <1>5
<1>7. k - 1 \in G
  BY <1>4, <1>6
<1> QED BY <1>5, <1>6, <1>7

\* What has the empty set, and with a set all that have a member more, has all
\* the finite ones.
LEMMA AllSubsets ==
    ASSUME NEW S, IsFiniteSet(S), NEW G, {} \in G,
           \A T \in SUBSET S : \A x \in S \ T : T \in G => T \cup {x} \in G
    PROVE  SUBSET S \subseteq G
<1> DEFINE N == {n \in Nat : \A T \in SUBSET S : Cardinality(T) = n => T \in G}
<1>1. \A T \in SUBSET S : /\ IsFiniteSet(T) /\ Cardinality(T) \in Nat
                          /\ T = {} <=> Cardinality(T) = 0
  BY FS_Subset, FS_CardinalityType, FS_EmptySet
<1>2. 0 \in N
  BY <1>1
<1>3. ASSUME NEW n \in Nat, n \in N PROVE n + 1 \in N
  <2> SUFFICES ASSUME NEW T \in SUBSET S, Cardinality(T) = n + 1 PROVE T \in G
    OBVIOUS
  <2>1. T # {}
    BY <1>1
  <2>2. PICK x \in T : TRUE
    BY <2>1
  <2>3. Cardinality(T \ {x}) = (n + 1) - 1
    BY <1>1, <2>2, FS_RemoveElement
  <2>4. T \ {x} \in G
    BY <1>3, <2>3
  <2>5. (T \ {x}) \cup {x} = T /\ x \in S \ (T \ {x}) /\ T \ {x} \in SUBSET S
    BY <2>2
  <2> QED BY <2>4, <2>5
<1> HIDE DEF N
<1>4. Nat \subseteq N
  BY <1>2, <1>3, AllNumbers
<1> QED BY <1>1, <1>4 DEF N

\* The fold of the community modules is what a recursion over the subsets says.
OneOf(s) == CHOOSE x \in s : TRUE

Folds(F, f, D) == F = [s \in D |-> IF s = {} THEN 0 ELSE f[OneOf(s)] + F[s \ {OneOf(s)}]]

\* There is such a function: it grows by the number of members.
LEMMA FoldsExist ==
    ASSUME NEW S, IsFiniteSet(S), NEW f
    PROVE  \E F : Folds(F, f, SUBSET S)
<1> DEFINE D(n) == {s \in SUBSET S : Cardinality(s) <= n}
           N == {n \in Nat : \E F : Folds(F, f, D(n))}
<1>1. \A T \in SUBSET S : /\ IsFiniteSet(T) /\ Cardinality(T) \in Nat
                          /\ T = {} <=> Cardinality(T) = 0
  BY FS_Subset, FS_CardinalityType, FS_EmptySet
<1>2. 0 \in N
  <2> DEFINE F == [s \in D(0) |-> 0]
  <2>1. \A s \in D(0) : s = {}
    BY <1>1
  <2>2. Folds(F, f, D(0))
    BY <2>1 DEF Folds
  <2> QED BY <2>2
<1>3. ASSUME NEW n \in Nat, n \in N PROVE n + 1 \in N
  <2>1. PICK F : Folds(F, f, D(n))
    BY <1>3
  <2> DEFINE H == [s \in D(n + 1) |-> IF s = {} THEN 0 ELSE f[OneOf(s)] + F[s \ {OneOf(s)}]]
  <2>2. ASSUME NEW s \in D(n + 1), s # {} PROVE s \ {OneOf(s)} \in D(n)
    <3>1. OneOf(s) \in s
      BY <2>2 DEF OneOf
    <3>2. Cardinality(s \ {OneOf(s)}) = Cardinality(s) - 1
      BY <1>1, <3>1, FS_RemoveElement
    <3>3. Cardinality(s) \in Nat /\ Cardinality(s) <= n + 1
      BY <1>1
    <3>4. Cardinality(s) - 1 <= n
      BY <3>3
    <3> QED BY <3>2, <3>4
  <2>3. \A s \in D(n) : s \in D(n + 1)
    BY <1>1
  <2> HIDE DEF D
  <2>4. \A s \in D(n) : H[s] = F[s]
    BY <2>1, <2>3 DEF Folds
  <2>5. Folds(H, f, D(n + 1))
    BY <2>2, <2>4 DEF Folds
  <2> QED BY <2>5
<1>4. Cardinality(S) \in N
  <2> HIDE DEF N
  <2> QED BY <1>1, <1>2, <1>3, AllNumbers
<1>5. D(Cardinality(S)) = SUBSET S
  BY FS_Subset
<1> QED BY <1>4, <1>5

\* F has the sums of f over the subsets of S.
Sums(F, f, S) ==
    /\ F \in [SUBSET S -> Int] /\ F[{}] = 0
    /\ \A T \in SUBSET S : \A x \in T : F[T] = f[x] + F[T \ {x}]

\* Whichever member is taken first, it has the sums.
LEMMA FoldsAreSums ==
    ASSUME NEW S, IsFiniteSet(S), NEW f, \A x \in S : f[x] \in Int, NEW F, Folds(F, f, SUBSET S)
    PROVE  Sums(F, f, S)
<1>1. \A T \in SUBSET S : /\ IsFiniteSet(T) /\ Cardinality(T) \in Nat
                          /\ T = {} <=> Cardinality(T) = 0
                          /\ \A x \in T : Cardinality(T \ {x}) = Cardinality(T) - 1
  BY FS_Subset, FS_CardinalityType, FS_EmptySet, FS_RemoveElement
<1>2. F[{}] = 0
  BY DEF Folds
<1>3. ASSUME NEW T \in SUBSET S, T # {}
      PROVE  OneOf(T) \in T /\ F[T] = f[OneOf(T)] + F[T \ {OneOf(T)}]
  BY <1>3 DEF Folds, OneOf
<1>4. \A T \in SUBSET S : F[T] \in Int
  <2> DEFINE N == {n \in Nat : \A T \in SUBSET S : Cardinality(T) = n => F[T] \in Int}
  <2>1. 0 \in N
    <3>1. \A T \in SUBSET S : Cardinality(T) = 0 => F[T] = 0
      BY <1>1, <1>2
    <3> QED BY <3>1
  <2>2. ASSUME NEW n \in Nat, n \in N PROVE n + 1 \in N
    <3> SUFFICES ASSUME NEW T \in SUBSET S, Cardinality(T) = n + 1 PROVE F[T] \in Int
      OBVIOUS
    <3>1. T # {}
      BY <1>1
    <3>2. OneOf(T) \in T /\ F[T] = f[OneOf(T)] + F[T \ {OneOf(T)}]
      BY <1>3, <3>1
    <3>3. Cardinality(T \ {OneOf(T)}) = (n + 1) - 1 /\ T \ {OneOf(T)} \in SUBSET S
      BY <1>1, <3>2
    <3>4. F[T \ {OneOf(T)}] \in Int
      BY <2>2, <3>3
    <3> QED BY <3>2, <3>4
  <2> HIDE DEF N
  <2>3. Nat \subseteq N
    BY <2>1, <2>2, AllNumbers
  <2> QED BY <1>1, <2>3 DEF N
<1>5. \A T \in SUBSET S : \A x \in T : F[T] = f[x] + F[T \ {x}]
  <2> DEFINE N == {n \in Nat : \A T \in SUBSET S : Cardinality(T) = n => \A x \in T : F[T] = f[x] + F[T \ {x}]}
  <2>1. 0 \in N
    <3>1. \A T \in SUBSET S : Cardinality(T) = 0 => T = {}
      BY <1>1
    <3> QED BY <3>1
  <2>2. ASSUME NEW n \in Nat, n \in N PROVE n + 1 \in N
    <3> SUFFICES ASSUME NEW T \in SUBSET S, Cardinality(T) = n + 1, NEW x \in T
                 PROVE  F[T] = f[x] + F[T \ {x}]
      OBVIOUS
    <3> DEFINE c == OneOf(T)
               U == T \ {c}
               V == T \ {x}
    <3>1. c \in T /\ F[T] = f[c] + F[U]
      BY <1>3
    <3>2. U \in SUBSET S /\ V \in SUBSET S /\ Cardinality(U) = (n + 1) - 1 /\ Cardinality(V) = (n + 1) - 1
      BY <1>1, <3>1
    <3>3. \A W \in SUBSET S : Cardinality(W) = n => \A y \in W : F[W] = f[y] + F[W \ {y}]
      BY <2>2
    <3> HIDE DEF c
    <3>4. CASE c = x
      BY <3>1, <3>4
    <3>5. CASE c # x
      <4>1. x \in U /\ c \in V /\ U \ {x} = V \ {c}
        BY <3>1, <3>5
      <4> HIDE DEF U, V
      <4>2. F[U] = f[x] + F[U \ {x}] /\ F[V] = f[c] + F[V \ {c}]
        BY <3>2, <3>3, <4>1
      <4>3. f[x] \in Int /\ f[c] \in Int /\ F[U \ {x}] \in Int
        BY <1>4, <3>1, <3>2
      <4>4. F[T] = f[c] + (f[x] + F[U \ {x}]) /\ F[V] = f[c] + F[U \ {x}]
        BY <3>1, <4>1, <4>2
      <4>5. \A a, b, d \in Int : a + (b + d) = b + (a + d)
        OBVIOUS
      <4>6. F[T] = f[x] + F[V]
        BY <4>3, <4>4, <4>5
      <4> QED BY <4>6 DEF V
    <3> QED BY <3>4, <3>5
  <2> HIDE DEF N
  <2>3. Nat \subseteq N
    BY <2>1, <2>2, AllNumbers
  <2> QED BY <1>1, <2>3 DEF N
<1>6. F \in [SUBSET S -> Int]
  <2>1. F = [T \in SUBSET S |-> F[T]]
    BY DEF Folds
  <2> QED BY <1>4, <2>1
<1> QED BY <1>2, <1>5, <1>6 DEF Sums

\* The sum of a function is one of its sums.
LEMMA SumIsOne ==
    ASSUME NEW f, IsFiniteSet(DOMAIN f), \A x \in DOMAIN f : f[x] \in Int
    PROVE  \E F : Sums(F, f, DOMAIN f) /\ SumFunction(f) = F[DOMAIN f]
<1> DEFINE S == DOMAIN f
           A == CHOOSE F : Folds(F, f, SUBSET S)
<1>1. SumFunction(f) = A[S]
  BY DEF SumFunction, SumFunctionOnSet, FoldFunctionOnSet, MapThenFoldSet, Folds, OneOf
<1>2. Folds(A, f, SUBSET S)
  BY FoldsExist
<1> HIDE DEF A
<1>3. Sums(A, f, S)
  BY <1>2, FoldsAreSums
<1> QED BY <1>1, <1>3

\* What agrees on a set sums up alike over it, whatever else it sums up.
LEMMA SumsAgree ==
    ASSUME NEW S, NEW R, NEW f, NEW g, NEW F, NEW G, Sums(F, f, S), Sums(G, g, R),
           NEW T, IsFiniteSet(T), T \subseteq S, T \subseteq R, \A x \in T : f[x] = g[x]
    PROVE  F[T] = G[T]
<1> DEFINE A == {U \in SUBSET T : F[U] = G[U]}
<1>1. {} \in A
  BY DEF Sums
<1>2. ASSUME NEW U \in SUBSET T, NEW x \in T \ U, U \in A PROVE U \cup {x} \in A
  <2>1. (U \cup {x}) \ {x} = U /\ U \cup {x} \in SUBSET S /\ U \cup {x} \in SUBSET R /\ x \in U \cup {x}
    OBVIOUS
  <2>2. F[U \cup {x}] = f[x] + F[(U \cup {x}) \ {x}] /\ G[U \cup {x}] = g[x] + G[(U \cup {x}) \ {x}]
    BY <2>1 DEF Sums
  <2> QED BY <1>2, <2>1, <2>2
<1> HIDE DEF A
<1>3. SUBSET T \subseteq A
  BY <1>1, <1>2, AllSubsets
<1>4. T \in A
  BY <1>3
<1> QED BY <1>4 DEF A

\* What is added up of integers is one.
LEMMA SumIsInt ==
    ASSUME NEW S, IsFiniteSet(S), NEW f \in [S -> Int]
    PROVE  SumFunction(f) \in Int
<1>1. DOMAIN f = S /\ \A x \in S : f[x] \in Int
  OBVIOUS
<1>2. PICK F : Sums(F, f, S) /\ SumFunction(f) = F[S]
  BY <1>1, SumIsOne
<1> QED BY <1>2 DEF Sums

\* The empty sum is 0.
LEMMA SumOfNothing ==
    ASSUME NEW f, DOMAIN f = {}
    PROVE  SumFunction(f) = 0
<1>1. IsFiniteSet({})
  BY FS_EmptySet
<1>2. PICK F : Sums(F, f, {}) /\ SumFunction(f) = F[{}]
  BY <1>1, SumIsOne
<1> QED BY <1>2 DEF Sums

\* A member contributes its value, whichever it is.
LEMMA SumSplits ==
    ASSUME NEW S, IsFiniteSet(S), NEW f \in [S -> Int], NEW x \in S
    PROVE  SumFunction(f) = f[x] + SumFunction([y \in S \ {x} |-> f[y]])
<1> DEFINE g == [y \in S \ {x} |-> f[y]]
<1>1. DOMAIN f = S /\ \A y \in S : f[y] \in Int
  OBVIOUS
<1>2. DOMAIN g = S \ {x} /\ (\A y \in S \ {x} : g[y] \in Int /\ f[y] = g[y]) /\ IsFiniteSet(S \ {x})
  BY FS_Subset
<1> HIDE DEF g
<1>3. PICK F : Sums(F, f, S) /\ SumFunction(f) = F[S]
  BY <1>1, SumIsOne
<1>4. PICK G : Sums(G, g, S \ {x}) /\ SumFunction(g) = G[S \ {x}]
  BY <1>2, SumIsOne
<1>5. F[S] = f[x] + F[S \ {x}]
  BY <1>3 DEF Sums
<1>6. F[S \ {x}] = G[S \ {x}]
  BY <1>2, <1>3, <1>4, SumsAgree
<1> QED BY <1>3, <1>4, <1>5, <1>6 DEF g

\* Sums over all subsets, to reason by the members.
Part(f, T) == [y \in T |-> f[y]]

\* A further member adds its value to a part.
LEMMA PartGrows ==
    ASSUME NEW S, IsFiniteSet(S), NEW f \in [S -> Int], NEW T \in SUBSET S, NEW x \in S \ T
    PROVE  /\ SumFunction(Part(f, T)) \in Int
           /\ SumFunction(Part(f, T \cup {x})) = f[x] + SumFunction(Part(f, T))
<1>1. IsFiniteSet(T) /\ IsFiniteSet(T \cup {x})
  BY FS_Subset
<1>2. Part(f, T) \in [T -> Int] /\ Part(f, T \cup {x}) \in [T \cup {x} -> Int]
  BY DEF Part
<1>3. (T \cup {x}) \ {x} = T /\ Part(f, T \cup {x})[x] = f[x]
  BY DEF Part
<1>4. [y \in (T \cup {x}) \ {x} |-> Part(f, T \cup {x})[y]] = Part(f, T)
  BY DEF Part
<1>5. SumFunction(Part(f, T)) \in Int
  BY <1>1, <1>2, SumIsInt
<1>6. x \in T \cup {x}
  OBVIOUS
<1>7. SumFunction(Part(f, T \cup {x})) = Part(f, T \cup {x})[x] + SumFunction([y \in (T \cup {x}) \ {x} |-> Part(f, T \cup {x})[y]])
  <2> DEFINE R == T \cup {x}
             q == Part(f, R)
  <2>1. IsFiniteSet(R) /\ q \in [R -> Int] /\ x \in R
    BY <1>1, <1>2, <1>6
  <2> HIDE DEF R, q
  <2>2. SumFunction(q) = q[x] + SumFunction([y \in R \ {x} |-> q[y]])
    BY <2>1, SumSplits
  <2> QED BY <2>2 DEF R, q
<1> QED BY <1>3, <1>4, <1>5, <1>7

\* The same, for all functions at once.
LEMMA PartsGrow ==
    ASSUME NEW S, IsFiniteSet(S)
    PROVE  \A f \in [S -> Int] : \A T \in SUBSET S : \A x \in S \ T :
              /\ SumFunction(Part(f, T)) \in Int
              /\ SumFunction(Part(f, T \cup {x})) = f[x] + SumFunction(Part(f, T))
  BY PartGrows

\* The parts begin with nothing and end with the whole.
LEMMA PartOfNothing == ASSUME NEW f PROVE SumFunction(Part(f, {})) = 0
  BY SumOfNothing DEF Part

LEMMA PartOfAll == ASSUME NEW S, NEW f \in [S -> Int] PROVE Part(f, S) = f
  BY DEF Part

\* The sum of a combination is the combination of the sums.
Combines(h, a, f, b, g, S) ==
    /\ f \in [S -> Int] /\ g \in [S -> Int] /\ h \in [S -> Int] /\ a \in Int /\ b \in Int
    /\ \A x \in S : h[x] = a * f[x] + b * g[x]

\* A sum is linear in its terms.
LEMMA SumLinear ==
    ASSUME NEW S, IsFiniteSet(S), NEW f, NEW g, NEW h, NEW a, NEW b, Combines(h, a, f, b, g, S)
    PROVE  SumFunction(h) = a * SumFunction(f) + b * SumFunction(g)
<1> DEFINE A == {T \in SUBSET S : SumFunction(Part(h, T)) = a * SumFunction(Part(f, T)) + b * SumFunction(Part(g, T))}
<1>0. f \in [S -> Int] /\ g \in [S -> Int] /\ h \in [S -> Int] /\ a \in Int /\ b \in Int
  BY DEF Combines
<1>1. {} \in A
  BY <1>0, PartOfNothing
<1>2. ASSUME NEW T \in SUBSET S, NEW x \in S \ T, T \in A PROVE T \cup {x} \in A
  <2> DEFINE u == SumFunction(Part(f, T))
             v == SumFunction(Part(g, T))
             w == SumFunction(Part(h, T))
  <2>0. T \in SUBSET S /\ x \in S \ T
    OBVIOUS
  <2> HIDE DEF A
  <2>1. u \in Int /\ SumFunction(Part(f, T \cup {x})) = f[x] + u
    <3>1. SumFunction(Part(f, T)) \in Int
      BY <1>0, <2>0, PartsGrow
    <3>2. SumFunction(Part(f, T \cup {x})) = f[x] + SumFunction(Part(f, T))
      BY <1>0, <2>0, PartsGrow
    <3> QED BY <3>1, <3>2
  <2>2. v \in Int /\ SumFunction(Part(g, T \cup {x})) = g[x] + v
    <3>1. SumFunction(Part(g, T)) \in Int
      BY <1>0, <2>0, PartsGrow
    <3>2. SumFunction(Part(g, T \cup {x})) = g[x] + SumFunction(Part(g, T))
      BY <1>0, <2>0, PartsGrow
    <3> QED BY <3>1, <3>2
  <2>3. SumFunction(Part(h, T \cup {x})) = h[x] + w /\ w = a * u + b * v
    <3>1. SumFunction(Part(h, T \cup {x})) = h[x] + w
      BY <1>0, <2>0, PartsGrow
    <3> QED BY <1>2, <3>1 DEF A
  <2>4. f[x] \in Int /\ g[x] \in Int /\ h[x] = a * f[x] + b * g[x]
    BY <1>0, <2>0 DEF Combines
  <2>5. \A p, q, r, s \in Int : (a * p + b * q) + (a * r + b * s) = a * (p + r) + b * (q + s)
    BY <1>0
  <2> HIDE DEF u, v, w
  <2>6. SumFunction(Part(h, T \cup {x})) = a * (f[x] + u) + b * (g[x] + v)
    <3>0. f[x] \in Int /\ g[x] \in Int /\ u \in Int /\ v \in Int
      BY <2>1, <2>2, <2>4
    <3>1. (a * f[x] + b * g[x]) + (a * u + b * v) = a * (f[x] + u) + b * (g[x] + v)
      BY <2>5, <3>0, ZenonT(30)
    <3>2. SumFunction(Part(h, T \cup {x})) = (a * f[x] + b * g[x]) + (a * u + b * v)
      BY <2>3, <2>4, Zenon
    <3> QED BY <3>1, <3>2, Zenon
  <2>7. T \cup {x} \in SUBSET S
    OBVIOUS
  <2> QED BY <2>1, <2>2, <2>6, <2>7 DEF A, u, v
<1> HIDE DEF A
<1>3. SUBSET S \subseteq A
  BY <1>1, <1>2, AllSubsets
<1>4. S \in A
  BY <1>3
<1>5. Part(f, S) = f /\ Part(g, S) = g /\ Part(h, S) = h
  BY <1>0, PartOfAll
<1> QED BY <1>4, <1>5 DEF A

\* A sum grows with its terms.
LEMMA SumMonotone ==
    ASSUME NEW S, IsFiniteSet(S), NEW f \in [S -> Int], NEW g \in [S -> Int], \A x \in S : f[x] <= g[x]
    PROVE  SumFunction(f) <= SumFunction(g)
<1> DEFINE A == {T \in SUBSET S : SumFunction(Part(f, T)) <= SumFunction(Part(g, T))}
<1>1. {} \in A
  BY PartOfNothing
<1>2. ASSUME NEW T \in SUBSET S, NEW x \in S \ T, T \in A PROVE T \cup {x} \in A
  <2> DEFINE u == SumFunction(Part(f, T))
             v == SumFunction(Part(g, T))
  <2>0. T \in SUBSET S /\ x \in S \ T
    OBVIOUS
  <2> HIDE DEF A
  <2>1. u \in Int /\ SumFunction(Part(f, T \cup {x})) = f[x] + u
    BY <2>0, PartsGrow
  <2>2. v \in Int /\ SumFunction(Part(g, T \cup {x})) = g[x] + v
    BY <2>0, PartsGrow
  <2>3. f[x] \in Int /\ g[x] \in Int /\ f[x] <= g[x] /\ u <= v
    BY <1>2 DEF A
  <2> HIDE DEF u, v
  <2>4. f[x] + u <= g[x] + v
    BY <2>1, <2>2, <2>3
  <2>5. T \cup {x} \in SUBSET S
    OBVIOUS
  <2> QED BY <2>1, <2>2, <2>4, <2>5 DEF A
<1> HIDE DEF A
<1>3. SUBSET S \subseteq A
  BY <1>1, <1>2, AllSubsets
<1>4. S \in A
  BY <1>3
<1>5. Part(f, S) = f /\ Part(g, S) = g
  BY PartOfAll
<1> QED BY <1>4, <1>5 DEF A

\* A sum of equal terms is a product.
LEMMA SumConstant ==
    ASSUME NEW S, IsFiniteSet(S), NEW c \in Int
    PROVE  SumFunction([x \in S |-> c]) = Cardinality(S) * c
<1> DEFINE f == [x \in S |-> c]
           A == {T \in SUBSET S : SumFunction(Part(f, T)) = Cardinality(T) * c}
<1>1. {} \in A
  BY PartOfNothing, FS_EmptySet
<1>2. ASSUME NEW T \in SUBSET S, NEW x \in S \ T, T \in A PROVE T \cup {x} \in A
  <2>1. f \in [S -> Int] /\ f[x] = c
    OBVIOUS
  <2>2. IsFiniteSet(T) /\ Cardinality(T) \in Nat /\ Cardinality(T \cup {x}) = Cardinality(T) + 1
    BY FS_Subset, FS_CardinalityType, FS_AddElement
  <2> HIDE DEF f
  <2>3. SumFunction(Part(f, T \cup {x})) = c + SumFunction(Part(f, T))
    BY <2>1, PartGrows
  <2>4. SumFunction(Part(f, T)) = Cardinality(T) * c
    BY <1>2
  <2>5. \A k \in Nat : c + k * c = (k + 1) * c
    OBVIOUS
  <2>6. T \cup {x} \in SUBSET S
    OBVIOUS
  <2> QED BY <2>2, <2>3, <2>4, <2>5, <2>6
<1> HIDE DEF A
<1>3. SUBSET S \subseteq A
  BY <1>1, <1>2, AllSubsets
<1>4. S \in A
  BY <1>3
<1>5. f \in [S -> Int]
  OBVIOUS
<1>6. Part(f, S) = f
  BY <1>5, PartOfAll
<1> QED BY <1>4, <1>6 DEF A

\* What is not negative adds up to no less than each of them.
LEMMA SumBounds ==
    ASSUME NEW S, IsFiniteSet(S), NEW f \in [S -> Int], \A x \in S : f[x] >= 0
    PROVE  SumFunction(f) \in Int /\ SumFunction(f) >= 0 /\ \A x \in S : SumFunction(f) >= f[x]
<1>1. \A T \in SUBSET S : SumFunction(Part(f, T)) \in Int /\ SumFunction(Part(f, T)) >= 0
  <2> SUFFICES ASSUME NEW T \in SUBSET S
               PROVE  SumFunction(Part(f, T)) \in Int /\ SumFunction(Part(f, T)) >= 0
    OBVIOUS
  <2> DEFINE z == [x \in T |-> 0]
             g == Part(f, T)
  <2>1. IsFiniteSet(T) /\ Cardinality(T) \in Nat
    BY FS_Subset, FS_CardinalityType
  <2>2. z \in [T -> Int] /\ g \in [T -> Int] /\ \A x \in T : z[x] <= g[x]
    BY DEF Part
  <2>3. SumFunction(z) = Cardinality(T) * 0
    <3>1. 0 \in Int
      OBVIOUS
    <3> QED BY <2>1, <3>1, SumConstant
  <2> HIDE DEF z, g
  <2>4. SumFunction(z) <= SumFunction(g) /\ SumFunction(g) \in Int
    BY <2>1, <2>2, SumMonotone, SumIsInt
  <2>5. Cardinality(T) * 0 = 0
    BY <2>1
  <2> QED BY <2>3, <2>4, <2>5 DEF g
<1>2. Part(f, S) = f
  BY PartOfAll
<1>3. ASSUME NEW x \in S PROVE SumFunction(f) >= f[x]
  <2>1. SumFunction(f) = f[x] + SumFunction(Part(f, S \ {x}))
    BY SumSplits DEF Part
  <2>2. SumFunction(Part(f, S \ {x})) \in Int /\ SumFunction(Part(f, S \ {x})) >= 0
    BY <1>1
  <2> QED BY <2>1, <2>2
<1>4. S \in SUBSET S
  OBVIOUS
<1> QED BY <1>1, <1>2, <1>3, <1>4

\* One value more or less makes the difference.
LEMMA SumChanges ==
    ASSUME NEW S, IsFiniteSet(S), NEW f \in [S -> Int], NEW g \in [S -> Int], NEW x \in S,
           \A y \in S \ {x} : f[y] = g[y]
    PROVE  SumFunction(g) = SumFunction(f) - f[x] + g[x]
<1>1. SumFunction(f) = f[x] + SumFunction(Part(f, S \ {x})) /\ SumFunction(g) = g[x] + SumFunction(Part(g, S \ {x}))
  BY SumSplits DEF Part
<1>2. Part(f, S \ {x}) = Part(g, S \ {x})
  BY DEF Part
<1>3. IsFiniteSet(S \ {x}) /\ Part(f, S \ {x}) \in [S \ {x} -> Int]
  BY FS_Subset DEF Part
<1>4. SumFunction(Part(f, S \ {x})) \in Int
  BY <1>3, SumIsInt
<1> QED BY <1>1, <1>2, <1>4
=================================================================================
