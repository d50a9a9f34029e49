------------------------- MODULE EnvelopeStoreProofs -------------------------
(***************************************************************************)
(* Proofs about the record store, for every universe of envelopes, keys    *)
(* and evidence and every budget: its type invariant, the exactness of the *)
(* evidence queue, the safety of live records, the exactness of the byte   *)
(* totals it keeps by hand and the budgets of its three tables, and that   *)
(* nothing superseded is lost while the history has room.                  *)
(*                                                                         *)
(* The totals are folds over sets, so the module starts with what a proof  *)
(* about them needs: induction over the natural numbers and over finite    *)
(* sets, stated with a set for the induction hypothesis, and the sum of a  *)
(* function over a finite set.                                             *)
(***************************************************************************)
EXTENDS EnvelopeStore, SequenceTheorems, FiniteSetTheorems, WellFoundedInduction, TLAPS

-----------------------------------------------------------------------------
(*****************************************************************************)
(* Induction over the natural numbers, and functions defined step by step.   *)
(*****************************************************************************)

\* A non-empty set of natural numbers has a least element.
LEMMA LeastNat ==
    ASSUME NEW T, T \subseteq Nat, T # {}
    PROVE  \E x \in T : \A y \in T : x <= y
<1> DEFINE R == OpToRel(<,Nat)
<1>1. IsWellFoundedOn(R, Nat)
  BY NatLessThanWellFounded, Zenon
<1>2. \A p, q \in Nat : p < q => <<p, q>> \in R
  BY Zenon DEF OpToRel
<1> HIDE DEF R
<1>3. PICK x \in T : \A y \in T : ~(<<y, x>> \in R)
  BY <1>1, WFMin, Zenon
<1>4. \A y \in T : ~(y < x)
  BY <1>2, <1>3, Zenon
<1> QED
  BY <1>4

\* A set with 0, and with the successor of every natural number in it, has them
\* all.
LEMMA SetInduction ==
    ASSUME NEW T, 0 \in T, \A n \in Nat : n \in T => n + 1 \in T
    PROVE  Nat \subseteq T
<1> SUFFICES ASSUME Nat \ T # {} PROVE FALSE
  BY Zenon
<1>1. PICK x \in Nat \ T : \A y \in Nat \ T : x <= y
  BY LeastNat, Zenon
<1>2. x # 0 /\ x - 1 \in Nat /\ x - 1 \notin Nat \ T
  BY <1>1
<1> QED
  BY <1>1, <1>2

\* The steps of an iteration, and what it means for a function to follow them.
Steps(N, S) == [1 .. N -> [S -> S]]
Iterates(g, N, x, F) == g[0] = x /\ \A i \in 1 .. N : g[i] = F[i][g[i - 1]]

\* An iteration of any length exists.
LEMMA Iterated ==
    ASSUME NEW N \in Nat, NEW S, NEW x \in S, NEW F \in Steps(N, S)
    PROVE  \E g \in [0 .. N -> S] : Iterates(g, N, x, F)
<1> USE DEF Steps, Iterates
<1> DEFINE Upto(n) == \E g \in [0 .. n -> S] : g[0] = x /\ \A i \in 1 .. n : g[i] = F[i][g[i - 1]]
           T == {n \in Nat : n <= N => Upto(n)}
<1>1. 0 \in T
  <2>1. [i \in 0 .. 0 |-> x] \in [0 .. 0 -> S] /\ [i \in 0 .. 0 |-> x][0] = x
    OBVIOUS
  <2>2. \A i \in 1 .. 0 : FALSE
    OBVIOUS
  <2> QED
    BY <2>1, <2>2, Zenon
<1>2. ASSUME NEW n \in Nat, n \in T PROVE n + 1 \in T
  <2> SUFFICES ASSUME n + 1 <= N PROVE Upto(n + 1)
    OBVIOUS
  <2>1. PICK g \in [0 .. n -> S] : g[0] = x /\ \A i \in 1 .. n : g[i] = F[i][g[i - 1]]
    BY <1>2
  <2> DEFINE h == [i \in 0 .. n + 1 |-> IF i = n + 1 THEN F[n + 1][g[n]] ELSE g[i]]
  <2>2. F[n + 1] \in [S -> S] /\ g[n] \in S
    BY <2>1
  <2>3. F[n + 1][g[n]] \in S
    BY <2>2, Zenon
  <2>4. h \in [0 .. n + 1 -> S]
    BY <2>1, <2>3
  <2>5. h[0] = x /\ h[n + 1] = F[n + 1][g[n]] /\ \A i \in 0 .. n : h[i] = g[i]
    BY <2>1
  <2> HIDE DEF h
  <2>6. ASSUME NEW i \in 1 .. n + 1 PROVE h[i] = F[i][h[i - 1]]
    <3>1. CASE i = n + 1
      BY <2>5, <3>1
    <3>2. CASE i \in 1 .. n
      BY <2>1, <2>5, <3>2
    <3> QED
      BY <3>1, <3>2
  <2> QED
    BY <2>4, <2>5, <2>6, Zenon
<1> HIDE DEF T
<1>3. N \in T
  BY <1>1, <1>2, SetInduction, Zenon
<1> QED
  BY <1>3 DEF T

-----------------------------------------------------------------------------
(***************************************************************************)
(* Finite sets.                                                            *)
(***************************************************************************)

\* A collection with the empty set, and with T \cup {x} for every T in it and
\* every x in S but not in T, has S if S is finite.
LEMMA FiniteInduction ==
    ASSUME NEW S, IsFiniteSet(S), NEW Q, {} \in Q,
           \A T \in SUBSET S : \A x \in S \ T : T \in Q => T \cup {x} \in Q
    PROVE  S \in Q
<1> DEFINE Z == {n \in Nat : \A T \in SUBSET S : Cardinality(T) = n => T \in Q}
<1>1. 0 \in Z
  <2>1. ASSUME NEW T \in SUBSET S, Cardinality(T) = 0 PROVE T \in Q
    <3>1. IsFiniteSet(T)
      BY FS_Subset, Zenon
    <3> QED
      BY <2>1, <3>1, FS_EmptySet, Zenon
  <2> QED
    BY <2>1, Zenon
<1>2. ASSUME NEW n \in Nat, n \in Z PROVE n + 1 \in Z
  <2>1. ASSUME NEW T \in SUBSET S, Cardinality(T) = n + 1 PROVE T \in Q
    <3>1. IsFiniteSet(T)
      BY FS_Subset, Zenon
    <3>2. T # {}
      <4>1. Cardinality({}) = 0 /\ n + 1 # 0
        BY FS_EmptySet
      <4> QED
        BY <2>1, <4>1, Zenon
    <3>3. PICK x \in T : TRUE
      BY <3>2, Zenon
    <3> DEFINE U == T \ {x}
    <3>4. Cardinality(U) = n
      <4>1. Cardinality(U) = Cardinality(T) - 1
        BY <3>1, FS_RemoveElement, Zenon
      <4> QED
        BY <2>1, <4>1
    <3>5. U \in Q
      BY <1>2, <3>4, Zenon
    <3>6. U \in SUBSET S /\ x \in S \ U /\ U \cup {x} = T
      BY Zenon
    <3> HIDE DEF U
    <3> QED
      BY <3>5, <3>6, Zenon
  <2> QED
    BY <2>1
<1> HIDE DEF Z
<1>3. Cardinality(S) \in Z
  BY <1>1, <1>2, SetInduction, FS_CardinalityType, Zenon
<1> QED
  BY <1>3, Zenon DEF Z

\* The element a sum takes out first.
Some(s) == CHOOSE x \in s : TRUE

\* f is the sum of w over every subset of S.
IsSum(f, S, w) ==
    f = [s \in SUBSET S |-> IF s = {} THEN 0 ELSE w[Some(s)] + f[s \ {Some(s)}]]

\* The sum of w over S.
Total(w, S) == (CHOOSE f : IsSum(f, S, w))[S]

\* Every finite set has sums.
LEMMA SumExists ==
    ASSUME NEW S, IsFiniteSet(S), NEW w, \A x \in S : w[x] \in Int
    PROVE  \E f \in [SUBSET S -> Int] : IsSum(f, S, w)
<1> DEFINE Unfold(f) == [s \in SUBSET S |-> IF s = {} THEN 0 ELSE w[Some(s)] + f[s \ {Some(s)}]]
           Upto(n) == \E f \in [SUBSET S -> Int] : \A s \in SUBSET S : Cardinality(s) <= n => f[s] = Unfold(f)[s]
           Z == {n \in Nat : Upto(n)}
<1>0. \A s \in SUBSET S : s # {} => Some(s) \in s /\ s \ {Some(s)} \in SUBSET S
  BY Zenon DEF Some
<1>1. ASSUME NEW f \in [SUBSET S -> Int] PROVE Unfold(f) \in [SUBSET S -> Int]
  <2> SUFFICES ASSUME NEW s \in SUBSET S, s # {} PROVE w[Some(s)] + f[s \ {Some(s)}] \in Int
    OBVIOUS
  <2>1. w[Some(s)] \in Int /\ f[s \ {Some(s)}] \in Int
    BY <1>0, Zenon
  <2> QED
    BY <2>1
<1>2. 0 \in Z
  <2> DEFINE f0 == [s \in SUBSET S |-> 0]
  <2>1. f0 \in [SUBSET S -> Int]
    OBVIOUS
  <2>2. ASSUME NEW s \in SUBSET S, Cardinality(s) <= 0 PROVE f0[s] = Unfold(f0)[s]
    <3>1. IsFiniteSet(s)
      BY FS_Subset, Zenon
    <3>2. Cardinality(s) = 0
      BY <2>2, <3>1, FS_CardinalityType
    <3>3. s = {}
      BY <3>1, <3>2, FS_EmptySet, Zenon
    <3> QED
      BY <3>3, Zenon
  <2> HIDE DEF f0, Unfold
  <2> QED
    BY <2>1, <2>2, Zenon
<1>3. ASSUME NEW n \in Nat, n \in Z PROVE n + 1 \in Z
  <2>1. PICK f \in [SUBSET S -> Int] : \A s \in SUBSET S : Cardinality(s) <= n => f[s] = Unfold(f)[s]
    BY <1>3, Zenon
  <2> DEFINE h == Unfold(f)
  <2>2. h \in [SUBSET S -> Int]
    BY <1>1, Zenon
  <2>3. ASSUME NEW s \in SUBSET S, Cardinality(s) <= n + 1 PROVE h[s] = Unfold(h)[s]
    <3>1. CASE s = {}
      BY <3>1, Zenon
    <3>2. CASE s # {}
      <4> DEFINE t == s \ {Some(s)}
      <4>1. t \in SUBSET S /\ IsFiniteSet(s) /\ Some(s) \in s
        BY <1>0, <3>2, FS_Subset, Zenon
      <4>2. Cardinality(t) <= n
        <5>1. Cardinality(t) = Cardinality(s) - 1 /\ Cardinality(s) \in Nat
          BY <4>1, FS_RemoveElement, FS_CardinalityType, Zenon
        <5> QED
          BY <2>3, <5>1
      <4>3. f[t] = h[t]
        BY <2>1, <4>1, <4>2, Zenon
      <4>4. h[s] = w[Some(s)] + f[t]
        BY <3>2, Zenon
      <4>5. Unfold(h)[s] = w[Some(s)] + h[t]
        BY <3>2, Zenon
      <4> HIDE DEF h, Unfold, t
      <4> QED
        BY <4>3, <4>4, <4>5, Zenon
    <3> QED
      BY <3>1, <3>2, Zenon
  <2> HIDE DEF h, Unfold
  <2> QED
    BY <2>2, <2>3
<1> HIDE DEF Z
<1>4. Cardinality(S) \in Z
  BY <1>2, <1>3, SetInduction, FS_CardinalityType, Zenon
<1>5. PICK f \in [SUBSET S -> Int] : \A s \in SUBSET S : Cardinality(s) <= Cardinality(S) => f[s] = Unfold(f)[s]
  BY <1>4, Zenon DEF Z
<1>6. \A s \in SUBSET S : f[s] = Unfold(f)[s]
  BY <1>5, FS_Subset, Zenon
<1>7. f = Unfold(f)
  <2>1. Unfold(f) \in [SUBSET S -> Int]
    BY <1>1, Zenon
  <2> HIDE DEF Unfold
  <2> QED
    BY <1>6, <2>1
<1> QED
  BY <1>7, Zenon DEF IsSum

\* There is only one.
LEMMA SumUnique ==
    ASSUME NEW S, IsFiniteSet(S), NEW w, NEW f, NEW g, IsSum(f, S, w), IsSum(g, S, w)
    PROVE  f = g
<1> DEFINE Z == {n \in Nat : \A s \in SUBSET S : Cardinality(s) = n => f[s] = g[s]}
<1>0. \A s \in SUBSET S : s # {} => Some(s) \in s /\ s \ {Some(s)} \in SUBSET S
  BY Zenon DEF Some
<1>a. /\ \A s \in SUBSET S : f[s] = IF s = {} THEN 0 ELSE w[Some(s)] + f[s \ {Some(s)}]
      /\ \A s \in SUBSET S : g[s] = IF s = {} THEN 0 ELSE w[Some(s)] + g[s \ {Some(s)}]
      /\ DOMAIN f = SUBSET S /\ DOMAIN g = SUBSET S
      /\ f = [s \in SUBSET S |-> f[s]] /\ g = [s \in SUBSET S |-> g[s]]
  BY Zenon DEF IsSum
<1>1. 0 \in Z
  <2>1. ASSUME NEW s \in SUBSET S, Cardinality(s) = 0 PROVE f[s] = g[s]
    <3>1. s = {}
      BY <2>1, FS_Subset, FS_EmptySet, Zenon
    <3> QED
      BY <1>a, <3>1, Zenon
  <2> QED
    BY <2>1, Zenon
<1>2. ASSUME NEW n \in Nat, n \in Z PROVE n + 1 \in Z
  <2>1. ASSUME NEW s \in SUBSET S, Cardinality(s) = n + 1 PROVE f[s] = g[s]
    <3>1. CASE s = {}
      BY <1>a, <3>1, Zenon
    <3>2. CASE s # {}
      <4> DEFINE t == s \ {Some(s)}
      <4>1. t \in SUBSET S /\ IsFiniteSet(s) /\ Some(s) \in s
        BY <1>0, <3>2, FS_Subset, Zenon
      <4>2. Cardinality(t) = n
        <5>1. Cardinality(t) = Cardinality(s) - 1
          BY <4>1, FS_RemoveElement, Zenon
        <5> QED
          BY <2>1, <5>1
      <4>3. f[t] = g[t]
        BY <1>2, <4>1, <4>2, Zenon
      <4>4. f[s] = w[Some(s)] + f[t] /\ g[s] = w[Some(s)] + g[t]
        BY <1>a, <3>2, Zenon
      <4> QED
        BY <4>3, <4>4, Zenon
    <3> QED
      BY <3>1, <3>2, Zenon
  <2> QED
    BY <2>1
<1> HIDE DEF Z
<1>3. Nat \subseteq Z
  BY <1>1, <1>2, SetInduction, Zenon
<1>4. \A s \in SUBSET S : f[s] = g[s]
  <2> SUFFICES ASSUME NEW s \in SUBSET S PROVE f[s] = g[s]
    BY Zenon
  <2>1. Cardinality(s) \in Nat
    BY FS_Subset, FS_CardinalityType, Zenon
  <2>2. Cardinality(s) \in Z
    BY <1>3, <2>1, Zenon
  <2> QED
    BY <2>2, Zenon DEF Z
<1> QED
  BY <1>a, <1>4, Zenon

\* The sum over a subset comes from the sums of the set, and only the values of
\* w on it matter.
LEMMA SumOfPart ==
    ASSUME NEW S, IsFiniteSet(S), NEW T \in SUBSET S, NEW w, NEW v, NEW f, IsSum(f, S, w),
           \A x \in S : w[x] \in Int, \A x \in T : v[x] = w[x]
    PROVE  f[T] = Total(v, T) /\ f[T] \in Int
<1> DEFINE g == [s \in SUBSET T |-> f[s]]
<1>0. IsFiniteSet(T)
  BY FS_Subset, Zenon
<1>1. \A s \in SUBSET S : f[s] = IF s = {} THEN 0 ELSE w[Some(s)] + f[s \ {Some(s)}]
  BY Zenon DEF IsSum
<1>2. \A s \in SUBSET T : s # {} => Some(s) \in T /\ s \ {Some(s)} \in SUBSET T
  BY Zenon DEF Some
<1>3. IsSum(g, T, v)
  <2>1. ASSUME NEW s \in SUBSET T
        PROVE  g[s] = IF s = {} THEN 0 ELSE v[Some(s)] + g[s \ {Some(s)}]
    <3>1. CASE s = {}
      BY <1>1, <3>1, Zenon
    <3>2. CASE s # {}
      <4>1. g[s] = w[Some(s)] + f[s \ {Some(s)}]
        BY <1>1, <3>2, Zenon
      <4>2. w[Some(s)] = v[Some(s)] /\ f[s \ {Some(s)}] = g[s \ {Some(s)}]
        BY <1>2, <3>2, Zenon
      <4> QED
        BY <3>2, <4>1, <4>2, Zenon
    <3> QED
      BY <3>1, <3>2, Zenon
  <2> DEFINE b == [s \in SUBSET T |-> IF s = {} THEN 0 ELSE v[Some(s)] + g[s \ {Some(s)}]]
  <2>2. \A s \in SUBSET T : g[s] = b[s]
    BY <2>1, Zenon
  <2>3. g = b
    BY <2>2, Zenon
  <2> HIDE DEF g
  <2> QED
    BY <2>3, Zenon DEF IsSum
<1>4. g = CHOOSE h : IsSum(h, T, v)
  <2> DEFINE c == CHOOSE h : IsSum(h, T, v)
  <2>1. IsSum(c, T, v)
    BY <1>3, Zenon
  <2> HIDE DEF c, g
  <2>2. g = c
    BY <1>0, <1>3, <2>1, SumUnique, Zenon
  <2> QED
    BY <2>2, Zenon DEF c
<1>5. g[T] = f[T]
  BY Zenon
<1>6. f[T] \in Int
  <2>1. PICK h \in [SUBSET S -> Int] : IsSum(h, S, w)
    BY SumExists, Zenon
  <2>2. f = h
    BY <2>1, SumUnique, Zenon
  <2> QED
    BY <2>1, <2>2, Zenon
<1> HIDE DEF g
<1> QED
  BY <1>4, <1>5, <1>6, Zenon DEF Total

\* The sums of a set, as one function.
LEMMA TotalSum ==
    ASSUME NEW S, IsFiniteSet(S), NEW w, \A x \in S : w[x] \in Int
    PROVE  \E f \in [SUBSET S -> Int] : IsSum(f, S, w) /\ \A T \in SUBSET S : f[T] = Total(w, T)
<1>1. PICK f \in [SUBSET S -> Int] : IsSum(f, S, w)
  BY SumExists, Zenon
<1>2. \A T \in SUBSET S : f[T] = Total(w, T)
  BY <1>1, SumOfPart
<1> QED
  BY <1>1, <1>2, Zenon

\* A sum of integers is an integer, and 0 over the empty set.
LEMMA TotalType ==
    ASSUME NEW S, IsFiniteSet(S), NEW w, \A x \in S : w[x] \in Int
    PROVE  Total(w, S) \in Int /\ Total(w, {}) = 0
<1>1. PICK f \in [SUBSET S -> Int] : IsSum(f, S, w) /\ \A T \in SUBSET S : f[T] = Total(w, T)
  BY TotalSum, Zenon
<1>2. f[{}] = 0 /\ f[S] \in Int
  BY <1>1, Zenon DEF IsSum
<1> QED
  BY <1>1, <1>2, Zenon

\* Only the values on the set matter.
LEMMA TotalSame ==
    ASSUME NEW S, IsFiniteSet(S), NEW w, NEW v, \A x \in S : w[x] \in Int, \A x \in S : v[x] = w[x]
    PROVE  Total(v, S) = Total(w, S)
<1>1. PICK f \in [SUBSET S -> Int] : IsSum(f, S, w)
  BY SumExists, Zenon
<1>2. S \in SUBSET S
  BY Zenon
<1>3. f[S] = Total(v, S) /\ f[S] = Total(w, S)
  BY <1>1, <1>2, SumOfPart
<1> QED
  BY <1>3, Zenon

\* Any element may be taken out first.
LEMMA TotalTake ==
    ASSUME NEW S, IsFiniteSet(S), NEW w, \A x \in S : w[x] \in Int, NEW y \in S
    PROVE  Total(w, S) = w[y] + Total(w, S \ {y})
<1>1. PICK f \in [SUBSET S -> Int] : IsSum(f, S, w) /\ \A T \in SUBSET S : f[T] = Total(w, T)
  BY TotalSum, Zenon
<1>2. \A s \in SUBSET S : s # {} => Some(s) \in s /\ f[s] = w[Some(s)] + f[s \ {Some(s)}]
  BY <1>1, Zenon DEF IsSum, Some
<1> DEFINE Z == {n \in Nat : \A s \in SUBSET S : Cardinality(s) = n => \A x \in s : f[s] = w[x] + f[s \ {x}]}
<1>3. 0 \in Z
  <2>1. ASSUME NEW s \in SUBSET S, Cardinality(s) = 0 PROVE s = {}
    BY <2>1, FS_Subset, FS_EmptySet, Zenon
  <2> QED
    BY <2>1, Zenon
<1>4. ASSUME NEW n \in Nat, n \in Z PROVE n + 1 \in Z
  <2>1. ASSUME NEW s \in SUBSET S, Cardinality(s) = n + 1, NEW x \in s PROVE f[s] = w[x] + f[s \ {x}]
    <3> DEFINE c == Some(s)
    <3>1. c \in s /\ f[s] = w[c] + f[s \ {c}] /\ IsFiniteSet(s)
      BY <1>2, FS_Subset, Zenon
    <3>2. CASE x = c
      BY <3>1, <3>2, Zenon
    <3>3. CASE x # c
      <4>1. Cardinality(s \ {c}) = n /\ Cardinality(s \ {x}) = n
        <5>1. Cardinality(s \ {c}) = Cardinality(s) - 1 /\ Cardinality(s \ {x}) = Cardinality(s) - 1
          BY <3>1, FS_RemoveElement, ZenonT(30)
        <5> QED
          BY <2>1, <5>1
      <4>2. s \ {c} \in SUBSET S /\ s \ {x} \in SUBSET S /\ x \in s \ {c} /\ c \in s \ {x}
        BY <3>1, <3>3, Zenon
      <4>3. f[s \ {c}] = w[x] + f[(s \ {c}) \ {x}]
        BY <1>4, <4>1, <4>2, Zenon
      <4>4. f[s \ {x}] = w[c] + f[(s \ {x}) \ {c}]
        BY <1>4, <4>1, <4>2, Zenon
      <4>5. (s \ {c}) \ {x} = (s \ {x}) \ {c} /\ (s \ {x}) \ {c} \in SUBSET S
        BY Zenon
      <4> DEFINE rest == f[(s \ {x}) \ {c}]
                 noC == f[s \ {c}]
                 noX == f[s \ {x}]
      <4>6. w[x] \in Int /\ w[c] \in Int /\ rest \in Int
        BY <1>1, <3>1, <4>5, Zenon
      <4>7. noC = w[x] + rest /\ noX = w[c] + rest /\ f[s] = w[c] + noC
        BY <3>1, <4>3, <4>4, <4>5, Zenon
      <4> HIDE DEF c, rest, noC, noX
      <4>8. f[s] = w[x] + noX
        BY <4>6, <4>7
      <4> QED
        BY <4>8, Zenon DEF noX
    <3> QED
      BY <3>2, <3>3, Zenon
  <2> QED
    BY <2>1
<1> HIDE DEF Z
<1>5. Cardinality(S) \in Z
  BY <1>3, <1>4, SetInduction, FS_CardinalityType, Zenon
<1>6. f[S] = w[y] + f[S \ {y}]
  BY <1>5, Zenon DEF Z
<1>7. S \in SUBSET S /\ S \ {y} \in SUBSET S
  BY Zenon
<1> QED
  BY <1>1, <1>6, <1>7, Zenon

\* A sum splits over a subset and the rest.
LEMMA TotalSplit ==
    ASSUME NEW S, IsFiniteSet(S), NEW w, \A x \in S : w[x] \in Int, NEW T \in SUBSET S
    PROVE  Total(w, S) = Total(w, T) + Total(w, S \ T)
<1> DEFINE Q == {U \in SUBSET T : Total(w, S) = Total(w, U) + Total(w, S \ U)}
<1>0. \A U \in SUBSET S : Total(w, U) \in Int
  <2> SUFFICES ASSUME NEW U \in SUBSET S PROVE Total(w, U) \in Int
    BY Zenon
  <2>1. IsFiniteSet(U) /\ \A x \in U : w[x] \in Int
    BY FS_Subset, Zenon
  <2> QED
    BY <2>1, TotalType, Zenon
<1>1. {} \in Q
  <2>1. Total(w, {}) = 0 /\ S \ {} = S
    BY TotalType, Zenon
  <2> QED
    BY <1>0, <2>1
<1>2. ASSUME NEW U \in SUBSET T, NEW x \in T \ U, U \in Q PROVE U \cup {x} \in Q
  <2>1. IsFiniteSet(U \cup {x}) /\ IsFiniteSet(S \ U) /\ \A y \in U \cup {x} : w[y] \in Int
    BY FS_Subset
  <2>2. \A y \in S \ U : w[y] \in Int
    BY Zenon
  <2>3. x \in U \cup {x} /\ (U \cup {x}) \ {x} = U /\ x \in S \ U /\ (S \ U) \ {x} = S \ (U \cup {x})
    BY Zenon
  <2>4. Total(w, U \cup {x}) = w[x] + Total(w, (U \cup {x}) \ {x})
    BY <2>1, <2>3, TotalTake, Zenon
  <2>5. Total(w, S \ U) = w[x] + Total(w, (S \ U) \ {x})
    BY <2>1, <2>2, <2>3, TotalTake, Zenon
  <2>6. w[x] \in Int /\ Total(w, U) \in Int /\ Total(w, S \ (U \cup {x})) \in Int
    BY <1>0, Zenon
  <2>7. Total(w, S) = Total(w, U) + Total(w, S \ U)
    BY <1>2, Zenon
  <2> DEFINE more == Total(w, U \cup {x})
             less == Total(w, S \ (U \cup {x}))
             rest == Total(w, S \ U)
  <2>8. more = w[x] + Total(w, U) /\ rest = w[x] + less
    BY <2>3, <2>4, <2>5, Zenon
  <2>9. w[x] \in Int /\ Total(w, U) \in Int /\ less \in Int /\ Total(w, S) = Total(w, U) + rest
    BY <2>6, <2>7, Zenon
  <2> HIDE DEF more, less, rest
  <2>10. Total(w, S) = more + less
    BY <2>8, <2>9
  <2> QED
    BY <2>10, Zenon DEF more, less
<1>3. IsFiniteSet(T)
  BY FS_Subset, Zenon
<1> HIDE DEF Q
<1>4. T \in Q
  BY <1>1, <1>2, <1>3, FiniteInduction, Zenon
<1> QED
  BY <1>4, Zenon DEF Q

\* A sum of natural numbers is one, and no part of it is larger.
LEMMA TotalNat ==
    ASSUME NEW S, IsFiniteSet(S), NEW w, \A x \in S : w[x] \in Nat
    PROVE  Total(w, S) \in Nat /\ \A T \in SUBSET S : Total(w, T) \in Nat /\ Total(w, T) <= Total(w, S)
<1> DEFINE Q == {U \in SUBSET S : Total(w, U) \in Nat}
<1>0. \A x \in S : w[x] \in Int
  OBVIOUS
<1>1. ASSUME NEW T \in SUBSET S PROVE Total(w, T) \in Nat
  <2>1. {} \in Q
    BY <1>0, TotalType
  <2>2. ASSUME NEW U \in SUBSET T, NEW x \in T \ U, U \in Q PROVE U \cup {x} \in Q
    <3>1. IsFiniteSet(U \cup {x}) /\ \A y \in U \cup {x} : w[y] \in Int
      BY <1>0, FS_Subset
    <3>2. x \in U \cup {x} /\ (U \cup {x}) \ {x} = U
      BY Zenon
    <3>3. Total(w, U \cup {x}) = w[x] + Total(w, U)
      BY <3>1, <3>2, TotalTake
    <3>4. w[x] \in Nat
      BY Zenon
    <3> QED
      BY <2>2, <3>3, <3>4
  <2>3. IsFiniteSet(T)
    BY FS_Subset, Zenon
  <2> HIDE DEF Q
  <2>4. T \in Q
    BY <2>1, <2>2, <2>3, FiniteInduction, Zenon
  <2> QED
    BY <2>4, Zenon DEF Q
<1>2. ASSUME NEW T \in SUBSET S PROVE Total(w, T) <= Total(w, S)
  <2>1. Total(w, S) = Total(w, T) + Total(w, S \ T)
    BY <1>0, TotalSplit, Zenon
  <2>2. Total(w, T) \in Nat /\ Total(w, S \ T) \in Nat
    BY <1>1, Zenon
  <2> QED
    BY <2>1, <2>2
<1> QED
  BY <1>1, <1>2, Zenon

-----------------------------------------------------------------------------
(***************************************************************************)
(* Counting: sequences without repetitions, ranks, and taking the least    *)
(* elements away until a budget is met.                                    *)
(***************************************************************************)

\* A one-to-one function between finite sets of the same size reaches all.
LEMMA OneToOneOnto ==
    ASSUME NEW S, NEW T, IsFiniteSet(T), Cardinality(S) = Cardinality(T), NEW f \in [S -> T],
           \A x, y \in S : f[x] = f[y] => x = y
    PROVE  \A t \in T : \E s \in S : f[s] = t
<1>1. f \in Injection(S, T)
  BY Zenon DEF Injection, IsInjective
<1>2. f \in Surjection(S, T)
  BY <1>1, FS_Injection, Zenon
<1> QED
  BY <1>2, Zenon DEF Surjection

\* A set listed without repetitions has as many elements as the list.
LEMMA CountListed ==
    ASSUME NEW n \in Nat, NEW T, NEW f \in [1 .. n -> T], \A i, j \in 1 .. n : f[i] = f[j] => i = j,
           \A t \in T : \E i \in 1 .. n : f[i] = t
    PROVE  IsFiniteSet(T) /\ Cardinality(T) = n
<1>1. f \in Bijection(1 .. n, T)
  BY Zenon DEF Injection, IsInjective, Surjection, Bijection
<1>2. ExistsBijection(1 .. n, T)
  BY <1>1, Zenon DEF ExistsBijection
<1>3. Cardinality(T) = n
  BY <1>2, FS_CountingElements, Zenon
<1>4. IsFiniteSet(T)
  BY <1>2, FS_NatBijection, Zenon
<1> QED
  BY <1>3, <1>4, Zenon

\* older[x] is what precedes x in a total order of R.
Precedes(R, older) ==
    /\ older \in [R -> SUBSET R]
    /\ \A x \in R : x \notin older[x]
    /\ \A x, y \in R : x = y \/ x \in older[y] \/ y \in older[x]
    /\ \A x, y \in R : x \in older[y] => older[x] \subseteq older[y]

\* The ranks of a finite total order are distinct, and none is missing.
LEMMA Ranks ==
    ASSUME NEW R, IsFiniteSet(R), NEW older, Precedes(R, older)
    PROVE  /\ \A x \in R : Cardinality(older[x]) \in 0 .. Cardinality(R) - 1
           /\ \A x, y \in R : Cardinality(older[x]) = Cardinality(older[y]) => x = y
           /\ \A i \in 0 .. Cardinality(R) - 1 : \E x \in R : Cardinality(older[x]) = i
<1> DEFINE n == Cardinality(R)
           f == [x \in R |-> Cardinality(older[x])]
<1>0. n \in Nat /\ \A x \in R : older[x] \in SUBSET R /\ IsFiniteSet(older[x])
  <2>1. \A x \in R : older[x] \in SUBSET R
    BY Zenon DEF Precedes
  <2>2. \A T \in SUBSET R : IsFiniteSet(T)
    BY FS_Subset, Zenon
  <2> QED
    BY <2>1, <2>2, FS_CardinalityType, Zenon
<1>1. ASSUME NEW x \in R, NEW y \in R, x \in older[y]
      PROVE  Cardinality(older[x]) < Cardinality(older[y])
  <2>1. older[x] \in SUBSET older[y] /\ older[x] # older[y]
    BY <1>1, Zenon DEF Precedes
  <2>2. IsFiniteSet(older[x]) /\ IsFiniteSet(older[y])
    BY <1>0, Zenon
  <2>3. Cardinality(older[x]) <= Cardinality(older[y]) /\ Cardinality(older[x]) # Cardinality(older[y])
    BY <2>1, <2>2, FS_Subset, Zenon
  <2>4. Cardinality(older[x]) \in Nat /\ Cardinality(older[y]) \in Nat
    BY <2>2, FS_CardinalityType, Zenon
  <2> QED
    BY <2>3, <2>4
<1>2. ASSUME NEW x \in R PROVE Cardinality(older[x]) \in 0 .. n - 1
  <2>1. older[x] \in SUBSET R /\ older[x] # R /\ IsFiniteSet(older[x])
    BY <1>0, Zenon DEF Precedes
  <2>2. Cardinality(older[x]) <= n /\ n # Cardinality(older[x])
    BY <2>1, FS_Subset, Zenon
  <2>3. Cardinality(older[x]) \in Nat
    BY <2>1, FS_CardinalityType, Zenon
  <2> QED
    BY <1>0, <2>2, <2>3
<1>3. ASSUME NEW x \in R, NEW y \in R, Cardinality(older[x]) = Cardinality(older[y]) PROVE x = y
  <2>1. Cardinality(older[x]) \in Int
    BY <1>2
  <2> QED
    BY <1>1, <1>3, <2>1 DEF Precedes
<1>4. f \in [R -> 0 .. n - 1] /\ \A x, y \in R : f[x] = f[y] => x = y
  BY <1>2, <1>3, Zenon
<1>5. IsFiniteSet(0 .. n - 1) /\ Cardinality(0 .. n - 1) = n
  BY <1>0, FS_Interval
<1>6. \A i \in 0 .. n - 1 : \E x \in R : f[x] = i
  <2> DEFINE I == 0 .. n - 1
  <2>1. f \in [R -> I] /\ IsFiniteSet(I) /\ Cardinality(R) = Cardinality(I)
    BY <1>4, <1>5, Zenon
  <2> HIDE DEF f, I
  <2>2. \A i \in I : \E x \in R : f[x] = i
    BY <1>4, <2>1, OneToOneOnto
  <2> QED
    BY <2>2, Zenon DEF I
<1> QED
  BY <1>2, <1>3, <1>6, Zenon

\* Take away every x for which, all that precede it gone, more than one of N is
\* left and either more than most are or the load is over the cap.  Then all
\* of R is gone, or what is left is within most and the cap, or a single one.
LEMMA Drained ==
    ASSUME NEW R, IsFiniteSet(R), NEW older, Precedes(R, older), NEW w, \A x \in R : w[x] \in Nat,
           NEW N \in Int, NEW most \in Int, NEW load \in Int, NEW cap \in Int, NEW gone \in SUBSET R,
           \A x \in R : x \in gone <=>
              /\ N - Cardinality(older[x]) > 1
              /\ N - Cardinality(older[x]) > most \/ load - Total(w, older[x]) > cap
    PROVE  \/ gone = R
           \/ N - Cardinality(gone) <= 1
           \/ N - Cardinality(gone) <= most /\ load - Total(w, gone) <= cap
<1> SUFFICES ASSUME R \ gone # {}
             PROVE  \/ N - Cardinality(gone) <= 1
                    \/ N - Cardinality(gone) <= most /\ load - Total(w, gone) <= cap
  BY Zenon
<1> DEFINE T == {Cardinality(older[x]) : x \in R \ gone}
<1>1. T \subseteq Nat /\ T # {}
  BY Ranks
<1>2. PICK t \in T : \A u \in T : t <= u
  BY <1>1, LeastNat, Zenon
<1>3. PICK x \in R \ gone : t = Cardinality(older[x])
  BY Zenon
<1>4. \A y \in R \ gone : Cardinality(older[x]) <= Cardinality(older[y])
  BY <1>2, <1>3, Zenon
<1> HIDE DEF T
<1>5. ASSUME NEW y \in R PROVE /\ older[y] \in SUBSET R /\ IsFiniteSet(older[y])
                               /\ Cardinality(older[y]) \in Nat /\ Total(w, older[y]) \in Nat
  <2>1. older[y] \in SUBSET R
    BY Zenon DEF Precedes
  <2>2. IsFiniteSet(older[y])
    BY <2>1, FS_Subset, Zenon
  <2>3. Total(w, older[y]) \in Nat
    BY <2>1, TotalNat, Zenon
  <2> QED
    BY <2>1, <2>2, <2>3, FS_CardinalityType, Zenon
<1>6. ASSUME NEW y \in R, NEW z \in R, y \in older[z]
      PROVE  /\ Cardinality(older[y]) < Cardinality(older[z])
             /\ Total(w, older[y]) <= Total(w, older[z])
  <2>1. older[y] \in SUBSET older[z] /\ older[y] # older[z]
    BY <1>6, Zenon DEF Precedes
  <2>2. Cardinality(older[y]) <= Cardinality(older[z]) /\ Cardinality(older[y]) # Cardinality(older[z])
    BY <1>5, <2>1, FS_Subset, Zenon
  <2>3. \A v \in older[z] : w[v] \in Nat
    BY <1>5, Zenon
  <2>4. Total(w, older[y]) <= Total(w, older[z])
    BY <1>5, <2>1, <2>3, TotalNat, Zenon
  <2> QED
    BY <1>5, <2>2, <2>4
<1>7. older[x] \subseteq gone
  <2> SUFFICES ASSUME NEW y \in older[x], y \notin gone PROVE FALSE
    BY Zenon
  <2>1. y \in R
    BY <1>5, Zenon
  <2>2. Cardinality(older[y]) < Cardinality(older[x])
    BY <1>6, <2>1, Zenon
  <2> QED
    BY <1>4, <1>5, <2>1, <2>2
<1>8. gone \subseteq older[x]
  <2> SUFFICES ASSUME NEW y \in gone, y \notin older[x] PROVE FALSE
    BY Zenon
  <2>1. x \in older[y]
    BY Zenon DEF Precedes
  <2>2. Cardinality(older[x]) < Cardinality(older[y]) /\ Total(w, older[x]) <= Total(w, older[y])
    BY <1>6, <2>1, Zenon
  <2> QED
    BY <1>5, <2>2
<1>9. gone = older[x]
  BY <1>7, <1>8, Zenon
<1> QED
  BY <1>5, <1>9

\* Renaming the elements of a set keeps the sum.
LEMMA TotalRename ==
    ASSUME NEW S, IsFiniteSet(S), NEW T, NEW f \in [S -> T], \A x, y \in S : f[x] = f[y] => x = y,
           \A t \in T : \E x \in S : f[x] = t, NEW w, NEW v, \A x \in S : v[x] \in Int /\ w[f[x]] = v[x]
    PROVE  Total(w, T) = Total(v, S)
<1> DEFINE Im(U) == {f[x] : x \in U}
           Q == {U \in SUBSET S : Total(w, Im(U)) = Total(v, U)}
<1>1. {} \in Q
  <2>1. Im({}) = {} /\ IsFiniteSet({}) /\ \A u : \A x \in {} : u[x] \in Int
    BY FS_EmptySet, Zenon
  <2>2. Total(w, {}) = 0 /\ Total(v, {}) = 0
    BY <2>1, TotalType, Zenon
  <2> QED
    BY <2>1, <2>2, Zenon
<1>2. ASSUME NEW U \in SUBSET S, NEW x \in S \ U, U \in Q PROVE U \cup {x} \in Q
  <2> DEFINE V == U \cup {x}
             I == Im(V)
  <2>1. IsFiniteSet(U) /\ IsFiniteSet(V)
    BY FS_Subset
  <2>2. x \in V /\ V \ {x} = U /\ V \in SUBSET S /\ f[x] \in I /\ I \ {f[x]} = Im(U)
    OBVIOUS
  <2>3. IsFiniteSet(I)
    <3>1. [y \in V |-> f[y]] \in Surjection(V, I)
      BY Zenon DEF Surjection
    <3> QED
      BY <2>1, <3>1, FS_Surjection, Zenon
  <2>4. (\A y \in V : v[y] \in Int) /\ (\A y \in I : w[y] \in Int)
    OBVIOUS
  <2>5. w[f[x]] = v[x] /\ Total(w, Im(U)) = Total(v, U)
    BY <1>2, Zenon
  <2> DEFINE J == Im(U)
  <2> HIDE DEF V, I, J
  <2>6. Total(v, V) = v[x] + Total(v, V \ {x})
    BY <2>1, <2>2, <2>4, TotalTake
  <2>7. Total(w, I) = w[f[x]] + Total(w, I \ {f[x]})
    <3> DEFINE t == f[x]
    <3>1. t \in I
      BY <2>2, Zenon
    <3> HIDE DEF t
    <3>2. Total(w, I) = w[t] + Total(w, I \ {t})
      BY <2>3, <2>4, <3>1, TotalTake
    <3> QED
      BY <3>2, Zenon DEF t
  <2>8. Total(w, I) = Total(v, V)
    BY <2>2, <2>5, <2>6, <2>7, Zenon
  <2> QED
    BY <2>2, <2>8, Zenon DEF V, I
<1> HIDE DEF Q
<1>3. S \in Q
  BY <1>1, <1>2, FiniteInduction, Zenon
<1>4. Im(S) = T
  OBVIOUS
<1> QED
  BY <1>3, <1>4, Zenon DEF Q

-----------------------------------------------------------------------------
(*****************************************************************************)
(* Types, the evidence queue and live records.                               *)
(*****************************************************************************)

StoreInv == TypeOK /\ EvidenceQueueExact

Injective(q) == \A i, j \in DOMAIN q : q[i] = q[j] => i = j
Lists(q, h) == \E i \in DOMAIN q : q[i] = h

\* Appending a hash that is not queued keeps the queue free of repetitions.
LEMMA AppendQueue ==
  ASSUME NEW q \in Seq(Hash), Injective(q), NEW h \in Hash, ~Lists(q, h)
  PROVE  /\ Append(q, h) \in Seq(Hash) /\ Injective(Append(q, h))
         /\ \A g \in Hash : Lists(Append(q, h), g) <=> Lists(q, g) \/ g = h
<1>1. /\ Append(q, h) \in Seq(Hash) /\ Len(Append(q, h)) = Len(q) + 1
      /\ Len(q) \in Nat /\ DOMAIN q = 1 .. Len(q)
      /\ DOMAIN Append(q, h) = 1 .. Len(q) + 1
  OBVIOUS
<1>2. \A i \in 1 .. Len(q) + 1 : Append(q, h)[i] = IF i = Len(q) + 1 THEN h ELSE q[i]
  OBVIOUS
<1>3. Injective(Append(q, h))
  BY <1>1, <1>2, SMTT(60) DEF Injective, Lists
<1>4. \A g \in Hash : Lists(Append(q, h), g) <=> Lists(q, g) \/ g = h
  BY <1>1, <1>2, SMTT(60) DEF Lists
<1> QED
  BY <1>1, <1>3, <1>4, Zenon

\* Dropping the first n of a queue without repetitions leaves exactly the rest.
LEMMA DropQueue ==
  ASSUME NEW q \in Seq(Hash), Injective(q), NEW n \in 0 .. Len(q)
  PROVE  LET t == SubSeq(q, n + 1, Len(q))
         IN  /\ t \in Seq(Hash) /\ Injective(t)
             /\ \A g \in Hash : Lists(t, g) <=> Lists(q, g) /\ ~\E i \in 1 .. n : q[i] = g
<1> DEFINE t == SubSeq(q, n + 1, Len(q))
<1>1. /\ Len(q) \in Nat /\ DOMAIN q = 1 .. Len(q) /\ n \in Nat /\ n <= Len(q)
  OBVIOUS
<1>2. /\ t \in Seq(Hash)
      /\ Len(t) = IF n + 1 <= Len(q) THEN Len(q) - (n + 1) + 1 ELSE 0
      /\ \A i \in 1 .. Len(q) - (n + 1) + 1 : t[i] = q[n + 1 + i - 1]
  <2>1. n + 1 \in Int /\ Len(q) \in Int /\ \A i \in n + 1 .. Len(q) : q[i] \in Hash
    BY <1>1
  <2> QED
    BY <2>1, SubSeqProperties, SMTT(60)
<1> HIDE DEF t
<1>3. /\ DOMAIN t = 1 .. Len(q) - n
      /\ \A i \in DOMAIN t : i \in Nat /\ n + i \in DOMAIN q /\ t[i] = q[n + i]
  <2>1. Len(t) = Len(q) - n
    BY <1>1, <1>2, SMTT(60)
  <2>2. DOMAIN t = 1 .. Len(q) - n
    BY <1>2, <2>1, SMTT(60)
  <2>3. ASSUME NEW i \in 1 .. Len(q) - n PROVE t[i] = q[n + i]
    <3>1. i \in 1 .. Len(q) - (n + 1) + 1 /\ n + 1 + i - 1 = n + i
      BY <1>1
    <3> QED
      BY <1>2, <3>1, Zenon
  <2> QED
    BY <1>1, <2>2, <2>3, SMTT(60)
<1>4. Injective(t)
  <2> SUFFICES ASSUME NEW i \in DOMAIN t, NEW j \in DOMAIN t, t[i] = t[j] PROVE i = j
    BY Zenon DEF Injective
  <2>1. q[n + i] = q[n + j] /\ n + i \in DOMAIN q /\ n + j \in DOMAIN q
    BY <1>3, Zenon
  <2>2. n + i = n + j
    BY <2>1, Zenon DEF Injective
  <2> QED
    BY <1>1, <1>3, <2>2, SMTT(60)
<1>5. ASSUME NEW g \in Hash PROVE Lists(t, g) <=> Lists(q, g) /\ ~\E i \in 1 .. n : q[i] = g
  <2>1. ASSUME NEW k \in DOMAIN t, t[k] = g
        PROVE  Lists(q, g) /\ ~\E i \in 1 .. n : q[i] = g
    <3>1. n + k \in DOMAIN q /\ q[n + k] = g
      BY <1>3, <2>1, Zenon
    <3>2. ASSUME NEW i \in 1 .. n, q[i] = g PROVE FALSE
      <4>1. i = n + k
        BY <1>1, <3>1, <3>2, SMTT(60) DEF Injective
      <4> QED
        BY <1>1, <1>3, <4>1, SMTT(60)
    <3> QED
      BY <3>1, <3>2, Zenon DEF Lists
  <2>2. ASSUME NEW k \in DOMAIN q, q[k] = g, ~\E i \in 1 .. n : q[i] = g
        PROVE  Lists(t, g)
    <3>1. k > n
      BY <1>1, <2>2, SMTT(60)
    <3>2. k - n \in DOMAIN t /\ t[k - n] = g
      <4>1. k - n \in DOMAIN t /\ n + (k - n) = k
        BY <1>1, <1>3, <2>2, <3>1, SMTT(60)
      <4> QED
        BY <1>3, <2>2, <4>1, Zenon
    <3> QED
      BY <3>2, Zenon DEF Lists
  <2> QED
    BY <2>1, <2>2, Zenon DEF Lists
<1> QED
  BY <1>2, <1>4, <1>5, Zenon DEF t

\* putEvidenceLocked keeps the table typed and its queue exact: the eviction
\* loop removes the same hashes from both.
LEMMA PutEvidenceInv ==
  ASSUME StoreInv, NEW h \in Hash, NEW b \in Blob, PutEvidence(h, b)
  PROVE  /\ evidence' \in [Hash -> Blob \cup {NoBlob}]
         /\ evidenceOrder' \in Seq(Hash)
         /\ EvidenceQueueExact'
<1> DEFINE q == Queued(h)
           ev == [evidence EXCEPT ![h] = b]
<1>1. /\ evidence \in [Hash -> Blob \cup {NoBlob}] /\ evidenceOrder \in Seq(Hash)
      /\ Injective(evidenceOrder) /\ b # NoBlob
      /\ \A g \in Hash : evidence[g] # NoBlob <=> Lists(evidenceOrder, g)
  BY BlobAssumption, Zenon DEF StoreInv, TypeOK, EvidenceQueueExact, Injective, Lists
<1>2. /\ q \in Seq(Hash) /\ Injective(q)
      /\ \A g \in Hash : ev[g] # NoBlob <=> Lists(q, g)
  <2>1. CASE evidence[h] = NoBlob
    BY <1>1, <2>1, AppendQueue, Zenon DEF Queued
  <2>2. CASE evidence[h] # NoBlob
    BY <1>1, <2>2, Zenon DEF Queued
  <2> QED
    BY <2>1, <2>2, Zenon
<1>3. PICK n \in 0 .. Len(q) - 1 :
        /\ evidenceOrder' = SubSeq(q, n + 1, Len(q))
        /\ evidence' = [g \in Hash |-> IF \E i \in 1 .. n : q[i] = g THEN NoBlob ELSE ev[g]]
  BY Zenon DEF PutEvidence
<1>4. n \in 0 .. Len(q)
  BY <1>2
<1>5. ev \in [Hash -> Blob \cup {NoBlob}]
  BY <1>1, Zenon
<1> HIDE DEF q, ev
<1>6. evidence' \in [Hash -> Blob \cup {NoBlob}]
  BY <1>3, <1>5, Zenon
<1>7. /\ evidenceOrder' \in Seq(Hash) /\ Injective(evidenceOrder')
      /\ \A g \in Hash : Lists(evidenceOrder', g) <=> Lists(q, g) /\ ~\E i \in 1 .. n : q[i] = g
  BY <1>2, <1>3, <1>4, DropQueue, Zenon
<1>8. \A g \in Hash : evidence'[g] # NoBlob <=> Lists(evidenceOrder', g)
  BY <1>2, <1>3, <1>7, Zenon
<1> QED
  BY <1>6, <1>7, <1>8, Zenon DEF EvidenceQueueExact, Injective, Lists

\* retainEvidence either stores a blob of the universe or changes nothing.
LEMMA RetainEvidenceInv ==
  ASSUME StoreInv, NEW h \in Hash, NEW b \in Blob \cup {NoBlob}, RetainEvidence(h, b)
  PROVE  /\ evidence' \in [Hash -> Blob \cup {NoBlob}]
         /\ evidenceOrder' \in Seq(Hash)
         /\ EvidenceQueueExact'
<1>1. CASE ValidBlob(b)
  BY <1>1, PutEvidenceInv, Zenon DEF RetainEvidence, ValidBlob
<1>2. CASE ~ValidBlob(b)
  BY <1>2, Zenon DEF RetainEvidence, evid, StoreInv, TypeOK, EvidenceQueueExact
<1> QED
  BY <1>1, <1>2, Zenon

\* A live map with some keys cleared is still a live map.
LEMMA WithoutType ==
  ASSUME NEW S, NEW F \in [Key -> S], NEW K, NEW none \in S
  PROVE  /\ Without(F, K, none) \in [Key -> S]
         /\ \A k \in Key : Without(F, K, none)[k] \in {F[k], none}
BY Zenon DEF Without

\* Installing h at k gives k at most h and gives every other key nothing new.
LEMMA InstallEntries ==
  ASSUME TypeOK, NEW k \in Key, NEW h \in Hash, Install(k, h)
  PROVE  /\ entries' \in [Key -> Hash \cup {NoHash}]
         /\ access' \in [Key -> Time]
         /\ \A j \in Key : entries'[j] \in {NoHash, IF j = k THEN h ELSE entries[j]}
<1> DEFINE E == [entries EXCEPT ![k] = h]
           A == [access EXCEPT ![k] = now]
           dead == DeadIn(E)
           E1 == Without(E, dead, NoHash)
<1>1. PICK K, L : entries' = Without(E1, K, NoHash) /\ access' = Without(A, L, 0)
  BY Zenon  DEF Install
<1>2. E \in [Key -> Hash \cup {NoHash}] /\ A \in [Key -> Time] /\ 0 \in Time
  BY BudgetAssumption DEF TypeOK, Time
<1>3. \A j \in Key : E[j] = IF j = k THEN h ELSE entries[j]
  BY Zenon DEF TypeOK
<1>4. NoHash \in Hash \cup {NoHash}
  BY Zenon
<1> HIDE DEF E, A, dead
<1>5. /\ E1 \in [Key -> Hash \cup {NoHash}]
      /\ \A j \in Key : E1[j] \in {E[j], NoHash}
  BY <1>2, <1>4, WithoutType, Zenon
<1> HIDE DEF E1
<1>6. /\ entries' \in [Key -> Hash \cup {NoHash}]
      /\ \A j \in Key : entries'[j] \in {E1[j], NoHash}
  BY <1>1, <1>4, <1>5, WithoutType, Zenon
<1>7. access' \in [Key -> Time]
  BY <1>1, <1>2, WithoutType, Zenon
<1> QED
  BY <1>3, <1>5, <1>6, <1>7, Zenon

\* An envelope is only put at keys of the key space.
LEMMA StorageKeysType == \A h \in Hash : StorageKeys(h) \subseteq Key
BY EnvAssumption, Zenon DEF StorageKeys, Envelope

\* Every step keeps the types and the evidence queue.
LEMMA StoreStep == StoreInv /\ [Next]_storeVars => StoreInv'
<1> SUFFICES ASSUME StoreInv, [Next]_storeVars PROVE StoreInv'
  BY Zenon
<1>0. TypeOK /\ EvidenceQueueExact /\ 0 \in Time
  BY BudgetAssumption DEF StoreInv, TypeOK, Time
<1>1. ASSUME NEW h \in Hash, NEW k \in StorageKeys(h), NEW b \in Blob \cup {NoBlob},
             PutAccept(k, h, b)
      PROVE  StoreInv'
  <2>1. k \in Key /\ RetainEvidence(h, b) /\ now' = now /\ PutAccepted(k, h)
    BY <1>1, StorageKeysType, Zenon DEF PutAccept
  <2>2. entries' \in [Key -> Hash \cup {NoHash}] /\ access' \in [Key -> Time]
    <3>1. CASE SameStored(k, h)
      BY <1>0, <2>1, <3>1, Zenon DEF PutAccepted, Touch, TypeOK
    <3>2. CASE ~SameStored(k, h)
      BY <1>0, <2>1, <3>2, InstallEntries, Zenon DEF PutAccepted
    <3> QED
      BY <3>1, <3>2, Zenon
  <2>3. /\ evidence' \in [Hash -> Blob \cup {NoBlob}] /\ evidenceOrder' \in Seq(Hash)
        /\ EvidenceQueueExact'
    BY <2>1, RetainEvidenceInv, Zenon
  <2> QED
    BY <1>0, <2>1, <2>2, <2>3, Zenon DEF StoreInv, TypeOK
<1>2. ASSUME NEW h \in Hash, NEW k \in StorageKeys(h), NEW b \in Blob \cup {NoBlob},
             PutRefuse(k, h, b)
      PROVE  StoreInv'
  <2>1. k \in Key
    BY StorageKeysType, Zenon
  <2> QED
    BY <1>0, <1>2, <2>1, Zenon DEF PutRefuse, Touch, evid, StoreInv, TypeOK, EvidenceQueueExact
<1>3. ASSUME NEW k \in Key, Get(k) PROVE StoreInv'
  BY <1>0, <1>3, SMTT(60) DEF Get, Touch, DropDead, evid, StoreInv, TypeOK, EvidenceQueueExact
<1>4. ASSUME NEW k \in Key, Remove_(k) PROVE StoreInv'
  BY <1>0, <1>4, Zenon DEF Remove_, evid, StoreInv, TypeOK, EvidenceQueueExact
<1>5. ASSUME NEW h \in Hash, NEW b \in Blob, CacheEvidence(h, b) PROVE StoreInv'
  <2>1. PutEvidence(h, b) /\ UNCHANGED <<now, entries, access>>
    BY <1>5, Zenon DEF CacheEvidence, live
  <2> QED
    BY <1>0, <2>1, PutEvidenceInv, Zenon DEF StoreInv, TypeOK
<1>6. CASE Tick
  BY <1>0, <1>6, BudgetAssumption, SMTT(60) DEF Tick, live, evid, StoreInv, TypeOK, EvidenceQueueExact, Time
<1>7. CASE UNCHANGED storeVars
  BY <1>0, <1>7, Zenon DEF storeVars, live, evid, StoreInv, TypeOK, EvidenceQueueExact
<1> QED
  BY <1>1, <1>2, <1>3, <1>4, <1>5, <1>6, <1>7, Zenon DEF Next

\* The empty store of NewEnvelopeStore is well typed and its queue is exact.
LEMMA StoreInitInv == Init => StoreInv
BY BudgetAssumption, SMTT(60) DEF Init, StoreInv, TypeOK, EvidenceQueueExact, NoEntries, NoAccess,
   NoEvidence, Time

\* A newcomer that passes rule 3 of PutWithEvidence is licensed by the record
\* it displaces.
LEMMA DisplaceLicensed ==
  ASSUME TypeOK, NEW h \in Hash, NEW cur \in Hash, NEW b \in Blob \cup {NoBlob},
         MayDisplace(h, cur, b)
  PROVE  EnvelopeWins(h, cur) /\ Licensed(cur, h)
<1>1. EnvelopeWins(h, cur)
  BY Zenon DEF MayDisplace
<1>2. CASE Env[h].prev = NoHash
  BY <1>1, <1>2, Zenon DEF MayDisplace, Licensed
<1>3. CASE Env[h].prev # NoHash /\ Env[h].signer = Env[cur].owner
  BY <1>1, <1>3, Zenon DEF Licensed
<1>4. CASE Env[h].prev # NoHash /\ Env[h].signer # Env[cur].owner
  <2>1. Env[h].prev = cur /\ RecoveryAcceptable(h, cur, b)
    BY <1>4, Zenon DEF MayDisplace, VerifyChainLink
  <2> DEFINE used == IF b # NoBlob THEN b ELSE evidence[h]
  <2>2. used \in Blob
    BY <2>1, Zenon DEF RecoveryAcceptable, TypeOK
  <2>3. /\ Evidence[used].newOwner = Env[h].owner
        /\ VerifyRecovery(Env[cur].policy, Evidence[used], cur, Env[cur].created,
                          Evidence[used].notBefore)
    BY <2>1, Zenon DEF RecoveryAcceptable
  <2> QED
    BY <1>1, <2>1, <2>2, <2>3, Zenon DEF VerifyRecovery, Licensed
<1> QED
  BY <1>1, <1>2, <1>3, <1>4, Zenon

\* No step replaces a live record by an unlicensed or losing one.
LEMMA LiveStep == StoreInv /\ [Next]_storeVars => [LiveRecordStep]_storeVars
<1> SUFFICES ASSUME StoreInv, Next, NEW j \in Key, HasLive(j),
                    entries'[j] \notin {entries[j], NoHash}
             PROVE  EnvelopeWins(entries'[j], entries[j]) /\ Licensed(entries[j], entries'[j])
  BY Zenon DEF LiveRecordStep
<1>0. TypeOK /\ entries[j] \in Hash
  BY Zenon DEF StoreInv, TypeOK, HasLive
<1>1. ASSUME NEW h \in Hash, NEW k \in StorageKeys(h), NEW b \in Blob \cup {NoBlob},
             PutAccept(k, h, b)
      PROVE  EnvelopeWins(entries'[j], entries[j]) /\ Licensed(entries[j], entries'[j])
  <2>1. k \in Key /\ Accepts(k, h, b) /\ PutAccepted(k, h)
    BY <1>1, StorageKeysType, Zenon DEF PutAccept
  <2>2. Install(k, h)
    BY <2>1, Zenon DEF PutAccepted, Touch
  <2>3. k = j /\ entries'[j] = h
    BY <1>0, <2>1, <2>2, InstallEntries, Zenon
  <2>4. MayDisplace(h, entries[j], b)
    BY <2>1, <2>3, Zenon DEF Accepts
  <2> QED
    BY <1>0, <2>3, <2>4, DisplaceLicensed, Zenon
<1>2. ASSUME NEW h \in Hash, NEW k \in StorageKeys(h), NEW b \in Blob \cup {NoBlob},
             PutRefuse(k, h, b)
      PROVE  FALSE
  BY <1>2, Zenon DEF PutRefuse, Touch
<1>3. ASSUME NEW k \in Key, Get(k) PROVE FALSE
  BY <1>0, <1>3, Zenon DEF Get, Touch, DropDead, TypeOK
<1>4. ASSUME NEW k \in Key, Remove_(k) PROVE FALSE
  BY <1>0, <1>4, Zenon DEF Remove_, TypeOK
<1>5. ASSUME NEW h \in Hash, NEW b \in Blob, CacheEvidence(h, b) PROVE FALSE
  BY <1>5, Zenon DEF CacheEvidence, live
<1>6. CASE Tick
  BY <1>6, Zenon DEF Tick, live
<1> QED
  BY <1>1, <1>2, <1>3, <1>4, <1>5, <1>6, Zenon DEF Next

\* The tables of the record store keep their types under every operation.
THEOREM StoreTypes == Spec => []TypeOK
<1>1. StoreInv => TypeOK
  BY Zenon  DEF StoreInv
<1> QED
  BY StoreInitInv, StoreStep, <1>1, PTL DEF Spec

\* putEvidenceLocked: the FIFO queue and the evidence table never disagree.
THEOREM EvidenceQueue == Spec => []EvidenceQueueExact
<1>1. StoreInv => EvidenceQueueExact
  BY Zenon DEF StoreInv
<1> QED
  BY StoreInitInv, StoreStep, <1>1, PTL DEF Spec

\* PutWithEvidence: a live record is displaced only by a winner that its own
\* owner, recovery policy or live parent licenses, for any history of calls.
THEOREM LiveRecords == Spec => LiveRecordSafe
BY StoreInitInv, StoreStep, LiveStep, PTL DEF Spec, LiveRecordSafe

-----------------------------------------------------------------------------
(***************************************************************************)
(* The totals the store keeps by hand, as sums.                            *)
(***************************************************************************)

Sizes == [h \in Hash |-> Env[h].size]
Loads(E) == [k \in Key |-> Env[E[k]].size]
Lens(ev, order) == [i \in 1 .. Len(order) |-> Evidence[ev[order[i]]].len]

\* Records have a size, and the hashes and the keys are finitely many.
LEMMA SizeTypes ==
    /\ \A h \in Hash : Env[h].size \in Nat
    /\ \A b \in Blob : Evidence[b].len \in Nat
    /\ \A S \in SUBSET Hash : IsFiniteSet(S) /\ Cardinality(S) \in Nat
    /\ \A K \in SUBSET Key : IsFiniteSet(K) /\ Cardinality(K) \in Nat
<1>1. \A h \in Hash : Env[h].size \in Nat
  BY EnvAssumption, Zenon DEF Envelope
<1>2. \A b \in Blob : Evidence[b].len \in Nat
  BY EvidenceAssumption, Zenon DEF EvidenceRecord
<1>3. \A S \in SUBSET Hash : IsFiniteSet(S)
  BY HashAssumption, FS_Subset, Zenon
<1>4. \A S \in SUBSET Key : IsFiniteSet(S)
  BY KeyAssumption, FS_Subset, Zenon
<1> QED
  BY <1>1, <1>2, <1>3, <1>4, FS_CardinalityType, Zenon

\* The size of a set of records is the sum of their sizes.
LEMMA SizeSum ==
  ASSUME NEW S \in SUBSET Hash
  PROVE  SizeOf(S) = Total(Sizes, S)
<1>0. IsFiniteSet(S) /\ \A x \in S : Sizes[x] \in Int
  BY SizeTypes DEF Sizes
<1>1. PICK f \in [SUBSET S -> Int] : IsSum(f, S, Sizes) /\ \A T \in SUBSET S : f[T] = Total(Sizes, T)
  BY <1>0, TotalSum, Zenon
<1> DEFINE Rec(g) == [s \in SUBSET S |-> IF s = {} THEN 0 ELSE Env[Some(s)].size + g[s \ {Some(s)}]]
           c == CHOOSE g : g = Rec(g)
<1>2. \A s \in SUBSET S : s # {} => Sizes[Some(s)] = Env[Some(s)].size
  BY Zenon DEF Some, Sizes
<1>3. \A g : IsSum(g, S, Sizes) <=> g = Rec(g)
  BY <1>2, Zenon DEF IsSum
<1>4. SizeOf(S) = c[S]
  BY Zenon DEF SizeOf, MapThenSumSet, MapThenFoldSet, Some
<1>5. c = Rec(c)
  BY <1>1, <1>3, Zenon
<1> HIDE DEF c
<1>6. IsSum(c, S, Sizes)
  BY <1>3, <1>5, Zenon
<1>7. c = f
  BY <1>0, <1>1, <1>6, SumUnique, Zenon
<1> QED
  BY <1>1, <1>4, <1>7, Zenon

\* The load of a set of keys is the sum of the sizes of their records.
LEMMA LoadSum ==
  ASSUME NEW E \in [Key -> Hash \cup {NoHash}], NEW K \in SUBSET Held(E)
  PROVE  LoadOf(E, K) = Total(Loads(E), K)
<1>0. IsFiniteSet(K) /\ \A x \in K : Loads(E)[x] \in Int
  BY SizeTypes DEF Loads, Held
<1>1. PICK f \in [SUBSET K -> Int] : IsSum(f, K, Loads(E)) /\ \A T \in SUBSET K : f[T] = Total(Loads(E), T)
  BY <1>0, TotalSum, Zenon
<1> DEFINE Rec(g) == [s \in SUBSET K |-> IF s = {} THEN 0 ELSE Env[E[Some(s)]].size + g[s \ {Some(s)}]]
           c == CHOOSE g : g = Rec(g)
<1>2. \A s \in SUBSET K : s # {} => Loads(E)[Some(s)] = Env[E[Some(s)]].size
  BY Zenon DEF Some, Loads, Held
<1>3. \A g : IsSum(g, K, Loads(E)) <=> g = Rec(g)
  BY <1>2, Zenon DEF IsSum
<1>4. LoadOf(E, K) = c[K]
  BY Zenon DEF LoadOf, MapThenSumSet, MapThenFoldSet, Some
<1>5. c = Rec(c)
  BY <1>1, <1>3, Zenon
<1> HIDE DEF c
<1>6. IsSum(c, K, Loads(E))
  BY <1>3, <1>5, Zenon
<1>7. c = f
  BY <1>0, <1>1, <1>6, SumUnique, Zenon
<1> QED
  BY <1>1, <1>4, <1>7, Zenon

\* The bytes of the first m blobs queued are the sum of their lengths.
LEMMA BlobSum ==
  ASSUME NEW order \in Seq(Hash), NEW ev, \A i \in 1 .. Len(order) : ev[order[i]] \in Blob,
         NEW m \in 0 .. Len(order)
  PROVE  BlobBytes(ev, order, m) = Total(Lens(ev, order), 1 .. m)
<1> DEFINE S == 1 .. m
           w == Lens(ev, order)
<1>a. \A x \in S : x \in 1 .. Len(order) /\ w[x] = Evidence[ev[order[x]]].len
  BY DEF Lens
<1>b. IsFiniteSet(S)
  <2>1. 1 \in Int /\ m \in Int
    OBVIOUS
  <2> QED
    BY <2>1, FS_Interval, Zenon
<1>0. IsFiniteSet(S) /\ \A x \in S : w[x] \in Int
  <2> HIDE DEF S, w
  <2> QED
    BY <1>a, <1>b, SizeTypes
<1>1. PICK f \in [SUBSET S -> Int] : IsSum(f, S, w) /\ \A T \in SUBSET S : f[T] = Total(w, T)
  <2> HIDE DEF S, w
  <2> QED
    BY <1>0, TotalSum, Zenon
<1> DEFINE Rec(g) == [s \in SUBSET S |-> IF s = {} THEN 0 ELSE Evidence[ev[order[Some(s)]]].len + g[s \ {Some(s)}]]
           c == CHOOSE g : g = Rec(g)
<1>2. \A s \in SUBSET S : s # {} => w[Some(s)] = Evidence[ev[order[Some(s)]]].len
  <2> HIDE DEF S, w
  <2> QED
    BY <1>a, Zenon DEF Some
<1>4. BlobBytes(ev, order, m) = c[S]
  BY Zenon DEF BlobBytes, MapThenSumSet, MapThenFoldSet, Some
<1> HIDE DEF S, w
<1>3. \A g : IsSum(g, S, w) <=> g = Rec(g)
  BY <1>2, Zenon DEF IsSum
<1>5. c = Rec(c)
  BY <1>1, <1>3, Zenon
<1> HIDE DEF c
<1>6. IsSum(c, S, w)
  BY <1>3, <1>5, Zenon
<1>7. c = f
  BY <1>0, <1>1, <1>6, SumUnique, Zenon
<1> QED
  BY <1>1, <1>4, <1>7, Zenon DEF w, S

\* What the size of a set of records is made of.
LEMMA SizeFacts ==
  ASSUME NEW S \in SUBSET Hash, NEW T \in SUBSET S
  PROVE  /\ SizeOf(S) \in Nat /\ SizeOf(T) \in Nat /\ SizeOf(T) <= SizeOf(S)
         /\ SizeOf(S) = SizeOf(T) + SizeOf(S \ T)
         /\ \A h \in S : SizeOf(S) = Env[h].size + SizeOf(S \ {h})
<1>0. IsFiniteSet(S) /\ (\A x \in S : Sizes[x] \in Nat) /\ (\A x \in S : Sizes[x] \in Int)
  BY SizeTypes DEF Sizes
<1>1. /\ SizeOf(S) = Total(Sizes, S) /\ SizeOf(T) = Total(Sizes, T)
      /\ SizeOf(S \ T) = Total(Sizes, S \ T) /\ \A h \in S : SizeOf(S \ {h}) = Total(Sizes, S \ {h})
  BY SizeSum, Zenon
<1>2. Total(Sizes, S) \in Nat /\ Total(Sizes, T) \in Nat /\ Total(Sizes, T) <= Total(Sizes, S)
  BY <1>0, TotalNat, Zenon
<1>3. Total(Sizes, S) = Total(Sizes, T) + Total(Sizes, S \ T)
  BY <1>0, TotalSplit, Zenon
<1>4. ASSUME NEW h \in S PROVE SizeOf(S) = Env[h].size + SizeOf(S \ {h})
  <2>1. Total(Sizes, S) = Sizes[h] + Total(Sizes, S \ {h})
    BY <1>0, TotalTake, Zenon
  <2>2. Sizes[h] = Env[h].size
    BY Zenon DEF Sizes
  <2> QED
    BY <1>1, <2>1, <2>2, Zenon
<1> QED
  BY <1>1, <1>2, <1>3, <1>4, Zenon

\* What the load of a set of keys is made of.
LEMMA LoadFacts ==
  ASSUME NEW E \in [Key -> Hash \cup {NoHash}], NEW K \in SUBSET Held(E), NEW L \in SUBSET K
  PROVE  /\ LoadOf(E, K) \in Nat /\ LoadOf(E, L) \in Nat /\ LoadOf(E, L) <= LoadOf(E, K)
         /\ LoadOf(E, K) = LoadOf(E, L) + LoadOf(E, K \ L)
         /\ \A k \in K : LoadOf(E, K) = Env[E[k]].size + LoadOf(E, K \ {k})
<1> DEFINE w == Loads(E)
<1>0. IsFiniteSet(K) /\ (\A x \in K : w[x] \in Nat) /\ (\A x \in K : w[x] \in Int)
  BY SizeTypes DEF Loads, Held
<1>1. /\ LoadOf(E, K) = Total(w, K) /\ LoadOf(E, L) = Total(w, L)
      /\ LoadOf(E, K \ L) = Total(w, K \ L) /\ \A k \in K : LoadOf(E, K \ {k}) = Total(w, K \ {k})
  BY LoadSum, Zenon
<1>5. \A k \in K : w[k] = Env[E[k]].size
  BY Zenon DEF Loads, Held
<1> HIDE DEF w
<1>2. Total(w, K) \in Nat /\ Total(w, L) \in Nat /\ Total(w, L) <= Total(w, K)
  BY <1>0, TotalNat, Zenon
<1>3. Total(w, K) = Total(w, L) + Total(w, K \ L)
  BY <1>0, TotalSplit, Zenon
<1>4. ASSUME NEW k \in K PROVE LoadOf(E, K) = Env[E[k]].size + LoadOf(E, K \ {k})
  <2>1. Total(w, K) = w[k] + Total(w, K \ {k})
    BY <1>0, TotalTake, Zenon
  <2> QED
    BY <1>1, <1>5, <2>1, Zenon
<1> QED
  BY <1>1, <1>2, <1>3, <1>4, Zenon

\* The bytes of the entries at K are a natural number.
LEMMA LoadNat ==
  ASSUME NEW E \in [Key -> Hash \cup {NoHash}], NEW K \in SUBSET Held(E)
  PROVE  LoadOf(E, K) \in Nat
<1>1. K \in SUBSET K
  BY Zenon
<1> QED
  BY <1>1, LoadFacts, Zenon

\* The bytes of the entries at K are those of one of them and of the others.
LEMMA LoadTake ==
  ASSUME NEW E \in [Key -> Hash \cup {NoHash}], NEW K \in SUBSET Held(E), NEW k \in K
  PROVE  LoadOf(E, K) = Env[E[k]].size + LoadOf(E, K \ {k})
<1>1. K \in SUBSET K
  BY Zenon
<1> QED
  BY <1>1, LoadFacts, ZenonT(30)

\* Live maps that agree on a set of keys give it the same load.
LEMMA LoadSame ==
  ASSUME NEW E \in [Key -> Hash \cup {NoHash}], NEW F \in [Key -> Hash \cup {NoHash}],
         NEW K \in SUBSET Held(E), \A k \in K : F[k] = E[k]
  PROVE  LoadOf(F, K) = LoadOf(E, K)
<1>1. K \in SUBSET Held(F) /\ IsFiniteSet(K) /\ \A x \in K : Loads(E)[x] \in Int
  BY SizeTypes DEF Loads, Held
<1>2. \A x \in K : Loads(F)[x] = Loads(E)[x]
  BY Zenon DEF Loads, Held
<1>3. Total(Loads(F), K) = Total(Loads(E), K)
  BY <1>1, <1>2, TotalSame, Zenon
<1> QED
  BY <1>1, <1>3, LoadSum, Zenon

-----------------------------------------------------------------------------
(***************************************************************************)
(* The history of superseded envelopes.                                    *)
(***************************************************************************)

Item == [hash : Hash, at : Time]
Stamps == [Hash -> Time \cup {Never}]

\* The byte total is right, and the history within its budgets or a single
\* entry.
InBudget(H) ==
    /\ H.bytes = SizeOf(Retained(H.at))
    /\ LET n == Cardinality(Retained(H.at))
       IN  n <= 1 \/ (n <= HistoryMax /\ H.bytes <= HistMaxBytes)
Histories == {H \in [at : Stamps, bytes : Int] : InBudget(H)}

\* Oldest access first, ties to the smaller hash, is a total order.
LEMMA OlderOrder ==
  ASSUME NEW at \in Stamps
  PROVE  Precedes(Retained(at), [h \in Retained(at) |-> OlderIn(at, h)])
<1>1. \A h \in Retained(at) : h \in Nat /\ at[h] \in Nat
  BY HashAssumption, BudgetAssumption DEF Retained, Stamps, Time
<1> DEFINE R == Retained(at)
           O == [h \in R |-> OlderIn(at, h)]
<1>2. \A g, h \in R : g \in O[h] <=> at[g] < at[h] \/ (at[g] = at[h] /\ g < h)
  BY Zenon DEF OlderIn
<1>3. O \in [R -> SUBSET R]
  BY Zenon DEF OlderIn
<1> HIDE DEF R, O
<1>4. \A h \in R : h \in Nat /\ at[h] \in Nat
  BY <1>1, Zenon DEF R
<1>5. \A h \in R : h \notin O[h]
  BY <1>2, <1>4
<1>6. \A g, h \in R : g = h \/ g \in O[h] \/ h \in O[g]
  BY <1>2, <1>4
<1>7. ASSUME NEW g \in R, NEW h \in R, g \in O[h] PROVE O[g] \subseteq O[h]
  <2> SUFFICES ASSUME NEW f \in O[g] PROVE f \in O[h]
    BY Zenon
  <2>1. f \in R
    BY <1>3, Zenon
  <2> QED
    BY <1>2, <1>4, <1>7, <2>1
<1>8. Precedes(R, O)
  BY <1>3, <1>5, <1>6, <1>7, Zenon DEF Precedes
<1> QED
  BY <1>8, Zenon DEF R, O

\* at is the history with the item in, and gone what goes from it: the oldest,
\* while more than one is left and a budget is exceeded.
RetainsBy(H, item, at, gone) ==
    /\ Retained(at) = Retained(H.at) \cup {item.hash}
    /\ gone \subseteq Retained(at)
    /\ \A h \in Retained(at) : h \in gone <=>
          LET left == Cardinality(Retained(at)) - Cardinality(OlderIn(at, h))
          IN  /\ left > 1
              /\ left > HistoryMax \/ SizeOf(Retained(at)) - SizeOf(OlderIn(at, h)) > HistMaxBytes
    /\ RetainOne(H, item).at \in Stamps
    /\ Retained(RetainOne(H, item).at) = Retained(at) \ gone
    /\ RetainOne(H, item) = [at    |-> RetainOne(H, item).at,
                             bytes |-> SizeOf(Retained(at)) - SizeOf(gone)]

\* retainHistoryLocked, step by step: the item is in, the total right, and
\* then the oldest go.
LEMMA RetainOneIs ==
  ASSUME NEW H \in Histories, NEW item \in Item
  PROVE  \E at \in Stamps, gone \in SUBSET Hash : RetainsBy(H, item, at, gone)
<1> DEFINE at   == [H.at EXCEPT ![item.hash] = item.at]
           load == H.bytes + Env[item.hash].size
                   - (IF H.at[item.hash] # Never THEN Env[item.hash].size ELSE 0)
           Goes(h) == LET older == OlderIn(at, h)
                          left  == Cardinality(Retained(at)) - Cardinality(older)
                      IN  /\ left > 1
                          /\ left > HistoryMax \/ load - SizeOf(older) > HistMaxBytes
           gone == {h \in Retained(at) : Goes(h)}
           next == [h \in Hash |-> IF h \in gone THEN Never ELSE at[h]]
<1>1. RetainOne(H, item) = [at |-> next, bytes |-> load - SizeOf(gone)]
  BY Zenon DEF RetainOne
<1>2. /\ H.at \in Stamps /\ H.bytes \in Int /\ H.bytes = SizeOf(Retained(H.at))
      /\ item.hash \in Hash /\ item.at \in Time /\ item.at # Never
  BY BudgetAssumption DEF Histories, InBudget, Item, Time, Never
<1>3. at \in Stamps /\ Retained(at) = Retained(H.at) \cup {item.hash}
  BY <1>2, Zenon DEF Stamps, Retained
<1>4. gone \in SUBSET Retained(at) /\ \A h \in Retained(at) : h \in gone <=> Goes(h)
  BY Zenon
<1>5. load = SizeOf(Retained(at))
  <2> DEFINE R == Retained(at)
             h == item.hash
  <2>1. R \in SUBSET Hash /\ h \in R /\ (R \ {h}) \in SUBSET R /\ Env[h].size \in Nat
    BY <1>2, <1>3, SizeTypes, Zenon DEF Retained
  <2>2. SizeOf(R) = Env[h].size + SizeOf(R \ {h}) /\ SizeOf(R \ {h}) \in Nat
    <3> HIDE DEF R, h
    <3> QED
      BY <2>1, SizeFacts, Zenon
  <2>3. CASE H.at[h] # Never
    <3>1. R = Retained(H.at)
      BY <1>2, <1>3, <2>3, Zenon DEF Retained
    <3>2. load = H.bytes
      BY <1>2, <2>1, <2>3
    <3> QED
      BY <1>2, <3>1, <3>2, Zenon
  <2>4. CASE H.at[h] = Never
    <3>1. R \ {h} = Retained(H.at)
      BY <1>2, <1>3, <2>4, Zenon DEF Retained
    <3>2. load = H.bytes + Env[h].size
      BY <1>2, <2>1, <2>4
    <3> HIDE DEF R, h, load
    <3>3. SizeOf(R \ {h}) = H.bytes
      BY <1>2, <3>1, Zenon
    <3>4. load = SizeOf(R)
      BY <2>1, <2>2, <3>2, <3>3
    <3> QED
      BY <3>4, Zenon DEF R
  <2> QED
    BY <2>3, <2>4, Zenon
<1>6. next \in Stamps /\ Retained(next) = Retained(at) \ gone
  <2> HIDE DEF gone, at
  <2> QED
    BY <1>3, <1>4, Zenon DEF Stamps, Retained
<1>7. /\ RetainOne(H, item).at = next
      /\ RetainOne(H, item) = [at |-> next, bytes |-> SizeOf(Retained(at)) - SizeOf(gone)]
  <2> HIDE DEF next, load, gone, at
  <2> QED
    BY <1>1, <1>5
<1>8. \A h \in Retained(at) : h \in gone <=>
          LET left == Cardinality(Retained(at)) - Cardinality(OlderIn(at, h))
          IN  /\ left > 1
              /\ left > HistoryMax \/ SizeOf(Retained(at)) - SizeOf(OlderIn(at, h)) > HistMaxBytes
  <2> HIDE DEF at, load, gone
  <2> QED
    BY <1>4, <1>5, Zenon
<1>9. gone \in SUBSET Hash
  BY Zenon DEF Retained
<1> HIDE DEF at, gone, next
<1> QED
  BY <1>3, <1>4, <1>6, <1>7, <1>8, <1>9, ZenonT(30) DEF RetainsBy

\* Retaining one more keeps the history within its budgets.
LEMMA RetainOneBudget ==
  ASSUME NEW H \in Histories, NEW item \in Item
  PROVE  RetainOne(H, item) \in Histories
<1>1. PICK at \in Stamps, gone \in SUBSET Hash : RetainsBy(H, item, at, gone)
  BY RetainOneIs, Zenon
<1> DEFINE R == Retained(at)
           O == [h \in R |-> OlderIn(at, h)]
           N == Cardinality(R)
           G == RetainOne(H, item)
<1>2. R \in SUBSET Hash /\ IsFiniteSet(R) /\ N \in Nat /\ gone \in SUBSET Hash
  BY SizeTypes, Zenon DEF Retained
<1>3. /\ \A S \in SUBSET R : SizeOf(S) = Total(Sizes, S)
      /\ \A h \in R : Sizes[h] \in Nat
  BY <1>2, SizeSum, SizeTypes, Zenon DEF Sizes
<1>4. SizeOf(R) \in Nat /\ SizeOf(gone) \in Nat /\ SizeOf(R) = SizeOf(gone) + SizeOf(R \ gone) /\ SizeOf(R \ gone) \in Nat
  <2> HIDE DEF R
  <2>1. gone \in SUBSET R /\ (R \ gone) \in SUBSET R
    BY <1>1, Zenon DEF R, RetainsBy
  <2> QED
    BY <1>2, <2>1, SizeFacts, Zenon
<1>5. Precedes(R, O)
  BY OlderOrder, Zenon
<1>6. \A h \in R : h \in gone <=>
          /\ N - Cardinality(O[h]) > 1
          /\ N - Cardinality(O[h]) > HistoryMax \/ SizeOf(R) - Total(Sizes, O[h]) > HistMaxBytes
  <2> SUFFICES ASSUME NEW h \in R
               PROVE  O[h] = OlderIn(at, h) /\ Total(Sizes, O[h]) = SizeOf(OlderIn(at, h))
    BY <1>1, Zenon DEF RetainsBy
  <2>1. O[h] = OlderIn(at, h) /\ O[h] \in SUBSET R
    BY Zenon DEF OlderIn
  <2> QED
    BY <1>3, <2>1, Zenon
<1>7. HistoryMax \in Int /\ HistMaxBytes \in Int /\ SizeOf(R) \in Int /\ N \in Int
  BY BudgetAssumption, <1>2, <1>4
<1>8. gone \in SUBSET R
  BY <1>1, Zenon DEF RetainsBy
<1>9. Cardinality(R \ gone) = N - Cardinality(gone) /\ Cardinality(gone) \in Nat
  <2>1. R \cap gone = gone
    BY <1>8, Zenon
  <2> QED
    BY <1>2, <2>1, FS_Difference, SizeTypes, ZenonT(30)
<1> HIDE DEF R, O, N
<1>10. \/ gone = R
       \/ N - Cardinality(gone) <= 1
       \/ N - Cardinality(gone) <= HistoryMax /\ SizeOf(R) - Total(Sizes, gone) <= HistMaxBytes
  BY <1>2, <1>3, <1>5, <1>6, <1>7, <1>8, Drained, ZenonT(30)
<1>11. Total(Sizes, gone) = SizeOf(gone)
  BY <1>3, <1>8, Zenon
<1>12. SizeOf(R \ gone) = SizeOf(R) - SizeOf(gone)
  BY <1>4
<1>13. G.bytes = SizeOf(R \ gone) /\ Retained(G.at) = R \ gone /\ G \in [at : Stamps, bytes : Int]
  BY <1>1, <1>4, <1>12 DEF R, RetainsBy
<1>14. gone = R => Cardinality(gone) = N
  BY Zenon DEF N
<1>15. Cardinality(R \ gone) <= 1 \/ (Cardinality(R \ gone) <= HistoryMax /\ SizeOf(R \ gone) <= HistMaxBytes)
  BY <1>2, <1>4, <1>7, <1>9, <1>10, <1>11, <1>14
<1> HIDE DEF G
<1> QED
  BY <1>13, <1>15, Zenon DEF Histories, InBudget, G

\* A history with room for the item, and for all it holds, drops nothing.
LEMMA RetainOneFits ==
  ASSUME NEW H \in Histories, NEW item \in Item, NEW U \in SUBSET Hash, Fits(U),
         Retained(H.at) \subseteq U, item.hash \in U
  PROVE  Retained(RetainOne(H, item).at) = Retained(H.at) \cup {item.hash}
<1>1. PICK at \in Stamps, gone \in SUBSET Hash : RetainsBy(H, item, at, gone)
  BY RetainOneIs, Zenon
<1> DEFINE R == Retained(at)
<1>2. /\ R = Retained(H.at) \cup {item.hash} /\ gone \subseteq R
      /\ \A h \in R : h \in gone <=>
            LET left == Cardinality(R) - Cardinality(OlderIn(at, h))
            IN  left > 1 /\ (left > HistoryMax \/ SizeOf(R) - SizeOf(OlderIn(at, h)) > HistMaxBytes)
      /\ Retained(RetainOne(H, item).at) = R \ gone
  BY <1>1, Zenon DEF RetainsBy
<1>3. R \in SUBSET U
  BY <1>2, Zenon
<1> HIDE DEF R
<1>4. /\ Cardinality(R) <= Cardinality(U) /\ Cardinality(R) \in Nat /\ Cardinality(U) \in Nat
      /\ R \in SUBSET Hash
  BY <1>3, SizeTypes, FS_Subset, Zenon
<1>5. SizeOf(R) <= SizeOf(U) /\ SizeOf(R) \in Nat /\ SizeOf(U) \in Nat
  BY <1>3, SizeFacts, Zenon
<1>6. Cardinality(R) <= HistoryMax /\ SizeOf(R) <= HistMaxBytes /\ HistoryMax \in Nat /\ HistMaxBytes \in Nat
  BY <1>4, <1>5, BudgetAssumption DEF Fits
<1>7. ASSUME NEW h \in R PROVE h \notin gone
  <2>1. OlderIn(at, h) \in SUBSET R
    BY Zenon DEF OlderIn, R
  <2>2. SizeOf(OlderIn(at, h)) \in Nat
    BY <1>4, <2>1, SizeFacts, Zenon
  <2>3. Cardinality(OlderIn(at, h)) \in Nat
    BY <1>4, <2>1, SizeTypes, Zenon
  <2> QED
    BY <1>2, <1>4, <1>5, <1>6, <2>2, <2>3
<1> QED
  BY <1>2, <1>7, Zenon

\* retainHistoryLocked, once per item.
LEMMA RetainAllChain ==
  ASSUME NEW x \in Histories, x = [at |-> history, bytes |-> historyBytes], NEW items \in Seq(Item)
  PROVE  \E c \in [0 .. Len(items) -> Histories] :
            /\ c[0] = x
            /\ \A i \in 1 .. Len(items) : c[i] = RetainOne(c[i - 1], items[i])
            /\ RetainAll(items) = c[Len(items)]
<1> DEFINE N == Len(items)
           F == [i \in 1 .. N |-> [H \in Histories |-> RetainOne(H, items[i])]]
           Rec(g) == [i \in 0 .. N |-> IF i = 0 THEN x ELSE RetainOne(g[i - 1], items[i])]
           c == CHOOSE g : g = Rec(g)
<1>1. N \in Nat /\ \A i \in 1 .. N : items[i] \in Item
  OBVIOUS
<1>2. RetainAll(items) = c[N]
  BY Zenon  DEF RetainAll
<1> HIDE DEF N
<1>3. \A i \in 1 .. N : \A H \in Histories : RetainOne(H, items[i]) \in Histories
  BY <1>1, RetainOneBudget, Zenon
<1>4. F \in Steps(N, Histories)
  BY <1>3, Zenon DEF Steps
<1>5. PICK g \in [0 .. N -> Histories] : Iterates(g, N, x, F)
  BY <1>1, <1>4, Iterated, Zenon
<1>6. g = Rec(g)
  <2>1. \A i \in 1 .. N : g[i - 1] \in Histories /\ g[i] = F[i][g[i - 1]]
    BY <1>1, <1>5 DEF Iterates
  <2>2. \A i \in 1 .. N : g[i] = RetainOne(g[i - 1], items[i])
    BY <2>1, Zenon
  <2>3. g[0] = x
    BY <1>5, Zenon DEF Iterates
  <2>4. \A i \in 0 .. N : g[i] = IF i = 0 THEN x ELSE RetainOne(g[i - 1], items[i])
    BY <1>1, <2>2, <2>3
  <2> QED
    BY <2>4, Zenon
<1>7. c = Rec(c)
  BY <1>6, Zenon
<1> HIDE DEF c
<1>8. /\ DOMAIN c = 0 .. N /\ c[0] = x
      /\ \A i \in 1 .. N : c[i] = RetainOne(c[i - 1], items[i])
  BY <1>1, <1>7
<1> DEFINE Z == {i \in Nat : i <= N => c[i] \in Histories}
<1>9. 0 \in Z
  BY <1>8, Zenon
<1>10. ASSUME NEW i \in Nat, i \in Z PROVE i + 1 \in Z
  <2> SUFFICES ASSUME i + 1 <= N PROVE c[i + 1] \in Histories
    OBVIOUS
  <2>1. i + 1 \in 1 .. N /\ c[i] \in Histories /\ (i + 1) - 1 = i
    BY <1>1, <1>10
  <2> QED
    BY <1>3, <1>8, <2>1, Zenon
<1> HIDE DEF Z
<1>11. Nat \subseteq Z
  BY <1>9, <1>10, SetInduction, Zenon
<1>12. \A i \in 0 .. N : c[i] \in Histories
  BY <1>1, <1>11 DEF Z
<1>13. c \in [0 .. N -> Histories]
  BY <1>7, <1>12, Zenon
<1> QED
  BY <1>2, <1>8, <1>13, Zenon DEF N

\* What is retained when everything fits: what was, and every item.
LEMMA RetainAllFits ==
  ASSUME NEW x \in Histories, x = [at |-> history, bytes |-> historyBytes], NEW items \in Seq(Item),
         NEW U \in SUBSET Hash, Fits(U), Retained(history) \subseteq U,
         \A i \in 1 .. Len(items) : items[i].hash \in U
  PROVE  \A i \in 1 .. Len(items) : items[i].hash \in Retained(RetainAll(items).at)
<1>1. PICK c \in [0 .. Len(items) -> Histories] :
            /\ c[0] = x
            /\ \A i \in 1 .. Len(items) : c[i] = RetainOne(c[i - 1], items[i])
            /\ RetainAll(items) = c[Len(items)]
  BY RetainAllChain, Zenon
<1> DEFINE N == Len(items)
           Z == {i \in Nat : i <= N => /\ Retained(c[i].at) \subseteq U
                                       /\ \A j \in 1 .. i : items[j].hash \in Retained(c[i].at)}
<1>2. N \in Nat /\ \A i \in 1 .. N : items[i] \in Item
  OBVIOUS
<1> HIDE DEF N
<1>3. 0 \in Z
  BY <1>1
<1>4. ASSUME NEW i \in Nat, i \in Z PROVE i + 1 \in Z
  <2> SUFFICES ASSUME i + 1 <= N
               PROVE  /\ Retained(c[i + 1].at) \subseteq U
                      /\ \A j \in 1 .. i + 1 : items[j].hash \in Retained(c[i + 1].at)
    OBVIOUS
  <2>1. i + 1 \in 1 .. N /\ (i + 1) - 1 = i /\ i \in 0 .. N
    BY <1>2
  <2>2. /\ Retained(c[i].at) \subseteq U /\ \A j \in 1 .. i : items[j].hash \in Retained(c[i].at)
    BY <1>2, <1>4
  <2>3. c[i] \in Histories /\ items[i + 1] \in Item /\ items[i + 1].hash \in U /\ c[i + 1] = RetainOne(c[i], items[i + 1])
    BY <1>1, <1>2, <2>1, Zenon DEF N
  <2>4. Retained(c[i + 1].at) = Retained(c[i].at) \cup {items[i + 1].hash}
    BY <2>2, <2>3, RetainOneFits, Zenon
  <2> QED
    BY <2>2, <2>3, <2>4
<1> HIDE DEF Z
<1>5. N \in Z
  BY <1>2, <1>3, <1>4, SetInduction, Zenon
<1> QED
  BY <1>1, <1>2, <1>5 DEF Z, N

-----------------------------------------------------------------------------
(***************************************************************************)
(* Installing a record: what leaves the live map, and in which order it    *)
(* reaches the history.                                                    *)
(***************************************************************************)

\* The records that a list of history items is about.
Hashes(s) == {s[i].hash : i \in 1 .. Len(s)}

\* Retaining two lists of records in a row retains the records of both.
LEMMA HashesConcat ==
  ASSUME NEW s \in Seq(Item), NEW t \in Seq(Item)
  PROVE  s \o t \in Seq(Item) /\ Hashes(s \o t) = Hashes(s) \cup Hashes(t)
<1>1. /\ s \o t \in Seq(Item) /\ Len(s \o t) = Len(s) + Len(t) /\ Len(s) \in Nat /\ Len(t) \in Nat
      /\ \A i \in 1 .. Len(s) + Len(t) : (s \o t)[i] = IF i <= Len(s) THEN s[i] ELSE t[i - Len(s)]
  OBVIOUS
<1> DEFINE m == Len(s)
           n == Len(t)
           u == s \o t
<1> HIDE DEF m, n, u
<1>2. Hashes(u) \subseteq Hashes(s) \cup Hashes(t)
  <2> SUFFICES ASSUME NEW i \in 1 .. m + n PROVE u[i].hash \in Hashes(s) \cup Hashes(t)
    BY <1>1, Zenon DEF Hashes, m, n, u
  <2>1. CASE i <= m
    BY <1>1, <2>1 DEF Hashes, m, n, u
  <2>2. CASE i > m
    <3>1. i - m \in 1 .. n /\ u[i] = t[i - m]
      BY <1>1, <2>2 DEF m, n, u
    <3> QED
      BY <3>1, Zenon DEF Hashes, n
  <2> QED
    BY <1>1, <2>1, <2>2 DEF m, n
<1>3. ASSUME NEW i \in 1 .. m PROVE s[i].hash \in Hashes(u)
  <2>1. i \in 1 .. m + n /\ u[i] = s[i]
    BY <1>1 DEF m, n, u
  <2> QED
    BY <1>1, <2>1, Zenon DEF Hashes, m, n, u
<1>4. ASSUME NEW i \in 1 .. n PROVE t[i].hash \in Hashes(u)
  <2>1. m + i \in 1 .. m + n /\ u[m + i] = t[i]
    BY <1>1 DEF m, n, u
  <2> QED
    BY <1>1, <2>1, Zenon DEF Hashes, m, n, u
<1>5. Hashes(s) \cup Hashes(t) \subseteq Hashes(u)
  BY <1>3, <1>4, Zenon DEF Hashes, m, n
<1> QED
  BY <1>1, <1>2, <1>5, Zenon DEF u

\* Least recently used first, ties to the smaller key, is a total order.
LEMMA OlderKeysOrder ==
  ASSUME NEW A \in [Key -> Time], NEW K \in SUBSET Key
  PROVE  Precedes(K, [j \in K |-> OlderKeys(A, K, j)])
<1>1. \A j \in K : j \in Nat /\ A[j] \in Nat
  BY KeyAssumption, BudgetAssumption DEF Time
<1> DEFINE O == [j \in K |-> OlderKeys(A, K, j)]
<1>2. \A i, j \in K : i \in O[j] <=> A[i] < A[j] \/ (A[i] = A[j] /\ i < j)
  BY Zenon DEF OlderKeys
<1>3. O \in [K -> SUBSET K]
  BY Zenon DEF OlderKeys
<1> HIDE DEF O
<1>5. \A j \in K : j \notin O[j]
  BY <1>1, <1>2
<1>6. \A i, j \in K : i = j \/ i \in O[j] \/ j \in O[i]
  BY <1>1, <1>2
<1>7. ASSUME NEW i \in K, NEW j \in K, i \in O[j] PROVE O[i] \subseteq O[j]
  <2> SUFFICES ASSUME NEW f \in O[i] PROVE f \in O[j]
    BY Zenon
  <2>1. f \in K
    BY <1>3, Zenon
  <2> QED
    BY <1>1, <1>2, <1>7, <2>1
<1>8. Precedes(K, O)
  BY <1>3, <1>5, <1>6, <1>7, Zenon DEF Precedes
<1> QED
  BY <1>8, Zenon DEF O

\* The list visits every key of K, once.
Covers(order, K) == order \in [1 .. Cardinality(K) -> K] /\ \A j \in K : \E i \in 1 .. Cardinality(K) : order[i] = j

\* Either pass goes through all of its keys.
LEMMA OrdersList ==
  ASSUME NEW A \in [Key -> Time], NEW K \in SUBSET Key
  PROVE  Covers(LruOrder(A, K), K) /\ \A order \in Orders(K) : Covers(order, K)
<1> DEFINE n == Cardinality(K)
           O == [j \in K |-> OlderKeys(A, K, j)]
           L == LruOrder(A, K)
<1>1. n \in Nat /\ IsFiniteSet(K) /\ IsFiniteSet(1 .. n) /\ Cardinality(1 .. n) = n
  <2>1. IsFiniteSet(K) /\ n \in Nat
    BY SizeTypes, Zenon
  <2> HIDE DEF n
  <2> QED
    BY <2>1, FS_Interval
<1>2. Precedes(K, O)
  BY OlderKeysOrder, Zenon
<1>3. \A j \in K : O[j] = OlderKeys(A, K, j)
  BY Zenon
<1>4. L = [i \in 1 .. n |-> CHOOSE j \in K : Cardinality(OlderKeys(A, K, j)) = i - 1]
  BY Zenon DEF LruOrder
<1>5. /\ \A j \in K : Cardinality(O[j]) \in 0 .. n - 1
      /\ \A i, j \in K : Cardinality(O[i]) = Cardinality(O[j]) => i = j
      /\ \A i \in 0 .. n - 1 : \E j \in K : Cardinality(O[j]) = i
  <2> HIDE DEF O
  <2> QED
    BY <1>1, <1>2, Ranks
<1> HIDE DEF O, n, L
<1>6. ASSUME NEW i \in 1 .. n PROVE L[i] \in K /\ Cardinality(O[L[i]]) = i - 1
  <2>1. i - 1 \in 0 .. n - 1
    BY <1>1
  <2>2. PICK j \in K : Cardinality(OlderKeys(A, K, j)) = i - 1
    BY <1>3, <1>5, <2>1, Zenon
  <2>3. L[i] \in K /\ Cardinality(OlderKeys(A, K, L[i])) = i - 1
    BY <1>4, <2>2, Zenon
  <2> QED
    BY <1>3, <2>3, Zenon
<1>7. ASSUME NEW j \in K PROVE \E i \in 1 .. n : L[i] = j
  <2>1. Cardinality(O[j]) + 1 \in 1 .. n /\ (Cardinality(O[j]) + 1) - 1 = Cardinality(O[j])
    BY <1>1, <1>5
  <2>2. L[Cardinality(O[j]) + 1] = j
    BY <1>5, <1>6, <2>1, Zenon
  <2> QED
    BY <2>1, <2>2, Zenon
<1>8. Covers(L, K)
  BY <1>4, <1>6, <1>7, Zenon DEF Covers, n
<1>9. ASSUME NEW order \in Orders(K) PROVE Covers(order, K)
  <2>1. order \in [1 .. n -> K] /\ \A i, j \in 1 .. n : order[i] = order[j] => i = j
    BY Zenon DEF Orders, n
  <2> DEFINE I == 1 .. n
  <2>2. order \in [I -> K] /\ (\A i, j \in I : order[i] = order[j] => i = j) /\ Cardinality(I) = Cardinality(K)
    BY <1>1, <2>1, Zenon DEF n
  <2> HIDE DEF I
  <2>3. \A j \in K : \E i \in I : order[i] = j
    BY <1>1, <2>2, OneToOneOnto
  <2> QED
    BY <2>1, <2>3, Zenon DEF Covers, n, I
<1> QED
  BY <1>8, <1>9, Zenon DEF L

\* The items of a pass over the keys K are the records at K.
LEMMA ItemsList ==
  ASSUME NEW E \in [Key -> Hash \cup {NoHash}], NEW A \in [Key -> Time], NEW K \in SUBSET Held(E),
         NEW order, Covers(order, K)
  PROVE  /\ ItemsOf(E, A, order) \in Seq(Item)
         /\ Hashes(ItemsOf(E, A, order)) = {E[j] : j \in K}
<1> DEFINE n == Cardinality(K)
           s == ItemsOf(E, A, order)
<1>1. n \in Nat
  BY SizeTypes, Zenon DEF Held
<1>2. order \in [1 .. n -> K] /\ \A j \in K : \E i \in 1 .. n : order[i] = j
  BY Zenon DEF Covers
<1> HIDE DEF n
<1>3. s = [i \in 1 .. n |-> [hash |-> E[order[i]], at |-> A[order[i]]]]
  BY <1>2, Zenon DEF ItemsOf
<1>4. \A i \in 1 .. n : order[i] \in Key /\ E[order[i]] \in Hash /\ A[order[i]] \in Time
  BY <1>2, Zenon DEF Held
<1> HIDE DEF s
<1>5. s \in [1 .. n -> Item]
  BY <1>3, <1>4, Zenon DEF Item
<1>6. s \in Seq(Item) /\ Len(s) = n
  BY <1>1, <1>5
<1>7. \A i \in 1 .. n : s[i].hash = E[order[i]]
  BY <1>3, Zenon
<1>8. Hashes(s) = {E[j] : j \in K}
  <2>1. Hashes(s) = {s[i].hash : i \in 1 .. n}
    BY <1>6, Zenon DEF Hashes
  <2>2. ASSUME NEW i \in 1 .. n PROVE s[i].hash \in {E[j] : j \in K}
    BY <1>2, <1>7, Zenon
  <2>3. ASSUME NEW j \in K PROVE E[j] \in {s[i].hash : i \in 1 .. n}
    <3>1. PICK i \in 1 .. n : order[i] = j
      BY <1>2, Zenon
    <3>2. s[i].hash = E[j]
      BY <1>7, <3>1, Zenon
    <3> QED
      BY <3>2, Zenon
  <2> QED
    BY <2>1, <2>2, <2>3, Zenon
<1> QED
  BY <1>6, <1>8, Zenon DEF s

\* The live map with h at k, the expired entries gone, and the cap pass over.
PutIn(k, h) == [entries EXCEPT ![k] = h]
Stamped(k) == [access EXCEPT ![k] = now]
Swept(k, h) == Without(PutIn(k, h), DeadIn(PutIn(k, h)), NoHash)
SweptLoad(k, h) == (bytes + Env[h].size - ReplacedSize(k)) - LoadOf(PutIn(k, h), DeadIn(PutIn(k, h)))
Capped(k, h) == OverCap(Swept(k, h), Stamped(k), SweptLoad(k, h), k)

\* What installing h at k leaves in the live map.
LEMMA InstallShape ==
  ASSUME TypeOK, NEW k \in Key, NEW h \in Hash
  PROVE  /\ PutIn(k, h) \in [Key -> Hash \cup {NoHash}] /\ Stamped(k) \in [Key -> Time]
         /\ Held(PutIn(k, h)) = Held(entries) \cup {k}
         /\ DeadIn(PutIn(k, h)) \subseteq Held(PutIn(k, h))
         /\ Swept(k, h) \in [Key -> Hash \cup {NoHash}]
         /\ Held(Swept(k, h)) = Held(PutIn(k, h)) \ DeadIn(PutIn(k, h))
         /\ \A j \in Held(Swept(k, h)) : Swept(k, h)[j] = PutIn(k, h)[j]
         /\ Capped(k, h) \subseteq Held(Swept(k, h)) \ {k}
<1> DEFINE E == PutIn(k, h)
           D == DeadIn(E)
<1>1. E \in [Key -> Hash \cup {NoHash}] /\ Stamped(k) \in [Key -> Time]
  BY Zenon DEF TypeOK, PutIn, Stamped
<1>2. Held(E) = Held(entries) \cup {k}
  BY HashAssumption, Zenon DEF TypeOK, PutIn, Held
<1>3. D \subseteq Held(E)
  BY Zenon DEF DeadIn
<1> HIDE DEF E, D
<1>4. Swept(k, h) = Without(E, D, NoHash)
  BY Zenon DEF E, D, Swept
<1>5. /\ Swept(k, h) \in [Key -> Hash \cup {NoHash}] /\ Held(Swept(k, h)) = Held(E) \ D
      /\ \A j \in Held(Swept(k, h)) : Swept(k, h)[j] = E[j]
  BY <1>1, <1>4, Zenon DEF Without, Held
<1>6. Capped(k, h) \subseteq Held(Swept(k, h)) \ {k}
  BY Zenon DEF Capped, OverCap
<1> QED
  BY <1>1, <1>2, <1>3, <1>5, <1>6, Zenon DEF E, D

\* What an accepted put does (PutWithEvidence): the sweep of expired entries, then
\* the cap pass, with all that leaves handed to the history.
LEMMA InstallIs ==
  ASSUME NEW k \in Key, NEW h \in Hash, Install(k, h)
  PROVE  /\ entries' = Without(Swept(k, h), Capped(k, h), NoHash)
         /\ bytes' = SweptLoad(k, h) - LoadOf(PutIn(k, h), Capped(k, h))
         /\ \E order \in Orders(DeadIn(PutIn(k, h))) :
               Retain((IF entries[k] = NoHash THEN << >> ELSE <<[hash |-> entries[k], at |-> access[k]]>>)
                      \o ItemsOf(PutIn(k, h), Stamped(k), order)
                      \o ItemsOf(PutIn(k, h), Stamped(k), LruOrder(Stamped(k), Capped(k, h))))
<1> DEFINE E == PutIn(k, h)
           A == Stamped(k)
<1>1. entries' = Without(Swept(k, h), Capped(k, h), NoHash)
  BY Zenon DEF Install, PutIn, Stamped, Swept, SweptLoad, Capped
<1>2. bytes' = SweptLoad(k, h) - LoadOf(E, Capped(k, h))
  BY Zenon DEF Install, PutIn, Stamped, Swept, SweptLoad, Capped
<1>3. \E order \in Orders(DeadIn(E)) :
         Retain((IF entries[k] = NoHash THEN << >> ELSE <<[hash |-> entries[k], at |-> access[k]]>>)
                \o ItemsOf(E, A, order) \o ItemsOf(E, A, LruOrder(A, Capped(k, h))))
  BY Zenon DEF Install, PutIn, Stamped, Swept, SweptLoad, Capped
<1> QED
  BY <1>1, <1>2, <1>3, Zenon

\* Put keeps the byte total of the live map exact, and the map within its
\* budget or down to one entry.
LEMMA InstallBudget ==
  ASSUME TypeOK, NEW k \in Key, NEW h \in Hash, Install(k, h), bytes = LoadOf(entries, Held(entries))
  PROVE  /\ bytes' = LoadOf(entries', Held(entries'))
         /\ bytes' <= MaxBytes \/ Cardinality(Held(entries')) <= 1
<1> DEFINE E == PutIn(k, h)
           D == DeadIn(E)
           E1 == Swept(k, h)
           A == Stamped(k)
           load == SweptLoad(k, h)
           over == Capped(k, h)
           R == Held(E1) \ {k}
           O == [j \in R |-> OlderKeys(A, R, j)]
           N == Cardinality(Held(E1))
<1>1. /\ entries \in [Key -> Hash \cup {NoHash}] /\ E \in [Key -> Hash \cup {NoHash}] /\ A \in [Key -> Time]
      /\ Held(E) = Held(entries) \cup {k} /\ D \in SUBSET Held(E)
      /\ E1 \in [Key -> Hash \cup {NoHash}] /\ Held(E1) = Held(E) \ D
      /\ (\A j \in Held(E1) : E1[j] = E[j]) /\ over \in SUBSET R
      /\ E[k] = h /\ \A j \in Key \ {k} : E[j] = entries[j]
  <2>1. entries \in [Key -> Hash \cup {NoHash}] /\ E[k] = h /\ \A j \in Key \ {k} : E[j] = entries[j]
    BY Zenon DEF TypeOK, PutIn
  <2> HIDE DEF E, D, E1, A, over
  <2>2. /\ E \in [Key -> Hash \cup {NoHash}] /\ A \in [Key -> Time]
        /\ Held(E) = Held(entries) \cup {k} /\ D \subseteq Held(E)
        /\ E1 \in [Key -> Hash \cup {NoHash}] /\ Held(E1) = Held(E) \ D
        /\ (\A j \in Held(E1) : E1[j] = E[j]) /\ over \subseteq R
    BY InstallShape DEF E, D, E1, A, over, R
  <2> QED
    BY <2>1, <2>2, Zenon
<1>2. entries' = Without(E1, over, NoHash) /\ bytes' = load - LoadOf(E, over)
  BY InstallIs, Zenon
<1>3. load = (bytes + Env[h].size - ReplacedSize(k)) - LoadOf(E, D)
  BY Zenon DEF SweptLoad
<1>o. /\ \A j \in R : j \in over <=>
            /\ load - LoadOf(E1, OlderKeys(A, R, j)) > MaxBytes
            /\ N - Cardinality(OlderKeys(A, R, j)) > 1
      /\ \A j \in R : OlderKeys(A, R, j) \in SUBSET R
  BY Zenon DEF Capped, OverCap, OlderKeys
<1>p. Precedes(R, O)
  BY <1>1, OlderKeysOrder, ZenonT(30) DEF Held
<1>q. \A j \in R : O[j] = OlderKeys(A, R, j)
  BY Zenon
<1>r. Held(E1) \in SUBSET Key /\ R \in SUBSET Key /\ R \in SUBSET Held(E1) /\ Held(E) \in SUBSET Key /\ Held(entries) \in SUBSET Key
  BY Zenon DEF Held
<1>s. N = Cardinality(Held(E1)) /\ R = Held(E1) \ {k}
  BY Zenon
<1> HIDE DEF E, D, E1, A, load, over, R, O, N
<1>4. bytes + Env[h].size - ReplacedSize(k) = LoadOf(E, Held(E))
  <2> DEFINE K == Held(entries) \ {k}
  <2>1. k \in Held(E) /\ Held(E) \ {k} = K /\ K \in SUBSET Held(entries) /\ K \in SUBSET Held(E)
    BY <1>1, Zenon
  <2>2. LoadOf(E, Held(E)) = Env[h].size + LoadOf(E, Held(E) \ {k}) /\ LoadOf(E, Held(E)) \in Nat
    BY <1>1, <2>1, LoadTake, LoadNat
  <2>3. LoadOf(E, K) = LoadOf(entries, K)
    <3>1. \A j \in K : E[j] = entries[j]
      BY <1>1, <1>r, Zenon
    <3> HIDE DEF K
    <3> QED
      BY <1>1, <2>1, <3>1, LoadSame
  <2>4. LoadOf(E, Held(E) \ {k}) = LoadOf(entries, K)
    BY <2>1, <2>3, Zenon
  <2>5. Env[h].size \in Nat /\ LoadOf(entries, K) \in Nat
    <3> HIDE DEF K
    <3> QED
      BY <1>1, <2>1, LoadFacts, SizeTypes, Zenon
  <2>6. CASE entries[k] = NoHash
    <3>1. K = Held(entries) /\ ReplacedSize(k) = 0
      BY <2>6, Zenon DEF Held, ReplacedSize
    <3>2. bytes = LoadOf(entries, K)
      BY <3>1, Zenon
    <3> HIDE DEF K
    <3> QED
      BY <2>2, <2>4, <2>5, <3>1, <3>2
  <2>7. CASE entries[k] # NoHash
    <3>1. k \in Held(entries) /\ ReplacedSize(k) = Env[entries[k]].size /\ entries[k] \in Hash
      BY <1>1, <2>7, Zenon DEF Held, ReplacedSize
    <3>2. LoadOf(entries, Held(entries)) = Env[entries[k]].size + LoadOf(entries, K)
      BY <1>1, <3>1, LoadTake
    <3>3. Env[entries[k]].size \in Nat
      BY <3>1, SizeTypes, Zenon
    <3> HIDE DEF K
    <3> QED
      BY <2>2, <2>4, <2>5, <3>1, <3>2, <3>3
  <2> QED
    BY <2>6, <2>7, Zenon
<1>5. load = LoadOf(E1, Held(E1)) /\ load \in Nat
  <2>0. E \in [Key -> Hash \cup {NoHash}] /\ Held(E) \in SUBSET Held(E) /\ D \in SUBSET Held(E)
    BY <1>1, Zenon
  <2>1. LoadOf(E, Held(E)) = LoadOf(E, D) + LoadOf(E, Held(E) \ D) /\ LoadOf(E, D) \in Nat
    BY <2>0, LoadFacts
  <2>2. Held(E1) \in SUBSET Held(E) /\ LoadOf(E, Held(E1)) = LoadOf(E, Held(E) \ D)
    BY <1>1, Zenon
  <2>3. LoadOf(E1, Held(E1)) = LoadOf(E, Held(E1))
    BY <1>1, <2>2, LoadSame, Zenon
  <2>4. LoadOf(E1, Held(E1)) \in Nat
    BY <1>1, LoadNat, Zenon
  <2> QED
    <3>1. (bytes + Env[h].size - ReplacedSize(k)) - LoadOf(E, D) = LoadOf(E, Held(E)) - LoadOf(E, D)
      BY <1>4, Zenon
    <3>2. LoadOf(E, Held(E) \ D) = LoadOf(E1, Held(E1))
      BY <2>2, <2>3, Zenon
    <3> QED
      BY <1>3, <2>1, <2>4, <3>1, <3>2
<1>6. entries' \in [Key -> Hash \cup {NoHash}] /\ Held(entries') = Held(E1) \ over /\ \A j \in Held(entries') : entries'[j] = E1[j]
  BY <1>1, <1>2, Zenon DEF Without, Held
<1>7. bytes' = LoadOf(entries', Held(entries')) /\ LoadOf(E, over) = LoadOf(E1, over) /\ LoadOf(E1, over) \in Nat
  <2>1. over \in SUBSET Held(E1) /\ over \in SUBSET Held(E)
    BY <1>1, <1>r, Zenon
  <2>2. LoadOf(E, over) = LoadOf(E1, over)
    BY <1>1, <2>1, LoadSame
  <2>0. /\ E1 \in [Key -> Hash \cup {NoHash}] /\ Held(E1) \in SUBSET Held(E1)
        /\ over \in SUBSET Held(E1)
    BY <1>1, <2>1, Zenon
  <2>3. LoadOf(E1, Held(E1)) = LoadOf(E1, over) + LoadOf(E1, Held(E1) \ over) /\ LoadOf(E1, over) \in Nat
    BY <2>0, LoadFacts
  <2> DEFINE H == Held(E1) \ over
  <2>4. H \in SUBSET Held(E1) /\ H = Held(entries') /\ \A j \in H : entries'[j] = E1[j]
    BY <1>6, Zenon
  <2>5. LoadOf(entries', H) = LoadOf(E1, H) /\ LoadOf(E1, H) \in Nat
    <3> HIDE DEF H
    <3> QED
      BY <1>1, <1>6, <2>4, LoadSame, LoadNat
  <2>6. LoadOf(E1, Held(E1) \ over) = LoadOf(entries', Held(entries'))
    BY <2>4, <2>5, Zenon
  <2>7. LoadOf(entries', Held(entries')) \in Nat
    BY <2>4, <2>5, Zenon
  <2> QED
    BY <1>2, <1>5, <2>2, <2>3, <2>6, <2>7
<1>8. \/ over = R
      \/ N - Cardinality(over) <= 1
      \/ load - Total(Loads(E1), over) <= MaxBytes
  <2>1. IsFiniteSet(R) /\ N \in Nat /\ (\A j \in R : Loads(E1)[j] \in Nat) /\ MaxBytes \in Int
    BY <1>1, <1>r, <1>s, SizeTypes, BudgetAssumption DEF Loads, Held
  <2>2. ASSUME NEW j \in R
        PROVE  j \in over <=> /\ N - Cardinality(O[j]) > 1
                              /\ N - Cardinality(O[j]) > N \/ load - Total(Loads(E1), O[j]) > MaxBytes
    <3>1. O[j] = OlderKeys(A, R, j) /\ O[j] \in SUBSET R /\ O[j] \in SUBSET Held(E1)
      BY <1>o, <1>q, <1>r, Zenon
    <3>2. LoadOf(E1, O[j]) = Total(Loads(E1), O[j])
      BY <1>1, <3>1, LoadSum, Zenon
    <3>3. Cardinality(O[j]) \in Nat
      BY <1>r, <3>1, SizeTypes, Zenon
    <3> QED
      BY <1>o, <2>1, <3>1, <3>2, <3>3
  <2>3. over \in SUBSET R /\ load \in Int /\ N \in Int
    BY <1>1, <1>5, <2>1
  <2> HIDE DEF Loads
  <2>4. \/ over = R
        \/ N - Cardinality(over) <= 1
        \/ N - Cardinality(over) <= N /\ load - Total(Loads(E1), over) <= MaxBytes
    BY <1>p, <2>1, <2>2, <2>3, Drained, ZenonT(30)
  <2> QED
    BY <2>4, Zenon
<1>9. Cardinality(Held(entries')) = N - Cardinality(over) /\ Cardinality(over) \in Nat
  <2>1. over \in SUBSET Key /\ Held(E1) \cap over = over /\ IsFiniteSet(Held(E1))
    BY <1>1, <1>r, <1>s, SizeTypes, Zenon
  <2> QED
    BY <1>6, <1>s, <2>1, FS_Difference, SizeTypes, Zenon
<1>10. over = R => Cardinality(Held(entries')) <= 1
  <2> SUFFICES ASSUME over = R PROVE Cardinality(Held(entries')) <= 1
    BY Zenon
  <2>1. Held(entries') \in SUBSET {k}
    BY <1>6, <1>s, Zenon
  <2>2. IsFiniteSet({k}) /\ Cardinality({k}) = 1
    BY FS_Singleton, Zenon
  <2> QED
    BY <2>1, <2>2, FS_Subset, Zenon
<1>11. LoadOf(E1, over) = Total(Loads(E1), over)
  BY <1>1, <1>r, LoadSum, Zenon
<1> QED
  BY <1>2, <1>5, <1>7, <1>8, <1>9, <1>10, <1>11

\* What leaves the live map when h is put at k reaches the history, and
\* nothing else does but h itself.
LEMMA InstallItems ==
  ASSUME TypeOK, NEW k \in Key, NEW h \in Hash, Install(k, h)
  PROVE  \E items \in Seq(Item) :
            /\ Retain(items)
            /\ \A x \in Hashes(items) : \/ x = h \/ (x = entries[k] /\ entries[k] # NoHash)
                                        \/ \E j \in Key \ {k} : x = entries[j] /\ entries[j] # NoHash /\ entries'[j] = NoHash
            /\ \A j \in Key : entries[j] # NoHash /\ (j = k \/ entries'[j] # entries[j]) => entries[j] \in Hashes(items)
<1> DEFINE E == PutIn(k, h)
           D == DeadIn(E)
           E1 == Swept(k, h)
           A == Stamped(k)
           over == Capped(k, h)
           first == IF entries[k] = NoHash THEN << >> ELSE <<[hash |-> entries[k], at |-> access[k]]>>
<1>1. /\ E \in [Key -> Hash \cup {NoHash}] /\ A \in [Key -> Time] /\ D \subseteq Held(E)
      /\ E1 \in [Key -> Hash \cup {NoHash}] /\ Held(E1) = Held(E) \ D
      /\ (\A j \in Held(E1) : E1[j] = E[j]) /\ over \subseteq Held(E1) \ {k}
  BY InstallShape
<1>2. entries \in [Key -> Hash \cup {NoHash}] /\ E[k] = h /\ \A j \in Key \ {k} : E[j] = entries[j]
  BY Zenon DEF TypeOK, PutIn
<1>3. entries' = Without(E1, over, NoHash)
  BY InstallIs, Zenon
<1>4. PICK order \in Orders(D) : Retain(first \o ItemsOf(E, A, order) \o ItemsOf(E, A, LruOrder(A, over)))
  BY InstallIs, Zenon
<1>5. first \in Seq(Item) /\ Hashes(first) = {entries[k]} \ {NoHash}
  <2>1. CASE entries[k] = NoHash
    BY <2>1 DEF Hashes
  <2>2. CASE entries[k] # NoHash
    <3> DEFINE e == [hash |-> entries[k], at |-> access[k]]
    <3>1. e \in Item /\ first = <<e>> /\ e.hash = entries[k]
      BY <1>2, <2>2, Zenon DEF Item, TypeOK
    <3> HIDE DEF e, first
    <3>2. first \in Seq(Item) /\ Len(first) = 1 /\ first[1] = e
      BY <3>1
    <3>3. Hashes(first) = {entries[k]}
      BY <3>1, <3>2 DEF Hashes
    <3> QED
      BY <2>2, <3>2, <3>3, Zenon
  <2> QED
    BY <2>1, <2>2, Zenon
<1> DEFINE X == ItemsOf(E, A, order)
           Y == ItemsOf(E, A, LruOrder(A, over))
<1> HIDE DEF E, D, E1, A, over, first
<1>6. D \in SUBSET Held(E) /\ over \in SUBSET Held(E) /\ D \in SUBSET Key /\ over \in SUBSET Key
  BY <1>1, Zenon DEF Held
<1>7. Covers(order, D) /\ Covers(LruOrder(A, over), over)
  BY <1>1, <1>4, <1>6, OrdersList, Zenon
<1>8. /\ X \in Seq(Item) /\ Hashes(X) = {E[j] : j \in D}
      /\ Y \in Seq(Item) /\ Hashes(Y) = {E[j] : j \in over}
  BY <1>1, <1>6, <1>7, ItemsList, ZenonT(30)
<1> HIDE DEF X, Y
<1> DEFINE items == first \o X \o Y
<1>9. items \in Seq(Item) /\ Hashes(items) = Hashes(first) \cup Hashes(X) \cup Hashes(Y)
  <2>1. X \o Y \in Seq(Item) /\ Hashes(X \o Y) = Hashes(X) \cup Hashes(Y)
    BY <1>8, HashesConcat, Zenon
  <2>2. first \o X \in Seq(Item) /\ Hashes(first \o X) = Hashes(first) \cup Hashes(X)
    BY <1>5, <1>8, HashesConcat, Zenon
  <2>3. (first \o X) \o Y \in Seq(Item) /\ Hashes((first \o X) \o Y) = Hashes(first \o X) \cup Hashes(Y)
    BY <1>8, <2>2, HashesConcat, Zenon
  <2> QED
    BY <2>2, <2>3, Zenon
<1>10. Retain(items)
  BY <1>4, Zenon DEF X, Y
<1> HIDE DEF items
<1>11. \A j \in Key : entries'[j] = IF j \in over \cup D THEN NoHash ELSE E[j]
  <2>1. \A j \in Key : entries'[j] = IF j \in over THEN NoHash ELSE E1[j]
    BY <1>3, Zenon DEF Without
  <2>2. \A j \in Key : E1[j] = IF j \in D THEN NoHash ELSE E[j]
    BY Zenon DEF Without, Swept, E1, D, E
  <2> QED
    BY <2>1, <2>2, Zenon
<1>12. ASSUME NEW x \in Hashes(items)
       PROVE  \/ x = h \/ (x = entries[k] /\ entries[k] # NoHash)
              \/ \E j \in Key \ {k} : x = entries[j] /\ entries[j] # NoHash /\ entries'[j] = NoHash
  <2>1. CASE x \in Hashes(first)
    BY <1>5, <2>1, Zenon
  <2>2. CASE \E j \in D \cup over : x = E[j]
    <3>1. PICK j \in D \cup over : x = E[j]
      BY <2>2, Zenon
    <3>2. j \in Key /\ E[j] # NoHash /\ entries'[j] = NoHash
      BY <1>6, <1>11, Zenon DEF Held
    <3> QED
      BY <1>2, <3>1, <3>2, Zenon
  <2> QED
    BY <1>8, <1>9, <2>1, <2>2, Zenon
<1>13. ASSUME NEW j \in Key, entries[j] # NoHash, j = k \/ entries'[j] # entries[j]
       PROVE  entries[j] \in Hashes(items)
  <2>1. CASE j = k
    BY <1>5, <1>9, <1>13, <2>1, Zenon
  <2>2. CASE j # k
    <3>1. j \in D \cup over /\ E[j] = entries[j]
      BY <1>2, <1>11, <1>13, <2>2, Zenon
    <3> QED
      BY <1>8, <1>9, <3>1, Zenon
  <2> QED
    BY <2>1, <2>2, Zenon
<1> QED
  BY <1>9, <1>10, <1>12, <1>13, Zenon

-----------------------------------------------------------------------------
(***************************************************************************)
(* The evidence table.                                                     *)
(***************************************************************************)

\* The total after a blob is queued or replaced, before the FIFO loop.
LEMMA QueuedBytes ==
  ASSUME StoreInv, evidenceBytes = BlobBytes(evidence, evidenceOrder, Len(evidenceOrder)),
         NEW h \in Hash, NEW b \in Blob
  PROVE  LET q == Queued(h)  ev == [evidence EXCEPT ![h] = b]
         IN  /\ q \in Seq(Hash) /\ Injective(q)
             /\ \A i \in 1 .. Len(q) : ev[q[i]] \in Blob
             /\ evidenceBytes + Evidence[b].len - ReplacedLen(h) = Total(Lens(ev, q), 1 .. Len(q))
<1> DEFINE s == evidenceOrder
           L == Len(s)
           q == Queued(h)
           ev == [evidence EXCEPT ![h] = b]
           w == Lens(evidence, s)
           v == Lens(ev, q)
<1>1. /\ evidence \in [Hash -> Blob \cup {NoBlob}] /\ s \in Seq(Hash)
      /\ Injective(s) /\ L \in Nat /\ b # NoBlob
      /\ (\A g \in Hash : evidence[g] # NoBlob <=> \E i \in 1 .. L : s[i] = g)
      /\ \A i \in 1 .. L : s[i] \in Hash
  BY BlobAssumption DEF StoreInv, TypeOK, EvidenceQueueExact, Injective
<1>2. \A i \in 1 .. L : evidence[s[i]] \in Blob
  BY <1>1, Zenon
<1>3. evidenceBytes = Total(w, 1 .. L)
  <2>1. L \in 0 .. Len(s)
    BY <1>1
  <2> QED
    BY <1>1, <1>2, <2>1, BlobSum, Zenon
<1>4. /\ ev \in [Hash -> Blob \cup {NoBlob}] /\ ev[h] = b /\ \A g \in Hash \ {h} : ev[g] = evidence[g]
      /\ Evidence[b].len \in Nat
  BY <1>1, SizeTypes, Zenon
<1>5. \A i \in 1 .. L : w[i] = Evidence[evidence[s[i]]].len /\ w[i] \in Int
  BY <1>2, SizeTypes DEF Lens
<1> HIDE DEF s, ev, w
<1>6. CASE evidence[h] = NoBlob
  <2>1. q = Append(s, h) /\ ReplacedLen(h) = 0
    BY <1>6, Zenon DEF Queued, ReplacedLen, s
  <2>2. ~Lists(s, h)
    BY <1>1, <1>6 DEF Lists
  <2>3. q \in Seq(Hash) /\ Injective(q) /\ Len(q) = L + 1 /\ q[L + 1] = h /\ \A i \in 1 .. L : q[i] = s[i]
    BY <1>1, <2>1, <2>2, AppendQueue
  <2> HIDE DEF q
  <2>4. \A i \in 1 .. L : q[i] \in Hash \ {h}
    BY <1>1, <2>2, <2>3 DEF Lists
  <2>5. \A i \in 1 .. L + 1 : ev[q[i]] \in Blob
    <3>1. \A i \in 1 .. L : ev[q[i]] \in Blob
      BY <1>2, <1>4, <2>3, <2>4, Zenon
    <3> QED
      BY <1>1, <1>4, <2>3, <3>1
  <2>6. \A i \in 1 .. L + 1 : v[i] = Evidence[ev[q[i]]].len /\ v[i] \in Int
    BY <2>3, <2>5, SizeTypes DEF Lens
  <2> HIDE DEF v, L
  <2>7. v[L + 1] = Evidence[b].len /\ \A i \in 1 .. L : v[i] = w[i]
    <3>1. ASSUME NEW i \in 1 .. L PROVE v[i] = w[i]
      <4>1. i \in 1 .. L + 1 /\ ev[q[i]] = evidence[s[i]]
        BY <1>1, <1>4, <2>3, <2>4
      <4> QED
        BY <1>5, <2>6, <4>1, Zenon
    <3> QED
      BY <1>1, <1>4, <2>3, <2>6, <3>1
  <2> DEFINE S == 1 .. L + 1
             T == 1 .. L
  <2>8. IsFiniteSet(S) /\ IsFiniteSet(T) /\ L + 1 \in S /\ S \ {L + 1} = T
    BY <1>1, FS_Interval
  <2>9. (\A i \in S : v[i] \in Int) /\ (\A i \in T : w[i] \in Int) /\ (\A i \in T : v[i] = w[i])
    BY <1>5, <2>6, <2>7, Zenon DEF L
  <2> HIDE DEF S, T
  <2>10. Total(v, T) = Total(w, T)
    BY <2>8, <2>9, TotalSame, Zenon
  <2>11. Total(v, S) = v[L + 1] + Total(v, S \ {L + 1})
    <3> DEFINE y == L + 1
    <3>1. y \in S
      BY <2>8, Zenon
    <3> HIDE DEF y
    <3>2. Total(v, S) = v[y] + Total(v, S \ {y})
      BY <2>8, <2>9, <3>1, TotalTake, Zenon
    <3> QED
      BY <3>2, Zenon DEF y
  <2>12. Total(w, T) \in Int
    BY <2>8, <2>9, TotalType, Zenon
  <2>13. Total(v, S) = Evidence[b].len + evidenceBytes
    BY <1>3, <2>7, <2>8, <2>10, <2>11, Zenon DEF T
  <2>14. evidenceBytes + Evidence[b].len - ReplacedLen(h) = Total(v, 1 .. Len(q))
    BY <1>3, <1>4, <2>1, <2>3, <2>12, <2>13 DEF S, T, L
  <2> QED
    BY <2>3, <2>5, <2>14, Zenon DEF q, v, L, ev
<1>7. CASE evidence[h] # NoBlob
  <2>1. q = s /\ ReplacedLen(h) = Evidence[evidence[h]].len
    BY <1>7, Zenon DEF Queued, ReplacedLen, s
  <2>2. PICK i0 \in 1 .. L : s[i0] = h
    BY <1>1, <1>7, Zenon
  <2>3. \A i \in 1 .. L : i # i0 => s[i] \in Hash \ {h}
    BY <1>1, <2>2 DEF Injective
  <2>4. \A i \in 1 .. L : ev[s[i]] \in Blob
    BY <1>2, <1>4, <2>2, <2>3, Zenon
  <2>5. \A i \in 1 .. L : v[i] = Evidence[ev[s[i]]].len /\ v[i] \in Int
    BY <2>1, <2>4, SizeTypes DEF Lens
  <2> HIDE DEF v, q
  <2>6. v[i0] = Evidence[b].len /\ w[i0] = Evidence[evidence[h]].len /\ \A i \in (1 .. L) \ {i0} : v[i] = w[i]
    BY <1>4, <1>5, <2>2, <2>3, <2>5
  <2> DEFINE S == 1 .. L
             T == S \ {i0}
  <2>7. IsFiniteSet(S) /\ IsFiniteSet(T) /\ i0 \in S
    <3>1. IsFiniteSet(S) /\ i0 \in S
      BY <1>1, FS_Interval
    <3> HIDE DEF S
    <3> QED
      BY <3>1, FS_RemoveElement, Zenon
  <2>8. (\A i \in S : v[i] \in Int) /\ (\A i \in S : w[i] \in Int) /\ (\A i \in T : w[i] \in Int) /\ (\A i \in T : v[i] = w[i])
    BY <1>5, <2>5, <2>6, Zenon
  <2> HIDE DEF S
  <2>9. Total(v, S) = v[i0] + Total(v, T) /\ Total(w, S) = w[i0] + Total(w, T)
    BY <2>7, <2>8, TotalTake, Zenon
  <2>10. Total(v, T) = Total(w, T) /\ Total(w, T) \in Int
    <3> HIDE DEF T
    <3> QED
      BY <2>7, <2>8, TotalSame, TotalType, Zenon
  <2>11. evidenceBytes = Total(w, S) /\ w[i0] \in Int /\ v[i0] \in Int
    BY <1>3, <2>7, <2>8, Zenon DEF S
  <2>12. evidenceBytes + Evidence[b].len - ReplacedLen(h) = Total(v, S)
    <3> HIDE DEF T
    <3> QED
      BY <1>4, <2>1, <2>6, <2>9, <2>10, <2>11
  <2> QED
    BY <1>1, <2>1, <2>4, <2>12, Zenon DEF q, v, ev, S, L
<1> QED
  BY <1>6, <1>7, Zenon

\* putEvidenceLocked keeps the byte total exact, and the table within its
\* budgets or down to one blob.
LEMMA PutEvidenceBudget ==
  ASSUME StoreInv, evidenceBytes = BlobBytes(evidence, evidenceOrder, Len(evidenceOrder)),
         NEW h \in Hash, NEW b \in Blob, PutEvidence(h, b)
  PROVE  /\ evidenceBytes' = BlobBytes(evidence', evidenceOrder', Len(evidenceOrder'))
         /\ LET n == Cardinality({g \in Hash : evidence'[g] # NoBlob})
            IN  n <= 1 \/ (n <= EvidenceMax /\ evidenceBytes' <= EvidMaxBytes)
<1> DEFINE q == Queued(h)
           ev == [evidence EXCEPT ![h] = b]
           load == evidenceBytes + Evidence[b].len - ReplacedLen(h)
           L == Len(q)
           w == Lens(ev, q)
<1>1. /\ q \in Seq(Hash) /\ Injective(q) /\ (\A i \in 1 .. L : ev[q[i]] \in Blob)
      /\ load = Total(w, 1 .. L)
  BY QueuedBytes, Zenon
<1>2. PICK n \in 0 .. L - 1 :
        /\ ~EvidenceOver(L - n, load - BlobBytes(ev, q, n))
        /\ evidenceOrder' = SubSeq(q, n + 1, L)
        /\ evidence' = [g \in Hash |-> IF \E i \in 1 .. n : q[i] = g THEN NoBlob ELSE ev[g]]
        /\ evidenceBytes' = load - BlobBytes(ev, q, n)
  BY Zenon DEF PutEvidence
<1> DEFINE t == evidenceOrder'
           v == Lens(evidence', t)
<1> HIDE DEF q, ev, load
<1>3. L \in Nat /\ n \in Nat /\ n < L /\ n \in 0 .. L /\ L - n \in Nat
  BY <1>1, <1>2
<1>4. t \in Seq(Hash) /\ Len(t) = L - n /\ \A i \in 1 .. L - n : t[i] = q[n + i]
  <2>1. n + 1 \in Int /\ L \in Int /\ \A i \in n + 1 .. L : q[i] \in Hash
    BY <1>1, <1>3
  <2>2. /\ t \in Seq(Hash) /\ Len(t) = IF n + 1 <= L THEN L - (n + 1) + 1 ELSE 0
        /\ \A i \in 1 .. L - (n + 1) + 1 : t[i] = q[n + 1 + i - 1]
    BY <1>2, <2>1, SubSeqProperties
  <2>3. L - (n + 1) + 1 = L - n /\ n + 1 <= L /\ \A i \in 1 .. L - n : n + 1 + i - 1 = n + i
    BY <1>3
  <2> QED
    BY <2>2, <2>3, Zenon
<1>5. ASSUME NEW i \in 1 .. L - n PROVE evidence'[t[i]] = ev[q[n + i]] /\ n + i \in 1 .. L
  <2>1. n + i \in 1 .. L /\ q[n + i] \in Hash
    BY <1>1, <1>3
  <2>2. ~\E k \in 1 .. n : q[k] = q[n + i]
    <3> SUFFICES ASSUME NEW k \in 1 .. n, q[k] = q[n + i] PROVE FALSE
      BY Zenon
    <3>1. k \in DOMAIN q /\ n + i \in DOMAIN q
      BY <1>1, <1>3, <2>1
    <3>2. k = n + i
      BY <1>1, <3>1, Zenon DEF Injective
    <3> QED
      BY <1>3, <3>2
  <2> QED
    BY <1>2, <1>4, <2>1, <2>2, Zenon
<1>6. \A i \in 1 .. L : w[i] = Evidence[ev[q[i]]].len /\ w[i] \in Nat
  BY <1>1, SizeTypes, Zenon DEF Lens
<1>7. \A i \in 1 .. L - n : v[i] = w[n + i]
  BY <1>4, <1>5, <1>6, Zenon DEF Lens
<1>8. \A i \in 1 .. Len(t) : evidence'[t[i]] \in Blob
  BY <1>1, <1>4, <1>5, Zenon
<1>9. BlobBytes(ev, q, n) = Total(w, 1 .. n)
  BY <1>1, <1>3, BlobSum, Zenon
<1>10. BlobBytes(evidence', t, Len(t)) = Total(v, 1 .. L - n)
  <2>1. Len(t) \in 0 .. Len(t)
    BY <1>3, <1>4
  <2> QED
    BY <1>4, <1>8, <2>1, BlobSum, Zenon
<1> HIDE DEF w, v, L, t
<1>11. Total(w, 1 .. L) = Total(w, 1 .. n) + Total(w, n + 1 .. L)
  <2> DEFINE S == 1 .. L
             T == 1 .. n
  <2>1. T \in SUBSET S /\ S \ T = n + 1 .. L /\ IsFiniteSet(S)
    BY <1>3, FS_Interval
  <2>2. \A i \in S : w[i] \in Int
    BY <1>6
  <2> HIDE DEF S, T
  <2>3. Total(w, S) = Total(w, T) + Total(w, S \ T)
    BY <2>1, <2>2, TotalSplit, Zenon
  <2> QED
    BY <2>1, <2>3, Zenon DEF S, T
<1>12. Total(w, n + 1 .. L) = Total(v, 1 .. L - n)
  <2> DEFINE S == 1 .. L - n
             T == n + 1 .. L
             f == [i \in S |-> n + i]
  <2>1. IsFiniteSet(S)
    BY <1>3, FS_Interval
  <2>2. f \in [S -> T] /\ (\A i, j \in S : f[i] = f[j] => i = j)
    BY <1>3
  <2>3. ASSUME NEW u \in T PROVE \E i \in S : f[i] = u
    <3>1. u - n \in S /\ n + (u - n) = u
      BY <1>3
    <3> QED
      BY <3>1, Zenon
  <2>4. \A i \in S : v[i] \in Int /\ w[f[i]] = v[i]
    BY <1>3, <1>6, <1>7
  <2> HIDE DEF S, T, f
  <2>5. Total(w, T) = Total(v, S)
    BY <2>1, <2>2, <2>3, <2>4, TotalRename
  <2> QED
    BY <2>5, Zenon DEF S, T
<1>13. Total(w, 1 .. n) \in Int /\ Total(w, n + 1 .. L) \in Int
  <2>1. IsFiniteSet(1 .. n) /\ IsFiniteSet(n + 1 .. L)
    BY <1>3, FS_Interval
  <2>2. (\A i \in 1 .. n : w[i] \in Int) /\ (\A i \in n + 1 .. L : w[i] \in Int)
    BY <1>3, <1>6
  <2> QED
    BY <2>1, <2>2, TotalType, Zenon
<1>14. evidenceBytes' = BlobBytes(evidence', t, Len(t))
  BY <1>1, <1>2, <1>9, <1>10, <1>11, <1>12, <1>13
<1>15. Cardinality({g \in Hash : evidence'[g] # NoBlob}) = L - n
  <2> DEFINE G == {g \in Hash : evidence'[g] # NoBlob}
             m == L - n
  <2>1. EvidenceQueueExact'
    BY PutEvidenceInv, Zenon
  <2>2. /\ \A i, j \in 1 .. m : t[i] = t[j] => i = j
        /\ \A g \in Hash : evidence'[g] # NoBlob <=> \E i \in 1 .. m : t[i] = g
    BY <1>4, <2>1 DEF EvidenceQueueExact, t
  <2>3. t \in [1 .. m -> G] /\ \A g \in G : \E i \in 1 .. m : t[i] = g
    BY <1>4, <2>2
  <2> HIDE DEF G
  <2>4. m \in Nat
    BY <1>3, Zenon
  <2> HIDE DEF m
  <2>5. Cardinality(G) = m
    BY <2>2, <2>3, <2>4, CountListed, Zenon
  <2> QED
    BY <2>5, Zenon DEF G, m
<1>16. L - n <= 1 \/ (L - n <= EvidenceMax /\ evidenceBytes' <= EvidMaxBytes)
  <2>1. evidenceBytes' \in Int /\ EvidenceMax \in Int /\ EvidMaxBytes \in Int
    BY <1>1, <1>2, <1>9, <1>11, <1>13, BudgetAssumption
  <2>2. ~EvidenceOver(L - n, evidenceBytes')
    BY <1>2, Zenon
  <2> QED
    BY <1>3, <2>1, <2>2 DEF EvidenceOver
<1> QED
  BY <1>14, <1>15, <1>16, Zenon DEF t

-----------------------------------------------------------------------------
(***************************************************************************)
(* The budgets of the three tables.                                        *)
(***************************************************************************)

\* The total of the live map is exact and within the budget, or one entry is left.
LiveBudget ==
    /\ bytes = LoadOf(entries, Held(entries))
    /\ bytes <= MaxBytes \/ Cardinality(Held(entries)) <= 1
\* The same of the history.
HistBudget == [at |-> history, bytes |-> historyBytes] \in Histories
\* The same of the evidence table.
EvidBudget ==
    /\ evidenceBytes = BlobBytes(evidence, evidenceOrder, Len(evidenceOrder))
    /\ LET n == Cardinality({h \in Hash : evidence[h] # NoBlob})
       IN  n <= 1 \/ (n <= EvidenceMax /\ evidenceBytes <= EvidMaxBytes)

\* What every call preserves: the types, the evidence queue, and of each table
\* an exact total within its budgets.
BudgetInv == StoreInv /\ LiveBudget /\ HistBudget /\ EvidBudget

\* The empty store.
LEMMA BudgetStart == Init => BudgetInv
<1> SUFFICES ASSUME Init PROVE BudgetInv
  BY Zenon
<1>1. StoreInv
  BY StoreInitInv, Zenon
<1>2. LiveBudget
  <2>1. entries \in [Key -> Hash \cup {NoHash}] /\ Held(entries) = {} /\ {} \in SUBSET Held(entries)
    BY Zenon DEF Init, NoEntries, Held
  <2>2. LoadOf(entries, {}) = Total(Loads(entries), {})
    BY <2>1, LoadSum, Zenon
  <2>3. IsFiniteSet({}) /\ \A x \in {} : Loads(entries)[x] \in Int
    BY FS_EmptySet, Zenon
  <2>4. Total(Loads(entries), {}) = 0 /\ Cardinality({}) = 0
    BY <2>3, TotalType, FS_EmptySet, Zenon
  <2> QED
    BY <2>1, <2>2, <2>4 DEF LiveBudget, Init
<1>3. HistBudget
  <2>1. history \in Stamps /\ Retained(history) = {}
    BY Zenon DEF Init, NoHistory, Stamps, Retained
  <2>2. SizeOf({}) = Total(Sizes, {})
    BY SizeSum, Zenon
  <2>3. IsFiniteSet({}) /\ \A x \in {} : Sizes[x] \in Int
    BY FS_EmptySet, Zenon
  <2>4. Total(Sizes, {}) = 0 /\ Cardinality({}) = 0
    BY <2>3, TotalType, FS_EmptySet, Zenon
  <2> QED
    BY <2>1, <2>2, <2>4 DEF HistBudget, Init, Histories, InBudget
<1>4. EvidBudget
  <2>1. /\ evidenceOrder \in Seq(Hash) /\ Len(evidenceOrder) = 0 /\ 0 \in 0 .. Len(evidenceOrder)
        /\ (\A i \in 1 .. Len(evidenceOrder) : evidence[evidenceOrder[i]] \in Blob)
        /\ {h \in Hash : evidence[h] # NoBlob} = {} /\ 1 .. 0 = {}
    BY DEF Init, NoEvidence
  <2> DEFINE w == Lens(evidence, evidenceOrder)
  <2>2. BlobBytes(evidence, evidenceOrder, 0) = Total(w, 1 .. 0)
    BY <2>1, BlobSum, Zenon
  <2> HIDE DEF w
  <2>3. IsFiniteSet({}) /\ \A x \in {} : w[x] \in Int
    BY FS_EmptySet, Zenon
  <2>4. Total(w, {}) = 0 /\ Cardinality({}) = 0
    BY <2>3, TotalType, FS_EmptySet, Zenon
  <2>5. evidenceBytes = BlobBytes(evidence, evidenceOrder, Len(evidenceOrder))
    <3>1. evidenceBytes = 0
      BY Zenon DEF Init
    <3> QED
      BY <2>1, <2>2, <2>4, <3>1, Zenon
  <2>6. Cardinality({h \in Hash : evidence[h] # NoBlob}) <= 1
    <3>1. Cardinality({}) <= 1
      BY <2>4
    <3> QED
      BY <2>1, <3>1, Zenon
  <2> QED
    BY <2>5, <2>6, Zenon DEF EvidBudget
<1> QED
  BY <1>1, <1>2, <1>3, <1>4, Zenon DEF BudgetInv

\* Taking an entry out of the live map.
LEMMA DropBudget ==
  ASSUME TypeOK, LiveBudget, NEW k \in Key, entries[k] # NoHash,
         entries' = [entries EXCEPT ![k] = NoHash], bytes' = bytes - Env[entries[k]].size
  PROVE  LiveBudget'
<1> DEFINE K == Held(entries)
           J == K \ {k}
<1>1. /\ entries \in [Key -> Hash \cup {NoHash}] /\ entries' \in [Key -> Hash \cup {NoHash}]
      /\ Held(entries') = J /\ k \in K /\ K \in SUBSET Held(entries) /\ J \in SUBSET K /\ K \in SUBSET Key
      /\ \A j \in J : entries'[j] = entries[j]
  BY Zenon DEF TypeOK, Held
<1>2. Env[entries[k]].size \in Nat
  BY <1>1, SizeTypes, Zenon
<1>5. bytes = LoadOf(entries, K) /\ (bytes <= MaxBytes \/ Cardinality(K) <= 1)
  BY Zenon DEF LiveBudget
<1> HIDE DEF K, J
<1>3. LoadOf(entries, K) = Env[entries[k]].size + LoadOf(entries, K \ {k})
  BY <1>1, LoadTake
<1>4. LoadOf(entries', J) = LoadOf(entries, J) /\ LoadOf(entries, J) \in Nat
  <2>1. J \in SUBSET Held(entries)
    BY <1>1, Zenon
  <2>2. entries \in [Key -> Hash \cup {NoHash}] /\ entries' \in [Key -> Hash \cup {NoHash}]
    BY <1>1, Zenon
  <2>3. \A j \in J : entries'[j] = entries[j]
    BY <1>1, Zenon
  <2>4. LoadOf(entries', J) = LoadOf(entries, J)
    BY <2>1, <2>2, <2>3, LoadSame, ZenonT(30)
  <2> QED
    BY <2>1, <2>2, <2>4, LoadNat, Zenon
<1>6. Cardinality(J) <= Cardinality(K) /\ Cardinality(J) \in Nat /\ Cardinality(K) \in Nat
  <2>1. IsFiniteSet(K) /\ J \in SUBSET Key
    BY <1>1, SizeTypes, Zenon
  <2> QED
    BY <1>1, <2>1, FS_Subset, SizeTypes, Zenon
<1>7. LoadOf(entries, K) = Env[entries[k]].size + LoadOf(entries, J)
  BY <1>3, Zenon DEF J
<1>8. bytes' = LoadOf(entries', J) /\ bytes' <= bytes /\ bytes \in Int /\ bytes' \in Int
  BY <1>2, <1>4, <1>5, <1>7
<1>9. bytes' <= MaxBytes \/ Cardinality(J) <= 1
  BY <1>5, <1>6, <1>8, BudgetAssumption
<1> QED
  BY <1>1, <1>8, <1>9, Zenon DEF LiveBudget

\* Retaining items keeps the history within its budgets.
LEMMA RetainBudget ==
  ASSUME HistBudget, NEW items \in Seq(Item), Retain(items)
  PROVE  HistBudget'
<1> DEFINE x == [at |-> history, bytes |-> historyBytes]
<1>1. x \in Histories
  BY Zenon DEF HistBudget
<1>2. RetainAll(items) \in Histories
  <2>1. PICK c \in [0 .. Len(items) -> Histories] : RetainAll(items) = c[Len(items)]
    BY <1>1, RetainAllChain, Zenon
  <2> QED
    BY <2>1
<1>3. history' = RetainAll(items).at /\ historyBytes' = RetainAll(items).bytes
  BY Zenon DEF Retain
<1>4. RetainAll(items) = [at |-> history', bytes |-> historyBytes']
  BY <1>2, <1>3, Zenon DEF Histories
<1> QED
  BY <1>2, <1>4, Zenon DEF HistBudget

\* Every call keeps every table within its budgets.
LEMMA BudgetStep == BudgetInv /\ [Next]_storeVars => BudgetInv'
<1> SUFFICES ASSUME BudgetInv, [Next]_storeVars PROVE BudgetInv'
  BY Zenon
<1>0. StoreInv /\ TypeOK /\ StoreInv' /\ LiveBudget /\ HistBudget /\ EvidBudget
  BY StoreStep, Zenon DEF BudgetInv, StoreInv
<1> SUFFICES LiveBudget' /\ HistBudget' /\ EvidBudget'
  BY <1>0, Zenon DEF BudgetInv
<1>a. UNCHANGED <<entries, bytes>> => LiveBudget'
  BY <1>0, Zenon DEF LiveBudget
<1>b. UNCHANGED hist => HistBudget'
  BY <1>0, Zenon DEF HistBudget, hist
<1>c. UNCHANGED evid => EvidBudget'
  BY <1>0, Zenon DEF EvidBudget, evid
<1>d. ASSUME NEW h \in Hash, NEW b \in Blob, PutEvidence(h, b) PROVE EvidBudget'
  BY <1>0, <1>d, PutEvidenceBudget, Zenon DEF EvidBudget
<1>1. ASSUME NEW h \in Hash, NEW k \in StorageKeys(h), NEW b \in Blob \cup {NoBlob}, PutAccept(k, h, b)
      PROVE  LiveBudget' /\ HistBudget' /\ EvidBudget'
  <2>1. k \in Key /\ RetainEvidence(h, b) /\ PutAccepted(k, h)
    BY <1>1, StorageKeysType, Zenon DEF PutAccept
  <2>2. EvidBudget'
    BY <1>c, <1>d, <2>1, Zenon DEF RetainEvidence, ValidBlob
  <2>3. CASE SameStored(k, h)
    BY <1>a, <1>b, <2>1, <2>2, <2>3, Zenon DEF PutAccepted, Touch
  <2>4. CASE ~SameStored(k, h)
    <3>1. Install(k, h)
      BY <2>1, <2>4, Zenon DEF PutAccepted
    <3>2. LiveBudget'
      BY <1>0, <2>1, <3>1, InstallBudget, Zenon DEF LiveBudget
    <3>3. PICK items \in Seq(Item) : Retain(items)
      BY <1>0, <2>1, <3>1, InstallItems, Zenon
    <3>4. HistBudget'
      BY <1>0, <3>3, RetainBudget, Zenon
    <3> QED
      BY <2>2, <3>2, <3>4, Zenon
  <2> QED
    BY <2>3, <2>4, Zenon
<1>2. ASSUME NEW h \in Hash, NEW k \in StorageKeys(h), NEW b \in Blob \cup {NoBlob}, PutRefuse(k, h, b)
      PROVE  LiveBudget' /\ HistBudget' /\ EvidBudget'
  BY <1>2, <1>a, <1>b, <1>c, Zenon DEF PutRefuse, Touch
<1>3. ASSUME NEW k \in Key, Get(k) PROVE LiveBudget' /\ HistBudget' /\ EvidBudget'
  <2>1. CASE HasLive(k)
    BY <1>3, <1>a, <1>b, <1>c, <2>1, Zenon DEF Get, Touch
  <2>2. CASE ~HasLive(k)
    <3> DEFINE e == [hash |-> entries[k], at |-> access[k]]
    <3>1. /\ entries[k] # NoHash /\ entries' = [entries EXCEPT ![k] = NoHash]
          /\ bytes' = bytes - Env[entries[k]].size /\ Retain(<<e>>) /\ UNCHANGED evid
      BY <1>3, <2>2, Zenon DEF Get, DropDead
    <3>2. <<e>> \in Seq(Item)
      BY <1>0, <3>1 DEF TypeOK, Item
    <3>3. LiveBudget'
      BY <1>0, <3>1, DropBudget, Zenon
    <3>4. HistBudget'
      <4> HIDE DEF e
      <4> QED
        BY <1>0, <3>1, <3>2, RetainBudget, Zenon
    <3> QED
      BY <1>c, <3>1, <3>3, <3>4, Zenon
  <2> QED
    BY <2>1, <2>2, Zenon
<1>4. ASSUME NEW k \in Key, Remove_(k) PROVE LiveBudget' /\ HistBudget' /\ EvidBudget'
  BY <1>0, <1>4, <1>b, <1>c, DropBudget, Zenon DEF Remove_
<1>5. ASSUME NEW h \in Hash, NEW b \in Blob, CacheEvidence(h, b) PROVE LiveBudget' /\ HistBudget' /\ EvidBudget'
  BY <1>5, <1>a, <1>b, <1>d, Zenon DEF CacheEvidence, live
<1>6. CASE Tick
  BY <1>6, <1>a, <1>b, <1>c, Zenon DEF Tick, live
<1>7. CASE UNCHANGED storeVars
  BY <1>7, <1>a, <1>b, <1>c, Zenon DEF storeVars, live
<1> QED
  BY <1>1, <1>2, <1>3, <1>4, <1>5, <1>6, <1>7, Zenon DEF Next

\* The O(1) totals of store.go and evidence.go are exact after every call, and
\* the live map, the history and the evidence table are each within their
\* budgets or down to the one entry their eviction loop refuses to drop.
THEOREM StoreBudgets == Spec => []BudgetsHold
<1>1. BudgetInv => BudgetsHold
  BY Zenon DEF BudgetInv, LiveBudget, HistBudget, EvidBudget, Histories, InBudget, BudgetsHold, ByteAccounting
<1> QED
  BY BudgetStart, BudgetStep, <1>1, PTL DEF Spec

\* A put, a Get of an expired entry, or any other call but Remove moves what
\* leaves the live map to the history, when the history has room for it.
LEMMA RetainedStep ==
  ASSUME BudgetInv, Next, (\E k \in Key : Get(k)) \/ (\A k \in Key : ~Remove_(k)),
         \A h \in Hash : Fits({entries[k] : k \in Leaving} \cup Retained(history) \cup {h}),
         NEW j \in Leaving
  PROVE  history'[entries[j]] # Never
<1> DEFINE into == {entries[k] : k \in Leaving} \cup Retained(history)
           x == [at |-> history, bytes |-> historyBytes]
<1>0. TypeOK /\ x \in Histories /\ j \in Key /\ entries[j] # NoHash /\ entries'[j] # entries[j] /\ entries[j] \in Hash
  BY Zenon DEF BudgetInv, StoreInv, HistBudget, Leaving, TypeOK
<1>a. into \in SUBSET Hash /\ Retained(history) \subseteq into /\ \A k \in Leaving : entries[k] \in into
  BY <1>0, Zenon DEF Leaving, Retained, TypeOK
<1>b. ASSUME NEW items \in Seq(Item), Retain(items), NEW h \in Hash, Hashes(items) \subseteq into \cup {h},
             entries[j] \in Hashes(items)
      PROVE  history'[entries[j]] # Never
  <2> DEFINE U == into \cup {h}
  <2>1. U \in SUBSET Hash /\ Fits(U) /\ Retained(history) \subseteq U /\ \A i \in 1 .. Len(items) : items[i].hash \in U
    BY <1>a, <1>b, Zenon DEF Hashes
  <2> HIDE DEF U, x
  <2>2. x = [at |-> history, bytes |-> historyBytes]
    BY Zenon DEF x
  <2>3. \A i \in 1 .. Len(items) : items[i].hash \in Retained(RetainAll(items).at)
    BY <1>0, <2>1, <2>2, RetainAllFits, Zenon
  <2>4. entries[j] \in Retained(history')
    BY <1>b, <2>3, Zenon DEF Hashes, Retain
  <2> QED
    BY <2>4, Zenon DEF Retained
<1> HIDE DEF into
<1>1. ASSUME NEW h \in Hash, NEW k \in StorageKeys(h), NEW b \in Blob \cup {NoBlob}, PutAccept(k, h, b)
      PROVE  history'[entries[j]] # Never
  <2>1. k \in Key /\ PutAccepted(k, h)
    BY <1>1, StorageKeysType, Zenon DEF PutAccept
  <2>2. Install(k, h) /\ ~SameStored(k, h)
    BY <1>0, <2>1, Zenon DEF PutAccepted, Touch
  <2>3. PICK items \in Seq(Item) :
            /\ Retain(items)
            /\ \A y \in Hashes(items) : \/ y = h \/ (y = entries[k] /\ entries[k] # NoHash)
                                        \/ \E i \in Key \ {k} : y = entries[i] /\ entries[i] # NoHash /\ entries'[i] = NoHash
            /\ \A i \in Key : entries[i] # NoHash /\ (i = k \/ entries'[i] # entries[i]) => entries[i] \in Hashes(items)
    BY <1>0, <2>1, <2>2, InstallItems, Zenon
  <2>4. entries[k] # NoHash => entries[k] = h \/ k \in Leaving
    <3>1. entries'[k] \in {NoHash, h}
      BY <1>0, <2>1, <2>2, InstallEntries, Zenon
    <3> QED
      BY <2>1, <3>1, Zenon DEF Leaving
  <2>5. Hashes(items) \subseteq into \cup {h}
    BY <1>a, <2>3, <2>4 DEF Leaving
  <2>6. entries[j] \in Hashes(items)
    BY <1>0, <2>3, Zenon
  <2> QED
    BY <1>b, <2>3, <2>5, <2>6, Zenon
<1>2. ASSUME NEW h \in Hash, NEW k \in StorageKeys(h), NEW b \in Blob \cup {NoBlob}, PutRefuse(k, h, b)
      PROVE  FALSE
  BY <1>0, <1>2, Zenon DEF PutRefuse, Touch
<1>3. ASSUME NEW k \in Key, Get(k) PROVE history'[entries[j]] # Never
  <2>1. CASE HasLive(k)
    BY <1>0, <1>3, <2>1, Zenon DEF Get, Touch
  <2>2. CASE ~HasLive(k)
    <3> DEFINE e == [hash |-> entries[k], at |-> access[k]]
    <3>1. /\ entries[k] # NoHash /\ entries' = [entries EXCEPT ![k] = NoHash] /\ Retain(<<e>>)
      BY <1>3, <2>2, Zenon DEF Get, DropDead
    <3>2. j = k
      BY <1>0, <3>1, Zenon DEF TypeOK
    <3>3. e \in Item /\ e.hash = entries[j]
      BY <1>0, <3>2, Zenon DEF TypeOK, Item
    <3> HIDE DEF e
    <3>4. <<e>> \in Seq(Item) /\ Hashes(<<e>>) = {entries[j]}
      BY <3>3 DEF Hashes
    <3>5. Hashes(<<e>>) \subseteq into \cup {entries[j]}
      BY <3>4, Zenon
    <3> QED
      BY <1>0, <1>b, <3>1, <3>4, <3>5, Zenon
  <2> QED
    BY <2>1, <2>2, Zenon
<1>4. ASSUME NEW k \in Key, Remove_(k) PROVE history'[entries[j]] # Never
  <2>1. \E i \in Key : Get(i)
    BY <1>4, Zenon
  <2> QED
    BY <1>3, <2>1, Zenon
<1>5. ASSUME NEW h \in Hash, NEW b \in Blob, CacheEvidence(h, b) PROVE FALSE
  BY <1>0, <1>5, Zenon DEF CacheEvidence, live
<1>6. CASE Tick
  BY <1>0, <1>6, Zenon DEF Tick, live
<1> QED
  BY <1>1, <1>2, <1>3, <1>4, <1>5, <1>6, Zenon DEF Next

\* No envelope that is superseded, expires or is evicted is lost to the audit
\* trail while the history has room: evictExpiredLocked, enforceCapLocked and
\* the replacement in Put all hand it to retainHistoryLocked.
THEOREM SupersededKept == Spec => SupersededIsRetained
<1>1. BudgetInv /\ [Next]_storeVars =>
        [(\E k \in Key : Get(k)) \/ (\A k \in Key : ~Remove_(k))
         => LET into == {entries[k] : k \in Leaving} \cup Retained(history)
            IN  (\A h \in Hash : Fits(into \cup {h}))
                => \A k \in Leaving : history'[entries[k]] # Never]_storeVars
  BY RetainedStep, Zenon
<1> QED
  BY BudgetStart, BudgetStep, <1>1, PTL DEF Spec, SupersededIsRetained

=============================================================================
