----------------------------- MODULE FoldFacts ------------------------------
(***************************************************************************)
(* What the proofs need to know about FoldLeft, with which the models sum    *)
(* up token counts, scores and votes and cut up texts, and about FlattenSeq.  *)
(* The induction theorems of the library take a predicate; here induction is  *)
(* over a set of numbers, so that a proof can apply it to the numbers for     *)
(* which its claim holds.                                                  *)
(***************************************************************************)
EXTENDS Integers, Sequences, FiniteSets, SequencesExt, FiniteSetsExt,
        FiniteSetTheorems, SequenceTheorems, WellFoundedInduction, TLAPS

\* A set of numbers that is not empty has a least one.
LEMMA LeastNatural ==
    ASSUME NEW T \in SUBSET Nat, T # {}
    PROVE  \E n \in T : \A m \in T : n <= m
<1>. DEFINE R == OpToRel(<, Nat)
<1>1. IsWellFoundedOn(R, Nat)
  BY NatLessThanWellFounded
<1>2. \A m, n \in Nat : m < n => <<m, n>> \in R
  BY DEF OpToRel
<1>. HIDE DEF R
<1>3. PICK n \in T : \A m \in T : ~ (<<m, n>> \in R)
  BY <1>1, WFMin
<1>4. ASSUME NEW m \in T PROVE n <= m
  <2>1. ~ (m < n)
    BY <1>2, <1>3
  <2>2. m \in Nat /\ n \in Nat
    OBVIOUS
  <2>. QED
    BY <2>1, <2>2
<1>. QED
  BY <1>4

\* What holds for 0 and goes from each number to the next holds for all.
LEMMA SetInduction ==
    ASSUME NEW S, 0 \in S, \A n \in Nat : n \in S => n + 1 \in S
    PROVE  Nat \subseteq S
<1>. SUFFICES ASSUME Nat \ S # {} PROVE FALSE
  OBVIOUS
<1>1. PICK n \in Nat \ S : \A m \in Nat \ S : n <= m
  BY LeastNatural, Nat \ S \in SUBSET Nat
<1>2. n # 0 /\ n - 1 \in Nat
  BY <1>1
<1>. QED
  BY <1>1, <1>2

LEMMA MaxOfNumbers ==
    ASSUME NEW n \in Nat, NEW s \in SUBSET (1..n), s # {}
    PROVE  Max(s) \in s /\ \A i \in s : i <= Max(s)
<1>. DEFINE T == {n - i : i \in s}
<1>a. ASSUME NEW i \in s PROVE i \in 1..n /\ n - i \in Nat
  BY <1>a
<1>1. T \in SUBSET Nat /\ T # {}
  BY <1>a
<1>2. PICK least \in T : \A m \in T : least <= m
  BY <1>1, LeastNatural
<1>3. PICK i \in s : least = n - i
  BY <1>2
<1>4. ASSUME NEW j \in s PROVE i >= j
  <2>1. n - j \in T
    OBVIOUS
  <2>2. n - i <= n - j
    BY <1>2, <1>3, <2>1
  <2>. QED
    BY <1>a, <2>2
<1>. QED
  BY <1>4 DEF Max

LEMMA MaxOfPrefix ==
    ASSUME NEW n \in Nat \ {0}
    PROVE  Max(1..n) = n /\ (1..n) \ {n} = 1..n - 1
<1>1. Max(1..n) \in 1..n /\ n <= Max(1..n)
  BY MaxOfNumbers, 1..n # {}, n \in 1..n
<1>. QED
  BY <1>1

-----------------------------------------------------------------------------
(***************************************************************************)
(* FoldLeft of n elements is iter[1..n], where iter is some function with   *)
(* iter[s] computed from iter[s \ {Max(s)}].                               *)
(***************************************************************************)
\* F[b, i] is what the fold makes of b and the i-th element.
Folds(B, n, base, F, g) ==
    /\ g \in [SUBSET (1..n) -> B]
    /\ \A s \in SUBSET (1..n) :
          g[s] = IF s = {} THEN base ELSE F[g[s \ {Max(s)}], Max(s)]

\* Such a function exists.
LEMMA FoldExists ==
    ASSUME NEW B, NEW n \in Nat, NEW base \in B, NEW F \in [B \X (1..n) -> B]
    PROVE  \E g : Folds(B, n, base, F, g)
<1>. DEFINE S == {k \in Nat : k <= n => \E g : Folds(B, k, base, F, g)}
<1>1. 0 \in S
  <2>. DEFINE g == [s \in SUBSET (1..0) |-> base]
  <2>1. \A s \in SUBSET (1..0) : s = {}
    OBVIOUS
  <2>2. Folds(B, 0, base, F, g)
    BY <2>1 DEF Folds
  <2>. QED
    BY <2>2
<1>2. ASSUME NEW k \in Nat, k \in S PROVE k + 1 \in S
  <2>. SUFFICES ASSUME k + 1 <= n PROVE \E h : Folds(B, k + 1, base, F, h)
    OBVIOUS
  <2>1. PICK g : Folds(B, k, base, F, g)
    BY <1>2
  <2>. DEFINE h == [s \in SUBSET (1..k + 1) |->
                      IF k + 1 \in s THEN F[g[s \ {k + 1}], k + 1] ELSE g[s]]
  <2>2. ASSUME NEW s \in SUBSET (1..k + 1), k + 1 \in s
        PROVE  /\ s \ {k + 1} \in SUBSET (1..k) /\ Max(s) = k + 1
               /\ h[s] = F[g[s \ {k + 1}], k + 1]
               /\ h[s \ {k + 1}] = g[s \ {k + 1}]
    <3>1. s \ {k + 1} \in SUBSET (1..k)
      OBVIOUS
    <3>2. Max(s) \in s /\ k + 1 <= Max(s)
      <4>1. k + 1 \in Nat /\ s # {}
        BY <2>2
      <4>2. Max(s) \in s /\ \A i \in s : i <= Max(s)
        BY <4>1, MaxOfNumbers
      <4>. QED
        BY <2>2, <4>2
    <3>3. Max(s) = k + 1
      <4>1. Max(s) \in 1..k + 1
        BY <3>2
      <4>. QED
        BY <3>2, <4>1
    <3>. QED
      BY <2>2, <3>1, <3>3
  <2>3. ASSUME NEW s \in SUBSET (1..k + 1), k + 1 \notin s
        PROVE  /\ s \in SUBSET (1..k) /\ h[s] = g[s]
               /\ s # {} => h[s \ {Max(s)}] = g[s \ {Max(s)}]
    <3>1. ASSUME NEW r \in SUBSET s PROVE r \in SUBSET (1..k) /\ h[r] = g[r]
      <4>1. ASSUME NEW i \in r PROVE i \in 1..k
        <5>1. i \in 1..k + 1 /\ i # k + 1
          BY <2>3
        <5>. QED
          BY <5>1
      <4>2. r \in SUBSET (1..k + 1) /\ k + 1 \notin r
        BY <2>3
      <4>. QED
        BY <4>1, <4>2
    <3>2. s \in SUBSET s /\ s \ {Max(s)} \in SUBSET s
      OBVIOUS
    <3>. HIDE DEF h
    <3>. QED
      BY <3>1, <3>2
  <2>4. ASSUME NEW s \in SUBSET (1..k + 1)
        PROVE  h[s] \in B /\ h[s] = IF s = {} THEN base ELSE F[h[s \ {Max(s)}], Max(s)]
    <3>1. CASE k + 1 \in s
      <4>1. g[s \ {k + 1}] \in B /\ k + 1 \in 1..n
        <5>1. s \ {k + 1} \in SUBSET (1..k)
          BY <2>2, <3>1
        <5>2. \A r \in SUBSET (1..k) : g[r] \in B
          BY <2>1 DEF Folds
        <5>3. k + 1 \in 1..n
          OBVIOUS
        <5>. QED
          BY <5>1, <5>2, <5>3
      <4>. HIDE DEF h
      <4>. QED
        BY <2>2, <3>1, <4>1
    <3>2. CASE k + 1 \notin s
      <4>1. g[s] \in B /\ g[s] = IF s = {} THEN base ELSE F[g[s \ {Max(s)}], Max(s)]
        BY <2>1, <2>3, <3>2 DEF Folds
      <4>. HIDE DEF h
      <4>. QED
        BY <2>3, <3>2, <4>1
    <3>. QED
      BY <3>1, <3>2
  <2>5. Folds(B, k + 1, base, F, h)
    <3>1. h \in [SUBSET (1..k + 1) -> B]
      BY <2>4
    <3>. HIDE DEF h
    <3>. QED
      BY <2>4, <3>1 DEF Folds
  <2>. QED
    BY <2>5
<1>3. n \in S
  <2>. HIDE DEF S
  <2>. QED
    BY <1>1, <1>2, SetInduction
<1>. QED
  BY <1>3

\* The fold of the first elements, one more at a time.
FoldSteps(B, n, base, F, f) ==
    /\ f \in [0..n -> B]
    /\ f[0] = base
    /\ \A k \in 1..n : f[k] = F[f[k - 1], k]

\* The equation of iter, wherever its values may be.
Iterates(B, n, base, F, iter) ==
    /\ iter[{}] = base
    /\ \A s \in SUBSET (1..n) :
          s # {} /\ iter[s \ {Max(s)}] \in B => iter[s] = F[iter[s \ {Max(s)}], Max(s)]

LEMMA Initials ==
    ASSUME NEW n \in Nat, NEW k \in 1..n
    PROVE  /\ 1..k \in SUBSET (1..n) /\ 1..k # {}
           /\ Max(1..k) = k /\ (1..k) \ {k} = 1..k - 1
<1>1. k \in Nat \ {0} /\ k \in 1..k
  OBVIOUS
<1>2. \A i \in 1..k : i \in 1..n
  OBVIOUS
<1>. QED
  BY <1>1, <1>2, MaxOfPrefix

\* A function that satisfies it runs through the folds of the first elements.
LEMMA FoldOfPrefixes ==
    ASSUME NEW B, NEW n \in Nat, NEW base \in B, NEW F \in [B \X (1..n) -> B], NEW iter,
           Iterates(B, n, base, F, iter),
           NEW f, f = [k \in 0..n |-> iter[1..k]]
    PROVE  FoldSteps(B, n, base, F, f)
<1>. DEFINE S == {k \in Nat : k <= n => iter[1..k] \in B}
<1>1. ASSUME NEW k \in 1..n, iter[1..k - 1] \in B
      PROVE  iter[1..k] = F[iter[1..k - 1], k] /\ iter[1..k] \in B
  <2>1. /\ 1..k \in SUBSET (1..n) /\ 1..k # {}
        /\ Max(1..k) = k /\ (1..k) \ {k} = 1..k - 1
    BY Initials
  <2>. QED
    BY <1>1, <2>1 DEF Iterates
<1>2. iter[1..0] = base
  <2>1. 1..0 = {}
    OBVIOUS
  <2>. QED
    BY <2>1 DEF Iterates
<1>3. ASSUME NEW k \in Nat, k \in S PROVE k + 1 \in S
  <2>1. CASE k + 1 <= n
    <3>1. k + 1 \in 1..n /\ (k + 1) - 1 = k /\ iter[1..k] \in B
      BY <1>3, <2>1
    <3>2. iter[1..k + 1] \in B
      BY <1>1, <3>1
    <3>. QED
      BY <3>2
  <2>. QED
    BY <2>1
<1>4. \A k \in 0..n : iter[1..k] \in B
  <2>1. 0 \in S
    BY <1>2
  <2>2. Nat \subseteq S
    <3>. HIDE DEF S
    <3>. QED
      BY <1>3, <2>1, SetInduction
  <2>. QED
    BY <2>2
<1>6. f \in [0..n -> B] /\ f[0] = base
  BY <1>2, <1>4
<1>7. ASSUME NEW k \in 1..n PROVE f[k] = F[f[k - 1], k]
  <2>1. k \in 0..n /\ k - 1 \in 0..n
    OBVIOUS
  <2>2. f[k] = iter[1..k] /\ f[k - 1] = iter[1..k - 1]
    BY <2>1
  <2>. QED
    BY <1>1, <1>4, <2>1, <2>2
<1>. QED
  BY <1>6, <1>7 DEF FoldSteps

\* Its value for all is where such folds end.
FoldsTo(B, n, base, F, result) == \E f : FoldSteps(B, n, base, F, f) /\ f[n] = result

LEMMA FoldRuns ==
    ASSUME NEW B, NEW n \in Nat, NEW base \in B, NEW F \in [B \X (1..n) -> B], NEW iter,
           Iterates(B, n, base, F, iter)
    PROVE  FoldsTo(B, n, base, F, iter[1..n])
<1>1. PICK f : f = [k \in 0..n |-> iter[1..k]]
  OBVIOUS
<1>2. FoldSteps(B, n, base, F, f)
  BY <1>1, FoldOfPrefixes
<1>. QED
  BY <1>1, <1>2 DEF FoldsTo

\* F keeps what it has or takes the k-th element, whichever is better: R holds those
\* pairs the first of which is as good as the second.
Prefers(B, n, w, F, R) ==
    /\ w \in [1..n -> B]
    /\ \A b \in B : <<b, b>> \in R
    /\ \A a, b, c \in B : <<a, b>> \in R /\ <<b, c>> \in R => <<a, c>> \in R
    /\ \A b \in B, k \in 1..n :
          /\ F[b, k] \in {b, w[k]}
          /\ <<F[b, k], b>> \in R /\ <<F[b, k], w[k]>> \in R

BestTo(w, R, base, f, m) ==
    /\ <<f[m], base>> \in R
    /\ \A k \in 1..m : <<f[m], w[k]>> \in R
    /\ f[m] # base => \E k \in 1..m : f[m] = w[k]

\* A fold that keeps the better of two ends with the best of all.
LEMMA BestOfFold ==
    ASSUME NEW B, NEW n \in Nat, NEW base \in B, NEW w, NEW F, NEW R, Prefers(B, n, w, F, R),
           NEW f, FoldSteps(B, n, base, F, f)
    PROVE  f[n] \in B /\ BestTo(w, R, base, f, n)
<1>. DEFINE S == {m \in Nat : m <= n => BestTo(w, R, base, f, m)}
<1>1. f \in [0..n -> B] /\ f[0] = base /\ \A k \in 1..n : f[k] = F[f[k - 1], k]
  BY DEF FoldSteps
<1>2. 0 \in S
  <2>1. <<f[0], base>> \in R
    BY <1>1 DEF Prefers
  <2>2. \A k : k \notin 1..0
    OBVIOUS
  <2>3. BestTo(w, R, base, f, 0)
    BY <1>1, <2>1, <2>2 DEF BestTo
  <2>. QED
    BY <2>3
<1>3. ASSUME NEW m \in Nat, m \in S PROVE m + 1 \in S
  <2>. SUFFICES ASSUME m + 1 <= n PROVE BestTo(w, R, base, f, m + 1)
    OBVIOUS
  <2>1. m + 1 \in 1..n /\ (m + 1) - 1 = m /\ m \in 0..n
    OBVIOUS
  <2>2. f[m] \in B /\ f[m + 1] \in B /\ f[m + 1] = F[f[m], m + 1]
    <3>1. m + 1 \in 0..n
      OBVIOUS
    <3>. QED
      BY <1>1, <2>1, <3>1
  <2>3. BestTo(w, R, base, f, m)
    BY <1>3, <2>1
  <2>4. /\ f[m + 1] = f[m] \/ f[m + 1] = w[m + 1]
        /\ <<f[m + 1], f[m]>> \in R /\ <<f[m + 1], w[m + 1]>> \in R
    BY <2>1, <2>2 DEF Prefers
  <2>5. <<f[m + 1], base>> \in R
    BY <2>2, <2>3, <2>4 DEF Prefers, BestTo
  <2>6. ASSUME NEW k \in 1..m + 1 PROVE <<f[m + 1], w[k]>> \in R
    <3>1. CASE k = m + 1
      BY <2>4, <3>1
    <3>2. CASE k # m + 1
      <4>1. k \in 1..m /\ k \in 1..n
        BY <3>2
      <4>2. w[k] \in B
        BY <4>1 DEF Prefers
      <4>3. <<f[m], w[k]>> \in R
        BY <2>3, <4>1 DEF BestTo
      <4>. QED
        BY <2>2, <2>4, <4>2, <4>3 DEF Prefers
    <3>. QED
      BY <3>1, <3>2
  <2>7. f[m + 1] # base => \E k \in 1..m + 1 : f[m + 1] = w[k]
    <3>1. m + 1 \in 1..m + 1 /\ \A k \in 1..m : k \in 1..m + 1
      OBVIOUS
    <3>. QED
      BY <2>3, <2>4, <3>1 DEF BestTo
  <2>. QED
    BY <2>5, <2>6, <2>7 DEF BestTo
<1>4. n \in S
  <2>. HIDE DEF S
  <2>. QED
    BY <1>2, <1>3, SetInduction
<1>5. f[n] \in B
  <2>1. n \in 0..n
    OBVIOUS
  <2>. QED
    BY <1>1, <2>1
<1>6. BestTo(w, R, base, f, n)
  BY <1>4
<1>. QED
  BY <1>5, <1>6

\* A sequence of numbers has a greatest.
LEMMA MaxOfRange ==
    ASSUME NEW n \in Nat \ {0}, NEW w \in [1..n -> Int], NEW V, V = {w[k] : k \in 1..n}
    PROVE  Max(V) \in V /\ \A v \in V : v <= Max(V)
<1>. DEFINE F == [p \in Int \X (1..n) |-> IF p[1] >= w[p[2]] THEN p[1] ELSE w[p[2]]]
            R == {p \in Int \X Int : p[1] >= p[2]}
<1>1. F \in [Int \X (1..n) -> Int]
  OBVIOUS
<1>2. \A b \in Int, k \in 1..n : F[b, k] = IF b >= w[k] THEN b ELSE w[k]
  OBVIOUS
<1>3. \A a, b \in Int : <<a, b>> \in R <=> a >= b
  OBVIOUS
<1>4. w[1] \in Int /\ n \in Nat /\ 1 \in 1..n
  OBVIOUS
<1>. HIDE DEF F, R
<1>5. Prefers(Int, n, w, F, R)
  <2>1. ASSUME NEW b \in Int, NEW k \in 1..n
        PROVE  F[b, k] \in {b, w[k]} /\ <<F[b, k], b>> \in R /\ <<F[b, k], w[k]>> \in R
    <3>1. w[k] \in Int /\ F[b, k] = IF b >= w[k] THEN b ELSE w[k]
      BY <1>2
    <3>2. PICK x, y : x = F[b, k] /\ y = w[k]
      OBVIOUS
    <3>3. y \in Int /\ x = IF b >= y THEN b ELSE y
      BY <3>1, <3>2
    <3>4. x \in {b, y} /\ x >= b /\ x >= y /\ x \in Int
      BY <3>3
    <3>. QED
      BY <1>3, <3>2, <3>3, <3>4
  <2>2. \A b \in Int : <<b, b>> \in R
    BY <1>3
  <2>3. \A a, b, c \in Int : <<a, b>> \in R /\ <<b, c>> \in R => <<a, c>> \in R
    BY <1>3
  <2>. QED
    BY <2>1, <2>2, <2>3 DEF Prefers
<1>6. PICK g : Folds(Int, n, w[1], F, g)
  BY <1>1, <1>4, FoldExists
<1>7. Iterates(Int, n, w[1], F, g)
  <2>1. {} \in SUBSET (1..n)
    OBVIOUS
  <2>. QED
    BY <1>6, <2>1 DEF Folds, Iterates
<1>8. PICK f : FoldSteps(Int, n, w[1], F, f)
  BY <1>1, <1>4, <1>7, FoldRuns DEF FoldsTo
<1>9. /\ f[n] \in Int /\ \A k \in 1..n : <<f[n], w[k]>> \in R
      /\ f[n] # w[1] => \E k \in 1..n : f[n] = w[k]
  <2>1. PICK base \in Int : base = w[1]
    BY <1>4
  <2>2. FoldSteps(Int, n, base, F, f)
    BY <1>8, <2>1
  <2>3. f[n] \in Int /\ BestTo(w, R, base, f, n)
    BY <1>4, <1>5, <2>2, BestOfFold
  <2>. QED
    BY <2>1, <2>3 DEF BestTo
<1>10. f[n] \in V /\ \A v \in V : f[n] >= v
  BY <1>3, <1>4, <1>9
<1>11. Max(V) \in V /\ \A v \in V : Max(V) >= v
  BY <1>10 DEF Max
<1>12. \A v \in V : v \in Int
  OBVIOUS
<1>. QED
  BY <1>11, <1>12

-----------------------------------------------------------------------------
(***************************************************************************)
(* Sums.                                                                   *)
(***************************************************************************)
\* The function that a FoldLeft chooses when it adds up shares[1], ..., shares[n].
IsSum(n, shares, iter) ==
    iter = [s \in SUBSET (1..n) |->
              IF s = {} THEN 0 ELSE iter[s \ {Max(s)}] + shares[Max(s)]]

\* sum[k] is the sum of the first k.
Sums(n, shares, sum) ==
    /\ sum \in [0..n -> Int]
    /\ sum[0] = 0
    /\ \A k \in 1..n : sum[k] = sum[k - 1] + shares[k]

LEMMA SumExists ==
    ASSUME NEW n \in Nat, NEW shares \in [1..n -> Int]
    PROVE  \E g : IsSum(n, shares, g)
<1>. DEFINE F == [p \in Int \X (1..n) |-> p[1] + shares[p[2]]]
<1>1. F \in [Int \X (1..n) -> Int]
  OBVIOUS
<1>2. \A b \in Int, k \in 1..n : F[b, k] = b + shares[k]
  OBVIOUS
<1>. HIDE DEF F
<1>3. 0 \in Int
  OBVIOUS
<1>4. PICK g : Folds(Int, n, 0, F, g)
  BY <1>1, <1>3, FoldExists
<1>5. ASSUME NEW s \in SUBSET (1..n), s # {}
      PROVE  Max(s) \in 1..n /\ s \ {Max(s)} \in SUBSET (1..n)
  BY <1>5, MaxOfNumbers
<1>6. IsSum(n, shares, g)
  <2>1. g = [s \in SUBSET (1..n) |-> g[s]] /\ \A s \in SUBSET (1..n) : g[s] \in Int
    BY <1>4 DEF Folds
  <2>2. ASSUME NEW s \in SUBSET (1..n)
        PROVE  g[s] = IF s = {} THEN 0 ELSE g[s \ {Max(s)}] + shares[Max(s)]
    BY <1>2, <1>4, <1>5, <2>1 DEF Folds
  <2>. QED
    BY <2>1, <2>2 DEF IsSum
<1>. QED
  BY <1>6

LEMMA SumSteps ==
    ASSUME NEW n \in Nat, NEW shares \in [1..n -> Int], NEW iter,
           (\E g : IsSum(n, shares, g)) => IsSum(n, shares, iter)
    PROVE  \E sum : Sums(n, shares, sum) /\ sum[n] = iter[1..n]
<1>. DEFINE F == [p \in Int \X (1..n) |-> p[1] + shares[p[2]]]
<1>1. F \in [Int \X (1..n) -> Int]
  OBVIOUS
<1>2. \A b \in Int, k \in 1..n : F[b, k] = b + shares[k]
  OBVIOUS
<1>. HIDE DEF F
<1>3. 0 \in Int
  OBVIOUS
<1>5. ASSUME NEW s \in SUBSET (1..n), s # {}
      PROVE  Max(s) \in 1..n /\ s \ {Max(s)} \in SUBSET (1..n)
  BY <1>5, MaxOfNumbers
<1>6. IsSum(n, shares, iter)
  BY SumExists
<1>7. \A s \in SUBSET (1..n) :
          iter[s] = IF s = {} THEN 0 ELSE iter[s \ {Max(s)}] + shares[Max(s)]
  BY <1>6 DEF IsSum
<1>8. Iterates(Int, n, 0, F, iter)
  <2>1. {} \in SUBSET (1..n)
    OBVIOUS
  <2>. QED
    BY <1>2, <1>5, <1>7, <2>1 DEF Iterates
<1>9. PICK sum : sum = [k \in 0..n |-> iter[1..k]]
  OBVIOUS
<1>10. FoldSteps(Int, n, 0, F, sum)
  BY <1>1, <1>3, <1>8, <1>9, FoldOfPrefixes
<1>11. Sums(n, shares, sum)
  <2>1. \A k \in 1..n : k - 1 \in 0..n
    OBVIOUS
  <2>. QED
    BY <1>2, <1>10, <2>1 DEF FoldSteps, Sums
<1>12. sum[n] = iter[1..n]
  BY <1>9
<1>. QED
  BY <1>11, <1>12

LEMMA SumsExist ==
    ASSUME NEW n \in Nat, NEW shares \in [1..n -> Int]
    PROVE  \E sum : Sums(n, shares, sum)
<1>1. PICK g : IsSum(n, shares, g)
  BY SumExists
<1>. QED
  BY <1>1, SumSteps

\* Sums of shares that are not negative do not fall.
LEMMA SumsGrow ==
    ASSUME NEW n \in Nat, NEW shares \in [1..n -> Nat], NEW sum, Sums(n, shares, sum),
           NEW i \in 0..n, NEW j \in 0..n, i <= j
    PROVE  sum[i] <= sum[j]
<1>1. sum \in [0..n -> Int]
  BY DEF Sums
<1>. DEFINE S == {k \in Nat : i <= k /\ k <= n => sum[i] <= sum[k]}
<1>2. 0 \in S
  BY <1>1
<1>3. ASSUME NEW k \in Nat, k \in S PROVE k + 1 \in S
  <2>. SUFFICES ASSUME i <= k + 1, k + 1 <= n PROVE sum[i] <= sum[k + 1]
    OBVIOUS
  <2>1. k + 1 \in 1..n /\ (k + 1) - 1 = k /\ k \in 0..n /\ (i <= k \/ i = k + 1)
    OBVIOUS
  <2>2. sum[k + 1] = sum[k] + shares[k + 1] /\ shares[k + 1] \in Nat
    BY <2>1 DEF Sums
  <2>3. sum[i] \in Int /\ sum[k] \in Int
    BY <1>1, <2>1
  <2>. QED
    BY <1>3, <2>1, <2>2, <2>3
<1>4. j \in S
  <2>1. j \in Nat
    OBVIOUS
  <2>. HIDE DEF S
  <2>. QED
    BY <2>1, <1>2, <1>3, SetInduction
<1>. QED
  BY <1>4

\* A sum of shares none of which is smaller, and one of which is greater, is greater.
LEMMA SumsCompare ==
    ASSUME NEW n \in Nat, NEW u \in [1..n -> Int], NEW v \in [1..n -> Int],
           NEW f, NEW g, Sums(n, u, f), Sums(n, v, g),
           \A k \in 1..n : u[k] >= v[k]
    PROVE  f[n] >= g[n] /\ \A j \in 1..n : u[j] > v[j] => f[n] > g[n]
<1>1. f \in [0..n -> Int] /\ g \in [0..n -> Int] /\ f[0] = 0 /\ g[0] = 0
  BY DEF Sums
<1>2. \A k \in 1..n : /\ k - 1 \in 0..n /\ u[k] \in Int /\ v[k] \in Int
                      /\ f[k] = f[k - 1] + u[k] /\ g[k] = g[k - 1] + v[k]
  BY DEF Sums
<1>. DEFINE S == {k \in Nat : k <= n => f[k] >= g[k]}
<1>3. Nat \subseteq S
  <2>1. 0 \in S
    BY <1>1
  <2>2. ASSUME NEW k \in Nat, k \in S PROVE k + 1 \in S
    <3>1. CASE k + 1 <= n
      <4>1. k + 1 \in 1..n /\ (k + 1) - 1 = k /\ k \in 0..n
        BY <3>1
      <4>2. f[k] \in Int /\ g[k] \in Int /\ f[k] >= g[k]
        BY <1>1, <2>2, <4>1
      <4>3. f[k + 1] = f[k] + u[k + 1] /\ g[k + 1] = g[k] + v[k + 1]
        BY <1>2, <4>1
      <4>4. u[k + 1] \in Int /\ v[k + 1] \in Int /\ u[k + 1] >= v[k + 1]
        BY <1>2, <4>1
      <4>. QED
        BY <4>2, <4>3, <4>4
    <3>. QED
      BY <3>1
  <2>. HIDE DEF S
  <2>. QED
    BY <2>1, <2>2, SetInduction
<1>4. ASSUME NEW j \in 1..n, u[j] > v[j] PROVE f[n] > g[n]
  <2>. DEFINE T == {k \in Nat : j <= k /\ k <= n => f[k] > g[k]}
  <2>2. 0 \in T
    OBVIOUS
  <2>3. ASSUME NEW k \in Nat, k \in T PROVE k + 1 \in T
    <3>. SUFFICES ASSUME j <= k + 1, k + 1 <= n PROVE f[k + 1] > g[k + 1]
      OBVIOUS
    <3>1. k + 1 \in 1..n /\ (k + 1) - 1 = k /\ k \in 0..n
      OBVIOUS
    <3>2. f[k] \in Int /\ g[k] \in Int
      BY <1>1, <3>1
    <3>3. /\ f[k + 1] = f[k] + u[k + 1] /\ g[k + 1] = g[k] + v[k + 1]
          /\ u[k + 1] \in Int /\ v[k + 1] \in Int /\ u[k + 1] >= v[k + 1]
      BY <1>2, <3>1
    <3>4. CASE j = k + 1
      <4>1. f[k] >= g[k] /\ u[k + 1] > v[k + 1]
        BY <1>3, <1>4, <3>1, <3>4
      <4>. QED
        BY <3>2, <3>3, <4>1
    <3>5. CASE j <= k
      <4>1. f[k] > g[k]
        BY <2>3, <3>1, <3>5
      <4>. QED
        BY <3>2, <3>3, <4>1
    <3>. QED
      BY <3>4, <3>5
  <2>4. n \in T
    <3>. HIDE DEF T
    <3>. QED
      BY <2>2, <2>3, SetInduction
  <2>. QED
    BY <2>4
<1>. QED
  BY <1>3, <1>4

\* Whichever share is taken off a sum first, the rest is the sum of the others.
Splits(shares, g, s) == g[s] \in Int /\ \A x \in s : g[s] = g[s \ {x}] + shares[x]

LEMMA SumSplits ==
    ASSUME NEW n \in Nat, NEW shares \in [1..n -> Int], NEW g, IsSum(n, shares, g)
    PROVE  \A s \in SUBSET (1..n) : Splits(shares, g, s)
<1>0. \A s \in SUBSET (1..n) : g[s] = IF s = {} THEN 0 ELSE g[s \ {Max(s)}] + shares[Max(s)]
  BY DEF IsSum
<1>4. g[{}] = 0
  <2>1. {} \in SUBSET (1..n)
    OBVIOUS
  <2>. QED
    BY <1>0, <2>1
<1>. DEFINE S == {k \in Nat : k <= n => \A s \in SUBSET (1..k) : Splits(shares, g, s)}
<1>1. 0 \in S
  <2>1. \A s \in SUBSET (1..0) : s = {}
    OBVIOUS
  <2>2. Splits(shares, g, {})
    BY <1>4 DEF Splits
  <2>. QED
    BY <2>1, <2>2
<1>2. ASSUME NEW k \in Nat, k \in S PROVE k + 1 \in S
  <2>. SUFFICES ASSUME k + 1 <= n, NEW s \in SUBSET (1..k + 1) PROVE Splits(shares, g, s)
    OBVIOUS
  <2>0. \A r \in SUBSET (1..k) : Splits(shares, g, r)
    BY <1>2
  <2>1. CASE s = {}
    BY <1>4, <2>1 DEF Splits
  <2>2. CASE s # {}
    <3>. DEFINE m == Max(s)
    <3>1. m \in s /\ \A i \in s : i <= m
      BY <2>2, MaxOfNumbers, k + 1 \in Nat
    <3>2. \A i \in s : i \in Nat /\ i <= k + 1 /\ i \in 1..n /\ i \in 1..k + 1
      OBVIOUS
    <3>3. s \ {m} \in SUBSET (1..k) /\ s \in SUBSET (1..n)
      <4>1. ASSUME NEW i \in s \ {m} PROVE i \in 1..k
        <5>1. i <= m /\ i # m /\ m \in Nat /\ m <= k + 1 /\ i \in 1..k + 1
          BY <3>1, <3>2
        <5>. HIDE DEF m
        <5>. QED
          BY <5>1
      <4>. QED
        BY <3>2, <4>1
    <3>4. g[s] = g[s \ {m}] + shares[m] /\ shares[m] \in Int
      BY <1>0, <2>2, <3>1, <3>2, <3>3
    <3>5. Splits(shares, g, s \ {m})
      BY <2>0, <3>3
    <3>6. ASSUME NEW x \in s, x # m PROVE g[s] = g[s \ {x}] + shares[x]
      <4>1. g[s \ {m}] = g[(s \ {m}) \ {x}] + shares[x] /\ shares[x] \in Int
        BY <3>2, <3>5, <3>6 DEF Splits
      <4>2. Max(s \ {x}) = m
        <5>1. s \ {x} \in SUBSET (1..k + 1) /\ s \ {x} # {} /\ m \in s \ {x}
          BY <3>1, <3>6
        <5>2. Max(s \ {x}) \in s \ {x} /\ m <= Max(s \ {x})
          BY <5>1, MaxOfNumbers, k + 1 \in Nat
        <5>3. Max(s \ {x}) \in Nat /\ m \in Nat /\ Max(s \ {x}) <= m
          BY <3>1, <3>2, <5>2
        <5>. QED
          BY <5>2, <5>3
      <4>3. g[s \ {x}] = g[(s \ {x}) \ {m}] + shares[m]
        <5>1. s \ {x} \in SUBSET (1..n) /\ s \ {x} # {}
          BY <3>1, <3>3, <3>6
        <5>. HIDE DEF m
        <5>. QED
          BY <1>0, <4>2, <5>1
      <4>4. (s \ {x}) \ {m} = (s \ {m}) \ {x} /\ (s \ {m}) \ {x} \in SUBSET (1..k)
        BY <3>3
      <4>5. g[(s \ {m}) \ {x}] \in Int
        BY <2>0, <4>4 DEF Splits
      <4>6. g[s \ {x}] = g[(s \ {m}) \ {x}] + shares[m]
        BY <4>3, <4>4
      <4>. HIDE DEF m
      <4>. QED
        BY <3>4, <4>1, <4>5, <4>6
    <3>7. g[s] \in Int
      BY <3>4, <3>5 DEF Splits
    <3>. QED
      BY <3>4, <3>6, <3>7 DEF Splits
  <2>. QED
    BY <2>1, <2>2
<1>3. n \in S
  <2>. HIDE DEF S
  <2>. QED
    BY <1>1, <1>2, SetInduction
<1>. QED
  BY <1>3

\* A sum that takes the shares in the order of pick.
IsSumBy(n, shares, pick, iter) ==
    iter = [s \in SUBSET (1..n) |->
              IF s = {} THEN 0 ELSE shares[pick[s]] + iter[s \ {pick[s]}]]

Picks(n, pick) == \A s \in SUBSET (1..n) : s # {} => pick[s] \in s

\* iter is such a sum, as CHOOSE makes it, if there is one.
ChosenSumBy(n, shares, pick, iter) ==
    (\E g : IsSumBy(n, shares, pick, g)) => IsSumBy(n, shares, pick, iter)

LEMMA SumInAnyOrder ==
    ASSUME NEW n \in Nat, NEW shares \in [1..n -> Int], NEW pick, Picks(n, pick),
           NEW iter, ChosenSumBy(n, shares, pick, iter)
    PROVE  \E sum : Sums(n, shares, sum) /\ sum[n] = iter[1..n]
<1>1. PICK g : IsSum(n, shares, g)
  BY SumExists
<1>2. \A s \in SUBSET (1..n) : g[s] \in Int /\ \A x \in s : g[s] = g[s \ {x}] + shares[x]
  <2>1. \A s \in SUBSET (1..n) : Splits(shares, g, s)
    BY <1>1, SumSplits
  <2>. QED
    BY <2>1 DEF Splits
<1>3. \A s \in SUBSET (1..n) : \A x \in s : /\ x \in 1..n /\ shares[x] \in Int
                                            /\ s \ {x} \in SUBSET (1..n)
  OBVIOUS
<1>4. g[{}] = 0 /\ {} \in SUBSET (1..n)
  BY <1>1 DEF IsSum
<1>5. IsSumBy(n, shares, pick, g)
  <2>1. ASSUME NEW s \in SUBSET (1..n)
        PROVE  g[s] = IF s = {} THEN 0 ELSE shares[pick[s]] + g[s \ {pick[s]}]
    <3>1. CASE s # {}
      <4>1. pick[s] \in s
        BY <3>1 DEF Picks
      <4>2. g[s] = g[s \ {pick[s]}] + shares[pick[s]] /\ g[s \ {pick[s]}] \in Int
        BY <1>2, <1>3, <4>1
      <4>3. shares[pick[s]] \in Int
        BY <1>3, <4>1
      <4>4. PICK x, y : x = shares[pick[s]] /\ y = g[s \ {pick[s]}]
        OBVIOUS
      <4>5. x \in Int /\ y \in Int /\ g[s] = y + x
        BY <4>2, <4>3, <4>4
      <4>6. g[s] = x + y
        BY <4>5
      <4>. QED
        BY <3>1, <4>4, <4>6
    <3>. QED
      BY <1>4, <3>1
  <2>2. g = [s \in SUBSET (1..n) |-> g[s]]
    BY <1>1 DEF IsSum
  <2>. QED
    BY <2>1, <2>2 DEF IsSumBy
<1>6. \A s \in SUBSET (1..n) : iter[s] = IF s = {} THEN 0 ELSE shares[pick[s]] + iter[s \ {pick[s]}]
  BY <1>5 DEF ChosenSumBy, IsSumBy
<1>. DEFINE S == {k \in Nat : \A s \in SUBSET (1..n) : Cardinality(s) = k => iter[s] = g[s]}
<1>7. ASSUME NEW s \in SUBSET (1..n) PROVE IsFiniteSet(s) /\ Cardinality(s) \in Nat
  <2>1. IsFiniteSet(1..n)
    BY FS_Interval, n \in Int, 1 \in Int
  <2>. QED
    BY <2>1, FS_Subset, FS_CardinalityType
<1>8. 0 \in S
  <2>1. ASSUME NEW s \in SUBSET (1..n), Cardinality(s) = 0 PROVE iter[s] = g[s]
    <3>1. s = {}
      BY <1>7, <2>1, FS_EmptySet
    <3>. QED
      BY <1>4, <1>6, <3>1
  <2>. QED
    BY <2>1
<1>9. ASSUME NEW k \in Nat, k \in S PROVE k + 1 \in S
  <2>1. ASSUME NEW s \in SUBSET (1..n), Cardinality(s) = k + 1 PROVE iter[s] = g[s]
    <3>1. s # {}
      BY <2>1, FS_EmptySet
    <3>2. pick[s] \in s
      BY <3>1 DEF Picks
    <3>3. s \ {pick[s]} \in SUBSET (1..n) /\ Cardinality(s \ {pick[s]}) = k
      <4>1. Cardinality(s \ {pick[s]}) = Cardinality(s) - 1
        BY <1>7, <3>2, FS_RemoveElement
      <4>2. s \ {pick[s]} \in SUBSET (1..n)
        OBVIOUS
      <4>3. (k + 1) - 1 = k
        OBVIOUS
      <4>. QED
        BY <2>1, <4>1, <4>2, <4>3
    <3>4. iter[s \ {pick[s]}] = g[s \ {pick[s]}]
      BY <1>9, <3>3
    <3>5. g[s] = g[s \ {pick[s]}] + shares[pick[s]] /\ g[s \ {pick[s]}] \in Int
      BY <1>2, <1>3, <3>2
    <3>6. shares[pick[s]] \in Int
      BY <1>3, <3>2
    <3>7. iter[s] = shares[pick[s]] + iter[s \ {pick[s]}]
      BY <1>6, <3>1
    <3>. QED
      BY <3>4, <3>5, <3>6, <3>7
  <2>2. k + 1 \in Nat
    OBVIOUS
  <2>. QED
    BY <2>1, <2>2
<1>10. iter[1..n] = g[1..n]
  <2>1. 1..n \in SUBSET (1..n)
    OBVIOUS
  <2>2. Cardinality(1..n) \in Nat
    BY <1>7, <2>1
  <2>3. Nat \subseteq S
    <3>. HIDE DEF S
    <3>. QED
      BY <1>8, <1>9, SetInduction
  <2>. QED
    BY <2>1, <2>2, <2>3
<1>11. \E sum : Sums(n, shares, sum) /\ sum[n] = g[1..n]
  BY <1>1, SumSteps
<1>. QED
  BY <1>10, <1>11

\* Two sums of the same shares are the same.
LEMMA SumIsUnique ==
    ASSUME NEW n \in Nat, NEW u \in [1..n -> Int], NEW f, NEW g, Sums(n, u, f), Sums(n, u, g)
    PROVE  f[n] = g[n] /\ f[n] \in Int
<1>1. \A k \in 1..n : u[k] >= u[k]
  OBVIOUS
<1>2. f[n] >= g[n] /\ g[n] >= f[n]
  BY <1>1, SumsCompare
<1>3. f[n] \in Int /\ g[n] \in Int
  BY DEF Sums
<1>. QED
  BY <1>2, <1>3

-----------------------------------------------------------------------------
(***************************************************************************)
(* Sequences whose elements are in a relation, each to those behind it.     *)
(***************************************************************************)
\* Whatever comes before another element is in relation R to it.
Ranked(s, R) == \A j, k \in 1..Len(s) : j < k => <<s[j], s[k]>> \in R

\* Whatever is in A is in relation R to whatever is in B.
AllBefore(A, B, R) == \A x \in A, y \in B : <<x, y>> \in R

\* A Ranked sequence before another.
LEMMA ConcatRanked ==
    ASSUME NEW S, NEW s \in Seq(S), NEW t \in Seq(S), NEW R, Ranked(s, R), Ranked(t, R),
           AllBefore(ToSet(s), ToSet(t), R)
    PROVE  s \o t \in Seq(S) /\ Ranked(s \o t, R) /\ ToSet(s \o t) = ToSet(s) \cup ToSet(t)
<1>. DEFINE m == Len(s)
            n == Len(t)
            u == s \o t
<1>1. /\ m \in Nat /\ n \in Nat /\ u \in Seq(S) /\ Len(u) = m + n
      /\ DOMAIN s = 1..m /\ DOMAIN t = 1..n /\ DOMAIN u = 1..m + n
      /\ \A i \in 1..m + n : u[i] = IF i <= m THEN s[i] ELSE t[i - m]
  BY ConcatProperties
<1>. HIDE DEF m, n, u
<1>2. \A i \in 1..m : i \in 1..m + n /\ u[i] = s[i]
  BY <1>1
<1>3. \A i \in 1..n : m + i \in 1..m + n /\ u[m + i] = t[i]
  <2>1. ASSUME NEW i \in 1..n PROVE m + i \in 1..m + n /\ ~(m + i <= m) /\ (m + i) - m = i
    BY <1>1
  <2>. QED
    BY <1>1, <2>1
<1>4. \A i \in 1..m + n : i \in 1..m \/ (i - m \in 1..n /\ i = m + (i - m) /\ i > m)
  BY <1>1
<1>5. ToSet(u) = ToSet(s) \cup ToSet(t)
  <2>1. ASSUME NEW x \in ToSet(u) PROVE x \in ToSet(s) \cup ToSet(t)
    <3>1. PICK i \in 1..m + n : x = u[i]
      BY <1>1 DEF ToSet
    <3>2. i \in 1..m => x = s[i]
      BY <1>2, <3>1
    <3>3. i - m \in 1..n /\ i = m + (i - m) => x = t[i - m]
      BY <1>3, <3>1
    <3>. QED
      BY <1>1, <1>4, <3>2, <3>3 DEF ToSet
  <2>2. ASSUME NEW x \in ToSet(s) PROVE x \in ToSet(u)
    BY <1>1, <1>2 DEF ToSet
  <2>3. ASSUME NEW x \in ToSet(t) PROVE x \in ToSet(u)
    <3>1. PICK i \in 1..n : x = t[i]
      BY <1>1 DEF ToSet
    <3>2. m + i \in DOMAIN u /\ u[m + i] = x
      BY <1>1, <1>3, <3>1
    <3>. QED
      BY <3>2 DEF ToSet
  <2>. QED
    BY <2>1, <2>2, <2>3
<1>6. ASSUME NEW j \in 1..m + n, NEW k \in 1..m + n, j < k PROVE <<u[j], u[k]>> \in R
  <2>1. CASE j \in 1..m /\ k \in 1..m
    BY <1>2, <1>6, <2>1 DEF Ranked, m
  <2>2. CASE j \in 1..m /\ k - m \in 1..n /\ k = m + (k - m)
    <3>1. u[j] \in ToSet(s) /\ u[k] \in ToSet(t)
      BY <1>1, <1>2, <1>3, <2>2 DEF ToSet
    <3>. QED
      BY <3>1 DEF AllBefore
  <2>3. CASE j - m \in 1..n /\ j = m + (j - m) /\ k - m \in 1..n /\ k = m + (k - m)
    <3>1. u[j] = t[j - m] /\ u[k] = t[k - m]
      BY <1>3, <2>3
    <3>2. j - m < k - m
      BY <1>1, <1>6
    <3>. QED
      BY <2>3, <3>1, <3>2 DEF Ranked, n
  <2>. QED
    BY <1>1, <1>4, <1>6, <2>1, <2>2, <2>3
<1>. QED
  BY <1>1, <1>5, <1>6 DEF Ranked, u

\* All of s is in relation R to x, and so is what comes of s and x.
Precedes(s, x, R) == \A y \in ToSet(s) : <<y, x>> \in R

Extended(S, s, x, R, t) ==
    t \in Seq(S) /\ Ranked(t, R) /\ \A y : y \in ToSet(t) <=> y \in ToSet(s) \/ y = x

\* A Ranked sequence with one more element.
LEMMA AppendRanked ==
    ASSUME NEW S, NEW s \in Seq(S), NEW x \in S, NEW R, Ranked(s, R), Precedes(s, x, R)
    PROVE  Extended(S, s, x, R, Append(s, x))
<1>1. Append(s, x) = s \o <<x>>
  OBVIOUS
<1>2. <<x>> \in Seq(S) /\ ToSet(<<x>>) = {x}
  BY DEF ToSet
<1>3. Ranked(<<x>>, R)
  BY DEF Ranked
<1>4. PICK u \in Seq(S) : u = <<x>>
  BY <1>2
<1>5. Ranked(u, R) /\ ToSet(u) = {x} /\ AllBefore(ToSet(s), ToSet(u), R)
  BY <1>2, <1>3, <1>4 DEF Precedes, AllBefore
<1>6. s \o u \in Seq(S) /\ Ranked(s \o u, R) /\ ToSet(s \o u) = ToSet(s) \cup ToSet(u)
  BY <1>5, ConcatRanked
<1>. QED
  BY <1>1, <1>4, <1>5, <1>6 DEF Extended

\* The empty sequence.
LEMMA NoneRanked ==
    ASSUME NEW S, NEW R
    PROVE  <<>> \in Seq(S) /\ Ranked(<<>>, R) /\ ToSet(<<>>) = {}
BY DEF Ranked, ToSet

\* The sequences seqs[1], ..., seqs[i] one behind the other are f[i].
Flattens(S, n, seqs, f) ==
    /\ f \in [1..n -> Seq(S)]
    /\ \A i \in 1..n : f[i] = IF i = 1 THEN seqs[i] ELSE f[i - 1] \o seqs[i]

\* The sequences one behind the other, by induction.
LEMMA FlattenExists ==
    ASSUME NEW S, NEW n \in Nat, NEW seqs \in [1..n -> Seq(S)]
    PROVE  \E f : Flattens(S, n, seqs, f)
<1>. DEFINE T == {k \in Nat : k <= n => \E f : Flattens(S, k, seqs, f)}
<1>1. 0 \in T
  <2>1. [i \in 1..0 |-> <<>>] \in [1..0 -> Seq(S)]
    OBVIOUS
  <2>2. Flattens(S, 0, seqs, [i \in 1..0 |-> <<>>])
    BY <2>1 DEF Flattens
  <2>. QED
    BY <2>2
<1>2. ASSUME NEW k \in Nat, k \in T PROVE k + 1 \in T
  <2>1. ASSUME k + 1 <= n PROVE \E g : Flattens(S, k + 1, seqs, g)
    <3>1. PICK f : Flattens(S, k, seqs, f)
      BY <1>2, <2>1
    <3>2. seqs[k + 1] \in Seq(S)
      BY <2>1
    <3>3. k # 0 => f[k] \in Seq(S)
      BY <3>1 DEF Flattens
    <3>. DEFINE last == IF k = 0 THEN seqs[k + 1] ELSE f[k] \o seqs[k + 1]
                g == [i \in 1..k + 1 |-> IF i = k + 1 THEN last ELSE f[i]]
    <3>4. last \in Seq(S)
      BY <3>2, <3>3
    <3>5. \A i \in 1..k : f[i] \in Seq(S) /\ f[i] = IF i = 1 THEN seqs[i] ELSE f[i - 1] \o seqs[i]
      BY <3>1 DEF Flattens
    <3>6. \A i \in 1..k + 1 : i = k + 1 \/ i \in 1..k
      OBVIOUS
    <3>7. g \in [1..k + 1 -> Seq(S)]
      <4>. HIDE DEF last
      <4>. QED
        BY <3>4, <3>5, <3>6
    <3>8. ASSUME NEW i \in 1..k + 1 PROVE g[i] = IF i = 1 THEN seqs[i] ELSE g[i - 1] \o seqs[i]
      <4>1. CASE i = k + 1
        <5>1. k # 0 => k \in 1..k + 1 /\ k # k + 1
          OBVIOUS
        <5>2. g[i] = last /\ (k # 0 => g[k] = f[k]) /\ i - 1 = k /\ (i = 1 <=> k = 0)
          BY <4>1, <5>1
        <5>. QED
          BY <4>1, <5>2
      <4>2. CASE i \in 1..k
        <5>1. i # k + 1 /\ (i # 1 => i - 1 \in 1..k + 1 /\ i - 1 # k + 1)
          BY <4>2
        <5>2. g[i] = f[i] /\ (i # 1 => g[i - 1] = f[i - 1])
          BY <5>1
        <5>. HIDE DEF g
        <5>. QED
          BY <3>5, <4>2, <5>2
      <4>. QED
        BY <3>6, <4>1, <4>2
    <3>. QED
      <4>. HIDE DEF g
      <4>1. Flattens(S, k + 1, seqs, g)
        BY <3>7, <3>8 DEF Flattens
      <4>. QED
        BY <4>1
  <2>. QED
    BY <2>1
<1>3. n \in T
  <2>. HIDE DEF T
  <2>. QED
    BY <1>1, <1>2, SetInduction
<1>. QED
  BY <1>3

\* FlattenSeq is the last of them.
LEMMA FlattenSeqRuns ==
    ASSUME NEW S, NEW n \in Nat \ {0}, NEW seqs \in [1..n -> Seq(S)]
    PROVE  \E f : Flattens(S, n, seqs, f) /\ f[n] = FlattenSeq(seqs)
<1>. DEFINE IsFlat(f) == f = [i \in 1..Len(seqs) |-> IF i = 1 THEN seqs[i] ELSE f[i - 1] \o seqs[i]]
            flat == CHOOSE f : IsFlat(f)
<1>1. Len(seqs) = n /\ n # 0 /\ n \in 1..n
  OBVIOUS
<1>2. FlattenSeq(seqs) = flat[n]
  BY <1>1 DEF FlattenSeq
<1>3. PICK f : Flattens(S, n, seqs, f)
  BY FlattenExists
<1>4. IsFlat(f)
  BY <1>1, <1>3 DEF Flattens
<1>5. IsFlat(flat)
  <2>. HIDE DEF IsFlat
  <2>. QED
    BY <1>4
<1>. HIDE DEF flat
<1>6. DOMAIN flat = 1..n /\ \A i \in 1..n : flat[i] = IF i = 1 THEN seqs[i] ELSE flat[i - 1] \o seqs[i]
  BY <1>1, <1>5
<1>. HIDE DEF IsFlat
<1>. DEFINE T == {k \in Nat : k + 1 <= n => flat[k + 1] = f[k + 1]}
<1>7. 0 \in T
  BY <1>1, <1>3, <1>6 DEF Flattens
<1>8. ASSUME NEW k \in Nat, k \in T PROVE k + 1 \in T
  <2>1. ASSUME (k + 1) + 1 <= n PROVE flat[(k + 1) + 1] = f[(k + 1) + 1]
    <3>1. (k + 1) + 1 \in 1..n /\ (k + 1) + 1 # 1 /\ ((k + 1) + 1) - 1 = k + 1 /\ k + 1 <= n
      BY <2>1
    <3>2. flat[k + 1] = f[k + 1]
      BY <1>8, <3>1
    <3>3. flat[(k + 1) + 1] = flat[k + 1] \o seqs[(k + 1) + 1]
      BY <1>6, <3>1
    <3>4. f[(k + 1) + 1] = f[k + 1] \o seqs[(k + 1) + 1]
      BY <1>3, <3>1 DEF Flattens
    <3>. QED
      BY <3>2, <3>3, <3>4
  <2>. QED
    BY <2>1
<1>9. flat[n] = f[n]
  <2>1. n - 1 \in T
    <3>1. n - 1 \in Nat
      OBVIOUS
    <3>. HIDE DEF T
    <3>. QED
      BY <1>7, <1>8, <3>1, SetInduction
  <2>2. n - 1 \in Nat /\ (n - 1) + 1 = n /\ n <= n
    OBVIOUS
  <2>. QED
    BY <2>1, <2>2
<1>. QED
  BY <1>2, <1>3, <1>9

\* Each sequence is Ranked, and before those behind it.
RowOfRows(S, n, seqs, R) ==
    /\ seqs \in [1..n -> Seq(S)]
    /\ \A i \in 1..n : Ranked(seqs[i], R)
    /\ \A i, j \in 1..n : i < j => AllBefore(ToSet(seqs[i]), ToSet(seqs[j]), R)

\* FlattenSeq keeps order and elements.
LEMMA FlattenRanked ==
    ASSUME NEW S, NEW n \in Nat, NEW seqs, NEW R, RowOfRows(S, n, seqs, R)
    PROVE  /\ FlattenSeq(seqs) \in Seq(S) /\ Ranked(FlattenSeq(seqs), R)
           /\ \A x : x \in ToSet(FlattenSeq(seqs)) <=> \E i \in 1..n : x \in ToSet(seqs[i])
<1>1. CASE n = 0
  <2>1. seqs = <<>> /\ Len(seqs) = 0
    BY <1>1 DEF RowOfRows
  <2>2. FlattenSeq(seqs) = <<>>
    BY <2>1 DEF FlattenSeq
  <2>. QED
    BY <1>1, <2>2, NoneRanked
<1>2. CASE n # 0
  <2>. USE DEF RowOfRows
  <2>1. PICK f : Flattens(S, n, seqs, f) /\ f[n] = FlattenSeq(seqs)
    BY <1>2, FlattenSeqRuns
  <2>. DEFINE Good(k) == /\ f[k] \in Seq(S) /\ Ranked(f[k], R)
                         /\ \A x : x \in ToSet(f[k]) <=> \E i \in 1..k : x \in ToSet(seqs[i])
              T == {k \in Nat : k + 1 <= n => Good(k + 1)}
  <2>2. 0 \in T
    <3>1. 1 \in 1..n /\ f[1] = seqs[1]
      BY <1>2, <2>1 DEF Flattens
    <3>2. \A i : i \in 1..1 <=> i = 1
      OBVIOUS
    <3>. QED
      BY <3>1, <3>2
  <2>3. ASSUME NEW k \in Nat, k \in T PROVE k + 1 \in T
    <3>1. ASSUME (k + 1) + 1 <= n PROVE Good((k + 1) + 1)
      <4>1. (k + 1) + 1 \in 1..n /\ (k + 1) + 1 # 1 /\ ((k + 1) + 1) - 1 = k + 1 /\ k + 1 <= n
        BY <3>1
      <4>2. Good(k + 1)
        BY <2>3, <4>1
      <4>3. f[(k + 1) + 1] = f[k + 1] \o seqs[(k + 1) + 1]
        BY <2>1, <4>1 DEF Flattens
      <4>4. seqs[(k + 1) + 1] \in Seq(S) /\ Ranked(seqs[(k + 1) + 1], R)
        BY <4>1
      <4>5. AllBefore(ToSet(f[k + 1]), ToSet(seqs[(k + 1) + 1]), R)
        <5>1. ASSUME NEW x \in ToSet(f[k + 1]), NEW y \in ToSet(seqs[(k + 1) + 1]) PROVE <<x, y>> \in R
          <6>1. PICK i \in 1..k + 1 : x \in ToSet(seqs[i])
            BY <4>2
          <6>2. i \in 1..n /\ i < (k + 1) + 1
            BY <4>1
          <6>. QED
            BY <4>1, <6>1, <6>2 DEF AllBefore
        <5>. QED
          BY <5>1 DEF AllBefore
      <4>6. PICK s \in Seq(S), u \in Seq(S) : s = f[k + 1] /\ u = seqs[(k + 1) + 1]
        BY <4>2, <4>4
      <4>7. Ranked(s, R) /\ Ranked(u, R) /\ AllBefore(ToSet(s), ToSet(u), R)
        BY <4>2, <4>4, <4>5, <4>6
      <4>8. s \o u \in Seq(S) /\ Ranked(s \o u, R) /\ ToSet(s \o u) = ToSet(s) \cup ToSet(u)
        BY <4>7, ConcatRanked
      <4>9. \A i : i \in 1..(k + 1) + 1 <=> i \in 1..k + 1 \/ i = (k + 1) + 1
        OBVIOUS
      <4>10. f[(k + 1) + 1] = s \o u
        BY <4>3, <4>6
      <4>11. ASSUME NEW x
             PROVE  x \in ToSet(f[(k + 1) + 1]) <=> \E i \in 1..(k + 1) + 1 : x \in ToSet(seqs[i])
        <5>1. x \in ToSet(f[(k + 1) + 1]) <=> x \in ToSet(s) \/ x \in ToSet(u)
          BY <4>8, <4>10
        <5>2. x \in ToSet(s) <=> \E i \in 1..k + 1 : x \in ToSet(seqs[i])
          BY <4>2, <4>6
        <5>. QED
          BY <4>6, <4>9, <5>1, <5>2
      <4>. QED
        BY <4>8, <4>10, <4>11
    <3>. HIDE DEF Good
    <3>. QED
      BY <3>1
  <2>4. Good(n)
    <3>1. n - 1 \in Nat /\ (n - 1) + 1 = n /\ n <= n
      BY <1>2
    <3>2. n - 1 \in T
      <4>. HIDE DEF T
      <4>. QED
        BY <2>2, <2>3, <3>1, SetInduction
    <3>. HIDE DEF Good
    <3>. QED
      BY <3>1, <3>2
  <2>. QED
    BY <2>1, <2>4
<1>. QED
  BY <1>1, <1>2
=============================================================================
