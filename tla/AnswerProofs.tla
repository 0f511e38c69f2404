---------------------------- MODULE AnswerProofs ----------------------------
(***************************************************************************)
(* What a request is answered with.  RagQuery: what the answer may cite, for *)
(* any chunks of any tenants, any TopK, any number of variants and any        *)
(* changes of the store.  Reasoning: which path and which vote it returns,    *)
(* for any scores, depths, answers and number of goroutines.  Both choose by   *)
(* folds over what they were given.                                        *)
(***************************************************************************)
EXTENDS RagQuery, Reasoning, FoldFacts, SequenceTheorems, FiniteSetTheorems

-----------------------------------------------------------------------------
(***************************************************************************)
(* RagQuery: the inductive invariant.                                      *)
(***************************************************************************)
\* What a search, a fusion or a reranking gives: chunks of the tenant, each once.
Rankings == {list \in Seq(Own) : IsInjective(list) /\ Len(list) <= TopK}

TypeOK ==
    /\ life \in [Chunks -> {"planned", "stored", "deleted"}]
    /\ lists \in Seq(Rankings)
    /\ results \in Rankings

\* No chunk that was found is one still to come.
Known(list) == \A c \in ToSet(list) : life[c] # "planned"
AllKnown == Known(results) /\ \A i \in 1..Len(lists) : Known(lists[i])

\* Before the variants are searched for there are no result sets, and a search that
\* is not for a variant adds none.
Unfused == pc \in {"route", "hyde", "decompose", "rewrite", "search"} => lists = <<>>

\* A search gave rows, all it had or those before it broke.
SomeSearch == "whole" \in searched \/ "broken" \in searched

\* Result sets come from searches that gave rows; only a rewriting goes on without.
Searched ==
    /\ lists # <<>> => SomeSearch
    /\ pc \in {"rewrite", "rewritings"} => rewrite
    /\ pc \in {"rerank", "generate", "answered"} /\ ~SomeSearch => rewrite

IInv == TypeOK /\ AllKnown /\ Unfused /\ Searched /\ ConsensusKept

-----------------------------------------------------------------------------
(***************************************************************************)
(* Rankings.                                                               *)
(***************************************************************************)
LEMMA RankingOfSet ==
    ASSUME NEW S, IsFiniteSet(S), NEW s \in SetToSeqs(S)
    PROVE  /\ s \in Seq(S) /\ IsInjective(s)
           /\ Len(s) = Cardinality(S) /\ ToSet(s) = S
<1>. DEFINE n == Cardinality(S)
<1>1. n \in Nat
  BY FS_CardinalityType
<1>2. s \in [1..n -> S] /\ \A i, j \in 1..n : i # j => s[i] # s[j]
  BY DEF SetToSeqs
<1>3. s \in Seq(S) /\ Len(s) = n /\ DOMAIN s = 1..n
  BY <1>1, <1>2
<1>4. s \in Injection(1..n, S) /\ IsInjective(s)
  BY <1>2, <1>3 DEF Injection, IsInjective
<1>5. Cardinality(1..n) = n
  BY <1>1, FS_Interval
<1>6. s \in Surjection(1..n, S)
  BY <1>4, <1>5, FS_Injection
<1>7. \A x \in S : \E i \in 1..n : s[i] = x
  BY <1>6 DEF Surjection
<1>. HIDE DEF n
<1>8. ToSet(s) = S
  BY <1>2, <1>3, <1>7 DEF ToSet
<1>. QED
  BY <1>3, <1>4, <1>8 DEF n

LEMMA ElementsOfRanking ==
    ASSUME NEW S, NEW s \in Seq(S)
    PROVE  ToSet(s) \subseteq S /\ IsFiniteSet(ToSet(s)) /\ Cardinality(ToSet(s)) <= Len(s)
<1>. DEFINE n == Len(s)
<1>1. n \in Nat /\ s \in [1..n -> S] /\ DOMAIN s = 1..n
  OBVIOUS
<1>2. s \in [1..n -> ToSet(s)] /\ ToSet(s) \subseteq S
  BY <1>1 DEF ToSet
<1>3. s \in Surjection(1..n, ToSet(s))
  BY <1>1, <1>2 DEF Surjection, ToSet
<1>4. IsFiniteSet(1..n) /\ Cardinality(1..n) = n
  BY <1>1, FS_Interval
<1>. QED
  BY <1>2, <1>3, <1>4, FS_Surjection

LEMMA FoundIsRanking ==
    ASSUME NEW list \in Found
    PROVE  list \in Rankings /\ \A c \in ToSet(list) : life[c] = "stored"
<1>1. Visible \in SUBSET Own
  BY DEF Visible
<1>2. IsFiniteSet(Visible) /\ Cardinality(Visible) \in Nat
  BY <1>1, ChunksAssumption, FS_Subset, FS_CardinalityType
<1>3. PICK S \in SUBSET Visible : list \in SetToSeqs(S)
  BY DEF Found, SetToAllKPermutations
<1>4. list \in Seq(S) /\ IsInjective(list) /\ ToSet(list) = S
  BY <1>2, <1>3, FS_Subset, RankingOfSet
<1>5. Len(list) <= TopK
  <2>1. Len(list) <= IF Cardinality(Visible) < TopK THEN Cardinality(Visible) ELSE TopK
    BY DEF Found
  <2>2. Len(list) \in Nat /\ TopK \in Nat
    BY <1>4, SizesAssumption
  <2>. QED
    BY <1>2, <2>1, <2>2
<1>6. list \in Seq(Own)
  BY <1>1, <1>3, <1>4
<1>. QED
  BY <1>3, <1>4, <1>5, <1>6 DEF Rankings, Visible

LEMMA RerankedIsRanking ==
    ASSUME NEW list \in Rankings, NEW s \in SetToSeqs(ToSet(list))
    PROVE  s \in Rankings /\ ToSet(s) = ToSet(list)
<1>1. list \in Seq(Own) /\ Len(list) <= TopK /\ Len(list) \in Nat
  BY DEF Rankings
<1>2. /\ ToSet(list) \subseteq Own /\ IsFiniteSet(ToSet(list))
      /\ Cardinality(ToSet(list)) <= Len(list) /\ Cardinality(ToSet(list)) \in Nat
  BY <1>1, ElementsOfRanking, FS_CardinalityType
<1>3. /\ s \in Seq(ToSet(list)) /\ IsInjective(s)
      /\ Len(s) = Cardinality(ToSet(list)) /\ ToSet(s) = ToSet(list)
  BY <1>2, RankingOfSet
<1>4. s \in Seq(Own) /\ Len(s) <= TopK
  BY <1>1, <1>2, <1>3, SizesAssumption
<1>. QED
  BY <1>3, <1>4 DEF Rankings

-----------------------------------------------------------------------------
(***************************************************************************)
(* The weight of a rank is positive, and smaller for a greater rank.        *)
(***************************************************************************)
Positive == Nat \ {0}
Weighted(rank, b, k) == IF k = rank THEN b ELSE (60 + k) * b
WeightStep(rank) == [p \in Positive \X (1..TopK) |-> Weighted(rank, p[1], p[2])]

LEMMA WeightedType ==
    ASSUME NEW rank, NEW b \in Positive, NEW k \in 1..TopK
    PROVE  Weighted(rank, b, k) \in Positive
<1>1. k \in Nat
  BY SizesAssumption
<1>2. \A x, y \in Nat \ {0} : x * y \in Nat \ {0}
  OBVIOUS
<1>. QED
  BY <1>1, <1>2 DEF Weighted, Positive

LEMMA WeightIsFold ==
    ASSUME NEW rank
    PROVE  FoldsTo(Positive, TopK, 1, WeightStep(rank), Weight(rank))
<1>. DEFINE w == [r \in 1..TopK |-> r]
            IsIter(iter) == iter = [s \in SUBSET DOMAIN w |->
                IF s = {} THEN 1 ELSE Weighted(rank, iter[s \ {Max(s)}], w[Max(s)])]
            iter == CHOOSE iter : IsIter(iter)
<1>0. 1 \in Positive
  BY DEF Positive
<1>1. TopK \in Nat /\ DOMAIN w = 1..TopK /\ \A r \in 1..TopK : w[r] = r
  BY SizesAssumption
<1>2. Weight(rank) = iter[DOMAIN w]
  BY DEF Weight, FoldLeft, MapThenFoldSet, Weighted
<1>3. ASSUME NEW b \in Positive, NEW k \in 1..TopK
      PROVE  WeightStep(rank)[b, k] = Weighted(rank, b, k)
  BY DEF WeightStep
<1>4. WeightStep(rank) \in [Positive \X (1..TopK) -> Positive]
  BY WeightedType DEF WeightStep
<1>5. PICK g : Folds(Positive, TopK, 1, WeightStep(rank), g)
  BY <1>0, <1>1, <1>4, FoldExists
<1>6. IsIter(g)
  <2>1. ASSUME NEW s \in SUBSET (1..TopK)
        PROVE  g[s] = IF s = {} THEN 1 ELSE Weighted(rank, g[s \ {Max(s)}], w[Max(s)])
    <3>1. CASE s = {}
      BY <1>5, <3>1 DEF Folds
    <3>2. CASE s # {}
      <4>1. Max(s) \in s
        BY <1>1, <3>2, MaxOfNumbers
      <4>2. Max(s) \in 1..TopK /\ s \ {Max(s)} \in SUBSET (1..TopK)
        BY <4>1
      <4>3. g[s \ {Max(s)}] \in Positive /\ g[s] = WeightStep(rank)[g[s \ {Max(s)}], Max(s)]
        BY <1>5, <3>2, <4>2 DEF Folds
      <4>4. w[Max(s)] = Max(s)
        BY <1>1, <4>2
      <4>. HIDE DEF w
      <4>. QED
        BY <1>3, <3>2, <4>2, <4>3, <4>4
    <3>. QED
      BY <3>1, <3>2
  <2>2. g = [s \in SUBSET (1..TopK) |-> g[s]]
    BY <1>5 DEF Folds
  <2>. HIDE DEF w
  <2>. QED
    BY <1>1, <2>1, <2>2
<1>7. IsIter(iter)
  <2>. HIDE DEF IsIter
  <2>. QED
    BY <1>6
<1>8. Iterates(Positive, TopK, 1, WeightStep(rank), iter)
  <2>1. \A s \in SUBSET (1..TopK) :
            iter[s] = IF s = {} THEN 1 ELSE Weighted(rank, iter[s \ {Max(s)}], w[Max(s)])
    <3>. HIDE DEF iter, w
    <3>. QED
      BY <1>1, <1>7
  <2>. HIDE DEF iter, IsIter, w
  <2>2. {} \in SUBSET (1..TopK)
    OBVIOUS
  <2>3. ASSUME NEW s \in SUBSET (1..TopK), s # {}, iter[s \ {Max(s)}] \in Positive
        PROVE  iter[s] = WeightStep(rank)[iter[s \ {Max(s)}], Max(s)]
    <3>1. Max(s) \in 1..TopK
      BY <1>1, <2>3, MaxOfNumbers
    <3>2. iter[s] = Weighted(rank, iter[s \ {Max(s)}], Max(s))
      BY <1>1, <2>1, <2>3, <3>1
    <3>. QED
      BY <1>3, <2>3, <3>1, <3>2
  <2>. QED
    BY <2>1, <2>2, <2>3 DEF Iterates
<1>. HIDE DEF iter, w, IsIter
<1>9. FoldsTo(Positive, TopK, 1, WeightStep(rank), iter[1..TopK])
  BY <1>0, <1>1, <1>4, <1>8, FoldRuns
<1>. QED
  BY <1>1, <1>2, <1>9

LEMMA WeightSteps ==
    ASSUME NEW rank
    PROVE  \E f : /\ f \in [0..TopK -> Positive] /\ f[0] = 1
                  /\ \A k \in 1..TopK : f[k] = IF k = rank THEN f[k - 1] ELSE (60 + k) * f[k - 1]
                  /\ f[TopK] = Weight(rank)
<1>1. PICK f : FoldSteps(Positive, TopK, 1, WeightStep(rank), f) /\ f[TopK] = Weight(rank)
  BY WeightIsFold DEF FoldsTo
<1>2. f \in [0..TopK -> Positive] /\ f[0] = 1
  BY <1>1 DEF FoldSteps
<1>3. ASSUME NEW k \in 1..TopK PROVE f[k] = Weighted(rank, f[k - 1], k)
  <2>1. f[k] = WeightStep(rank)[f[k - 1], k]
    BY <1>1 DEF FoldSteps
  <2>2. k - 1 \in 0..TopK
    BY SizesAssumption
  <2>. QED
    BY <1>2, <2>1, <2>2 DEF WeightStep
<1>. QED
  BY <1>1, <1>2, <1>3 DEF Weighted

LEMMA WeightType == ASSUME NEW rank PROVE Weight(rank) \in Positive
<1>1. PICK f \in [0..TopK -> Positive] : f[TopK] = Weight(rank)
  BY WeightSteps
<1>. QED
  BY <1>1, SizesAssumption

LEMMA WeightFalls ==
    ASSUME NEW a \in 1..TopK, NEW b \in 1..TopK, a < b
    PROVE  Weight(a) > Weight(b)
<1>1. a \in Nat /\ b \in Nat /\ TopK \in Nat
  BY SizesAssumption
<1>2. PICK f \in [0..TopK -> Positive] :
        /\ f[0] = 1 /\ f[TopK] = Weight(a)
        /\ \A k \in 1..TopK : f[k] = IF k = a THEN f[k - 1] ELSE (60 + k) * f[k - 1]
  BY WeightSteps
<1>3. PICK g \in [0..TopK -> Positive] :
        /\ g[0] = 1 /\ g[TopK] = Weight(b)
        /\ \A k \in 1..TopK : g[k] = IF k = b THEN g[k - 1] ELSE (60 + k) * g[k - 1]
  BY WeightSteps
<1>. DEFINE Times(k, r) == IF k >= r THEN 60 + r ELSE 1
            S == {k \in Nat : k <= TopK => Times(k, a) * f[k] = Times(k, b) * g[k]}
<1>4. \A x, y, z \in Nat : x * (y * z) = y * (x * z)
  OBVIOUS
<1>5. 0 \in S
  BY <1>1, <1>2, <1>3
<1>6. ASSUME NEW k \in Nat, k \in S PROVE k + 1 \in S
  <2>. SUFFICES ASSUME k + 1 <= TopK
                PROVE  Times(k + 1, a) * f[k + 1] = Times(k + 1, b) * g[k + 1]
    OBVIOUS
  <2>1. k + 1 \in 1..TopK /\ (k + 1) - 1 = k /\ k \in 0..TopK
    BY <1>1
  <2>2. PICK p \in Nat, q \in Nat : p = f[k] /\ q = g[k]
    BY <2>1 DEF Positive
  <2>3. /\ f[k + 1] = IF k + 1 = a THEN p ELSE (60 + (k + 1)) * p
        /\ g[k + 1] = IF k + 1 = b THEN q ELSE (60 + (k + 1)) * q
    BY <1>2, <1>3, <2>1, <2>2
  <2>4. Times(k, a) * p = Times(k, b) * q
    BY <1>1, <1>6, <2>1, <2>2
  <2>5. CASE k + 1 = a
    <3>1. Times(k, a) = 1 /\ Times(k, b) = 1 /\ Times(k + 1, a) = 60 + a /\ Times(k + 1, b) = 1
      BY <1>1, <2>5
    <3>2. f[k + 1] = p /\ g[k + 1] = (60 + a) * q
      BY <1>1, <2>3, <2>5
    <3>3. p = q
      BY <2>4, <3>1
    <3>4. (60 + a) * q \in Nat
      BY <1>1
    <3>. HIDE DEF Times
    <3>. QED
      BY <3>1, <3>2, <3>3, <3>4
  <2>6. CASE k + 1 = b
    <3>1. /\ Times(k, a) = 60 + a /\ Times(k, b) = 1
          /\ Times(k + 1, a) = 60 + a /\ Times(k + 1, b) = 60 + b
      BY <1>1, <2>6
    <3>2. f[k + 1] = (60 + b) * p /\ g[k + 1] = q
      BY <1>1, <2>3, <2>6
    <3>3. (60 + a) * p = q
      BY <2>4, <3>1
    <3>4. (60 + a) * ((60 + b) * p) = (60 + b) * ((60 + a) * p)
      BY <1>1, <1>4
    <3>. HIDE DEF Times
    <3>. QED
      BY <3>1, <3>2, <3>3, <3>4
  <2>7. CASE k + 1 # a /\ k + 1 # b
    <3>1. PICK x \in Nat, y \in Nat, z \in Nat :
              x = Times(k, a) /\ y = Times(k, b) /\ z = 60 + (k + 1)
      BY <1>1
    <3>2. Times(k + 1, a) = x /\ Times(k + 1, b) = y
      BY <1>1, <2>7, <3>1
    <3>3. f[k + 1] = z * p /\ g[k + 1] = z * q
      BY <2>3, <2>7, <3>1
    <3>4. x * p = y * q
      BY <2>4, <3>1
    <3>5. x * (z * p) = z * (x * p) /\ y * (z * q) = z * (y * q)
      BY <1>4
    <3>. HIDE DEF Times
    <3>. QED
      BY <3>2, <3>3, <3>4, <3>5
  <2>. QED
    BY <2>5, <2>6, <2>7
<1>7. TopK \in S
  <2>. HIDE DEF S
  <2>. QED
    BY <1>1, <1>5, <1>6, SetInduction
<1>8. (60 + a) * Weight(a) = (60 + b) * Weight(b)
  BY <1>1, <1>2, <1>3, <1>7
<1>9. Weight(a) \in Nat \ {0} /\ Weight(b) \in Nat \ {0}
  BY WeightType DEF Positive
<1>10. \A u, v, x, y \in Nat \ {0} : x < y /\ x * u = y * v => u > v
  <2>. SUFFICES ASSUME NEW u \in Nat \ {0}, NEW v \in Nat \ {0}, NEW x \in Nat \ {0},
                       NEW y \in Nat \ {0}, x < y, x * u = y * v, u <= v
                PROVE  FALSE
    OBVIOUS
  <2>1. x * u <= x * v
    OBVIOUS
  <2>2. x * v < y * v
    OBVIOUS
  <2>3. x * u \in Nat /\ x * v \in Nat /\ y * v \in Nat
    OBVIOUS
  <2>. QED
    BY <2>1, <2>2, <2>3
<1>11. 60 + a \in Nat \ {0} /\ 60 + b \in Nat \ {0} /\ 60 + a < 60 + b
  BY <1>1
<1>. QED
  BY <1>8, <1>9, <1>10, <1>11

-----------------------------------------------------------------------------
(***************************************************************************)
(* Scores.                                                                 *)
(***************************************************************************)
LEMMA RankOfElement ==
    ASSUME NEW set \in Rankings, NEW c \in ToSet(set)
    PROVE  /\ Rank(set, c) \in 1..Len(set) /\ set[Rank(set, c)] = c
           /\ Rank(set, c) \in 1..TopK
<1>. DEFINE I == {i \in 1..Len(set) : set[i] = c}
<1>1. /\ Len(set) \in Nat /\ Len(set) <= TopK /\ TopK \in Nat /\ DOMAIN set = 1..Len(set)
      /\ IsInjective(set)
  BY SizesAssumption DEF Rankings
<1>2. PICK i \in 1..Len(set) : set[i] = c
  BY <1>1 DEF ToSet
<1>3. I = {i}
  BY <1>1, <1>2 DEF IsInjective
<1>4. Min({i}) = i
  BY <1>2 DEF Min
<1>5. Rank(set, c) = IF I # {} THEN Min(I) ELSE 0
  BY DEF Rank, SelectInSeq
<1>6. Rank(set, c) = i
  BY <1>3, <1>4, <1>5
<1>. QED
  BY <1>1, <1>2, <1>6

LEMMA ShareType ==
    ASSUME NEW set \in Rankings, NEW c
    PROVE  Share(set, c) \in Nat /\ (c \in ToSet(set) => Share(set, c) > 0)
  BY WeightType DEF Share, Positive

LEMMA ScoreIsSum ==
    ASSUME NEW sets \in Seq(Rankings), NEW c,
           NEW shares, shares = [i \in 1..Len(sets) |-> Share(sets[i], c)]
    PROVE  /\ shares \in [1..Len(sets) -> Int]
           /\ \E sum : Sums(Len(sets), shares, sum) /\ sum[Len(sets)] = Score(sets, c)
<1>. DEFINE n == Len(sets)
            IsIter(iter) == iter = [s \in SUBSET DOMAIN sets |->
                IF s = {} THEN 0 ELSE iter[s \ {Max(s)}] + Share(sets[Max(s)], c)]
            iter == CHOOSE iter : IsIter(iter)
<1>1. n \in Nat /\ DOMAIN sets = 1..n /\ \A i \in 1..n : sets[i] \in Rankings
  OBVIOUS
<1>2. shares \in [1..n -> Int]
  BY <1>1, ShareType
<1>3. Score(sets, c) = iter[DOMAIN sets]
  BY DEF Score, FoldLeft, MapThenFoldSet
<1>4. ASSUME NEW s \in SUBSET (1..n), s # {} PROVE shares[Max(s)] = Share(sets[Max(s)], c)
  <2>1. Max(s) \in 1..n
    BY <1>1, <1>4, MaxOfNumbers
  <2>. QED
    BY <2>1
<1>. HIDE DEF n
<1>5. ASSUME NEW g PROVE IsSum(n, shares, g) <=> IsIter(g)
  BY <1>1, <1>4 DEF IsSum
<1>6. (\E g : IsSum(n, shares, g)) => IsSum(n, shares, iter)
  <2>. HIDE DEF IsIter
  <2>. QED
    BY <1>5
<1>. HIDE DEF iter, IsIter
<1>7. PICK sum : Sums(n, shares, sum) /\ sum[n] = iter[1..n]
  BY <1>1, <1>2, <1>6, SumSteps, ZenonT(30)
<1>. QED
  BY <1>1, <1>2, <1>3, <1>7 DEF n

\* Being nowhere below, and above somewhere, is being above in the sum.
LEMMA BeatsInScore ==
    ASSUME NEW sets \in Seq(Rankings), NEW c, NEW d, Beats(sets, c, d)
    PROVE  /\ Score(sets, c) \in Int /\ Score(sets, d) \in Int
           /\ Score(sets, c) > Score(sets, d)
           /\ \E i \in 1..Len(sets) : c \in ToSet(sets[i])
<1>. DEFINE Place(set, x) == IF x \in ToSet(set) THEN Rank(set, x) ELSE TopK + 1
<1>1. /\ Len(sets) \in Nat /\ DOMAIN sets = 1..Len(sets) /\ TopK \in Nat
      /\ \A i \in 1..Len(sets) : sets[i] \in Rankings
  BY SizesAssumption
<1>2. /\ \A i \in 1..Len(sets) : Place(sets[i], c) <= Place(sets[i], d)
      /\ \E i \in 1..Len(sets) : Place(sets[i], c) < Place(sets[i], d)
  BY <1>1 DEF Beats
<1>3. ASSUME NEW set \in Rankings, NEW x
      PROVE  IF x \in ToSet(set) THEN Place(set, x) = Rank(set, x) /\ Rank(set, x) \in 1..TopK
                                 ELSE Place(set, x) = TopK + 1
  BY RankOfElement
<1>. HIDE DEF Place
<1>4. ASSUME NEW set \in Rankings, Place(set, c) < Place(set, d)
      PROVE  c \in ToSet(set) /\ Share(set, c) > Share(set, d)
  <2>1. c \in ToSet(set) /\ Rank(set, c) \in 1..TopK
    BY <1>1, <1>3, <1>4
  <2>2. Share(set, c) = Weight(Rank(set, c)) /\ Weight(Rank(set, c)) \in Nat \ {0}
    BY <2>1, WeightType DEF Share, Positive
  <2>3. CASE d \in ToSet(set)
    <3>1. Rank(set, c) < Rank(set, d) /\ Rank(set, d) \in 1..TopK
      BY <1>3, <1>4, <2>1, <2>3
    <3>2. Share(set, d) = Weight(Rank(set, d))
      BY <2>3 DEF Share
    <3>. QED
      BY <2>1, <2>2, <3>1, <3>2, WeightFalls
  <2>4. CASE d \notin ToSet(set)
    BY <2>1, <2>2, <2>4 DEF Share
  <2>. QED
    BY <2>1, <2>3, <2>4
<1>5. ASSUME NEW set \in Rankings, Place(set, c) = Place(set, d)
      PROVE  Share(set, c) = Share(set, d)
  BY <1>1, <1>3, <1>5 DEF Share
<1>6. ASSUME NEW i \in 1..Len(sets)
      PROVE  Share(sets[i], c) >= Share(sets[i], d)
  <2>1. Place(sets[i], c) \in Int /\ Place(sets[i], d) \in Int
    BY <1>1, <1>3
  <2>2. Place(sets[i], c) < Place(sets[i], d) \/ Place(sets[i], c) = Place(sets[i], d)
    BY <1>2, <2>1
  <2>3. Share(sets[i], c) \in Nat /\ Share(sets[i], d) \in Nat
    BY <1>1, ShareType
  <2>. QED
    BY <1>1, <1>4, <1>5, <2>2, <2>3
<1>7. PICK j \in 1..Len(sets) :
        c \in ToSet(sets[j]) /\ Share(sets[j], c) > Share(sets[j], d)
  BY <1>1, <1>2, <1>4
<1>8. PICK u, v : /\ u = [i \in 1..Len(sets) |-> Share(sets[i], c)]
                  /\ v = [i \in 1..Len(sets) |-> Share(sets[i], d)]
  OBVIOUS
<1>9. /\ u \in [1..Len(sets) -> Int] /\ v \in [1..Len(sets) -> Int]
      /\ \E f : Sums(Len(sets), u, f) /\ f[Len(sets)] = Score(sets, c)
      /\ \E g : Sums(Len(sets), v, g) /\ g[Len(sets)] = Score(sets, d)
  BY <1>8, ScoreIsSum
<1>10. PICK f, g : /\ Sums(Len(sets), u, f) /\ f[Len(sets)] = Score(sets, c)
                   /\ Sums(Len(sets), v, g) /\ g[Len(sets)] = Score(sets, d)
  BY <1>9
<1>11. (\A k \in 1..Len(sets) : u[k] >= v[k]) /\ u[j] > v[j]
  BY <1>6, <1>7, <1>8
<1>12. f[Len(sets)] > g[Len(sets)]
  BY <1>1, <1>9, <1>10, <1>11, SumsCompare
<1>13. f[Len(sets)] \in Int /\ g[Len(sets)] \in Int
  BY <1>1, <1>10 DEF Sums
<1>. QED
  BY <1>7, <1>10, <1>12, <1>13

-----------------------------------------------------------------------------
(***************************************************************************)
(* Fusion.                                                                 *)
(***************************************************************************)
All(sets) == UNION {ToSet(sets[i]) : i \in DOMAIN sets}

\* Chunks in the order of their scores.
ByScore(sets, s) ==
    \A i, j \in DOMAIN s : i < j => Score(sets, s[i]) >= Score(sets, s[j])

Consensus(sets, ranking) ==
    \A c \in Own, i \in DOMAIN ranking :
        Beats(sets, c, ranking[i]) => c \in ToSet(SubSeq(ranking, 1, i))

LEMMA FusedIsRanking ==
    ASSUME NEW sets \in Seq(Rankings), NEW r \in Fused(sets)
    PROVE  /\ r \in Rankings
           /\ \A c \in ToSet(r) : \E i \in 1..Len(sets) : c \in ToSet(sets[i])
           /\ Consensus(sets, r)
<1>1. DOMAIN sets = 1..Len(sets) /\ \A i \in 1..Len(sets) : sets[i] \in Rankings
  OBVIOUS
<1>2. IsFiniteSet(All(sets)) /\ All(sets) \subseteq Own
  <2>1. ASSUME NEW i \in 1..Len(sets) PROVE ToSet(sets[i]) \subseteq Own
    BY <1>1, ElementsOfRanking DEF Rankings
  <2>2. All(sets) \in SUBSET Own
    BY <1>1, <2>1 DEF All
  <2>. QED
    BY <2>2, ChunksAssumption, FS_Subset
<1>3. PICK s \in SetToSeqs(All(sets)) :
        /\ ByScore(sets, s)
        /\ r = SubSeq(s, 1, IF Len(s) < TopK THEN Len(s) ELSE TopK)
  BY DEF Fused, All, ByScore
<1>4. /\ s \in Seq(All(sets)) /\ IsInjective(s) /\ ToSet(s) = All(sets)
      /\ s \in Seq(Own) /\ Len(s) \in Nat /\ DOMAIN s = 1..Len(s)
  BY <1>2, <1>3, RankingOfSet
<1>5. PICK m \in 0..Len(s) : r = SubSeq(s, 1, m) /\ m <= TopK
  BY <1>3, <1>4, SizesAssumption
<1>6. /\ r \in Seq(Own) /\ Len(r) = m /\ DOMAIN r = 1..m
      /\ \A i \in 1..m : r[i] = s[i] /\ i \in 1..Len(s)
  BY <1>4, <1>5, SubSeqProperties
<1>7. r \in Rankings
  BY <1>4, <1>5, <1>6, ZenonT(30) DEF Rankings, IsInjective
<1>8. ASSUME NEW c \in ToSet(r) PROVE \E i \in 1..Len(sets) : c \in ToSet(sets[i])
  <2>1. c \in ToSet(s)
    BY <1>4, <1>6 DEF ToSet
  <2>. QED
    BY <1>1, <1>4, <2>1 DEF All
<1>9. ASSUME NEW c \in Own, NEW i \in DOMAIN r, Beats(sets, c, r[i])
      PROVE  c \in ToSet(SubSeq(r, 1, i))
  <2>1. /\ Score(sets, c) \in Int /\ Score(sets, r[i]) \in Int
        /\ Score(sets, c) > Score(sets, r[i])
        /\ \E k \in 1..Len(sets) : c \in ToSet(sets[k])
    BY <1>9, BeatsInScore
  <2>2. PICK j \in 1..Len(s) : s[j] = c
    <3>1. c \in ToSet(s)
      BY <1>1, <1>4, <2>1 DEF All
    <3>. QED
      BY <1>4, <3>1 DEF ToSet
  <2>3. r[i] = s[i] /\ i \in 1..m /\ i \in 1..Len(s)
    BY <1>6
  <2>4. ~ (i < j)
    <3>1. i < j => Score(sets, s[i]) >= Score(sets, s[j])
      BY <1>3, <1>4, <2>2, <2>3 DEF ByScore
    <3>2. i < j => Score(sets, r[i]) >= Score(sets, c)
      BY <2>2, <2>3, <3>1
    <3>. QED
      BY <2>1, <3>2
  <2>5. j # i
    BY <1>9, <2>2, <2>3 DEF Beats
  <2>6. j \in 1..i /\ r[j] = c
    BY <1>6, <2>2, <2>3, <2>4, <2>5
  <2>7. Len(SubSeq(r, 1, i)) = i /\ DOMAIN SubSeq(r, 1, i) = 1..i /\ SubSeq(r, 1, i)[j] = r[j]
    BY <1>6, <2>3, <2>6, SubSeqProperties
  <2>. QED
    BY <2>6, <2>7 DEF ToSet
<1>. QED
  BY <1>7, <1>8, <1>9 DEF Consensus

-----------------------------------------------------------------------------
(***************************************************************************)
(* The invariant.                                                          *)
(***************************************************************************)
LEMMA ConsensusOfResults == ConsensusKept <=> (pc = "rerank" => Consensus(lists, results))
  BY DEF ConsensusKept, Consensus

LEMMA EmptyRanking == <<>> \in Rankings /\ <<>> \in Seq(Rankings) /\ ToSet(<<>>) = {}
<1>1. <<>> \in Seq(Own) /\ <<>> \in Seq(Rankings) /\ Len(<<>>) = 0 /\ DOMAIN <<>> = {}
  OBVIOUS
<1>2. 0 <= TopK
  BY SizesAssumption
<1>. QED
  BY <1>1, <1>2 DEF Rankings, IsInjective, ToSet

\* Without result sets nothing beats anything.
LEMMA EmptyConsensus == ASSUME NEW r PROVE Consensus(<<>>, r)
<1>1. DOMAIN <<>> = {}
  OBVIOUS
<1>. QED
  BY <1>1 DEF Consensus, Beats

LEMMA InitInductive == Init => IInv
<1>. SUFFICES ASSUME Init PROVE IInv
  OBVIOUS
<1>1. life \in [Chunks -> {"planned", "stored", "deleted"}]
  BY DEF Init
<1>2. lists = <<>> /\ results = <<>> /\ pc \in {"route", "hyde", "rewrite", "search"}
  BY DEF Init
<1>3. TypeOK /\ AllKnown
  BY <1>1, <1>2, EmptyRanking DEF TypeOK, AllKnown, Known
<1>4. Unfused /\ Searched
  BY <1>2 DEF Init, Unfused, Searched, Requests
<1>5. ConsensusKept
  BY <1>2 DEF ConsensusKept
<1>. QED
  BY <1>3, <1>4, <1>5 DEF IInv

\* A chunk that is ingested or deleted is no chunk to come.
LEMMA StoreKeeps == ASSUME IInv, NEW c \in Chunks, Ingest(c) \/ Delete(c) PROVE IInv'
<1>1. /\ UNCHANGED <<pc, rewrite, lists, results, searched>>
      /\ life' = [life EXCEPT ![c] = "stored"] \/ life' = [life EXCEPT ![c] = "deleted"]
  BY DEF Ingest, Delete
<1>2. life \in [Chunks -> {"planned", "stored", "deleted"}]
  BY DEF IInv, TypeOK
<1>3. TypeOK'
  BY <1>1, <1>2 DEF IInv, TypeOK
<1>4. ASSUME NEW d \in Chunks, life[d] # "planned" PROVE life'[d] # "planned"
  BY <1>1, <1>2, <1>4
<1>5. ASSUME NEW list \in Rankings, Known(list) PROVE Known(list)'
  <2>1. ToSet(list) \subseteq Chunks
    BY ElementsOfRanking DEF Rankings, Chunks
  <2>. QED
    BY <1>4, <1>5, <2>1 DEF Known
<1>6. AllKnown'
  <2>1. Known(results)'
    BY <1>1, <1>5 DEF IInv, TypeOK, AllKnown, Known
  <2>2. ASSUME NEW i \in 1..Len(lists) PROVE \A d \in ToSet(lists[i]) : life'[d] # "planned"
    <3>1. lists[i] \in Rankings /\ Known(lists[i])
      BY DEF IInv, TypeOK, AllKnown
    <3>. QED
      BY <1>5, <3>1 DEF Known
  <2>. QED
    BY <1>1, <2>1, <2>2 DEF AllKnown, Known
<1>7. Unfused' /\ Searched' /\ ConsensusKept'
  BY <1>1 DEF IInv, Unfused, Searched, SomeSearch, ConsensusKept, Beats
<1>. QED
  BY <1>3, <1>6, <1>7 DEF IInv

\* The helpers give no result sets; a search for HyDE's answer may give results.
LEMMA RouteKeeps == ASSUME IInv, Route PROVE IInv'
<1>1. /\ UNCHANGED <<life, lists, results, searched>>
      /\ pc = "route" /\ pc' \in {"decompose", "hyde", "rewrite", "search"}
      /\ pc' = "rewrite" => rewrite'
  BY DEF Route, deployment, store
<1>2. TypeOK' /\ AllKnown'
  BY <1>1 DEF IInv, TypeOK, AllKnown, Known
<1>3. Unfused' /\ Searched' /\ ConsensusKept'
  BY <1>1 DEF IInv, Unfused, Searched, SomeSearch, ConsensusKept
<1>. QED
  BY <1>2, <1>3 DEF IInv

LEMMA SearchGivesRows ==
    ASSUME NEW list, Retrieved(list)
    PROVE  SomeSearch' /\ list \in Found
  BY DEF Retrieved, SomeSearch

\* A search whose result set becomes the results.
LEMMA ResultsFound ==
    ASSUME IInv, NEW list \in Found, SomeSearch', results' = list,
           pc \in {"hyde", "search"}, pc' = "rerank",
           UNCHANGED <<life, rewrite, lists>>
    PROVE  IInv'
<1>1. list \in Rankings /\ \A c \in ToSet(list) : life[c] = "stored"
  BY FoundIsRanking
<1>2. lists = <<>>
  BY DEF IInv, Unfused
<1>3. TypeOK'
  BY <1>1 DEF IInv, TypeOK
<1>4. AllKnown'
  BY <1>1 DEF IInv, AllKnown, Known
<1>5. Unfused' /\ Searched'
  BY DEF Unfused, Searched
<1>6. ConsensusKept'
  <2>1. Consensus(<<>>, results')
    BY EmptyConsensus
  <2>. QED
    BY <1>2, <2>1 DEF ConsensusKept, Consensus
<1>. QED
  BY <1>3, <1>4, <1>5, <1>6 DEF IInv

\* A step that finds nothing.
LEMMA NothingFound ==
    ASSUME IInv, UNCHANGED <<life, rewrite, lists, results>>,
           SomeSearch => SomeSearch',
           pc' \notin {"rerank", "generate", "answered"},
           pc' \in {"rewrite", "rewritings"} => rewrite,
           pc' \in {"route", "hyde", "decompose", "rewrite", "search"} => lists = <<>>
    PROVE  IInv'
<1>1. TypeOK' /\ AllKnown'
  BY DEF IInv, TypeOK, AllKnown, Known
<1>2. Unfused' /\ Searched' /\ ConsensusKept'
  BY DEF IInv, Unfused, Searched, ConsensusKept
<1>. QED
  BY <1>1, <1>2 DEF IInv

LEMMA HelperKeeps == ASSUME IInv, Helper PROVE IInv'
<1>1. CASE HyDEFinds
  <2>1. PICK list \in Found : Retrieved(list) /\ results' = list
    BY <1>1 DEF HyDEFinds
  <2>2. SomeSearch'
    BY <2>1, SearchGivesRows
  <2>. QED
    BY <1>1, <2>1, <2>2, ResultsFound DEF HyDEFinds, GoTo, store
<1>2. CASE HyDEFindsNothing \/ HyDEFails
  <2>1. pc' = PastHyDE /\ pc = "hyde" /\ UNCHANGED <<life, rewrite, lists, results>>
    BY <1>2 DEF HyDEFindsNothing, HyDEFails, GoTo, store
  <2>2. SomeSearch => SomeSearch'
    BY <1>2, SearchGivesRows DEF HyDEFindsNothing, HyDEFails, SomeSearch
  <2>3. lists = <<>>
    BY <2>1 DEF IInv, Unfused
  <2>. QED
    BY <2>1, <2>2, <2>3, NothingFound DEF PastHyDE
<1>3. CASE Decompose \/ Rewrite \/ RewriteFails
  <2>1. /\ UNCHANGED <<life, rewrite, lists, results, searched>>
        /\ pc \in {"decompose", "rewrite"} /\ pc' \in {"sub-questions", "rewritings", "search"}
        /\ pc' = "rewritings" => pc = "rewrite"
    BY <1>3 DEF Decompose, Rewrite, RewriteFails, GoTo, deployment, store
  <2>2. lists = <<>> /\ (pc = "rewrite" => rewrite)
    BY <2>1 DEF IInv, Unfused, Searched
  <2>. QED
    BY <2>1, <2>2, NothingFound DEF SomeSearch
<1>. QED
  BY <1>1, <1>2, <1>3 DEF Helper

LEMMA SearchVariantKeeps == ASSUME IInv, SearchVariant PROVE IInv'
<1>1. PICK list \in Found : Retrieved(list) /\ lists' = Append(lists, list)
  BY DEF SearchVariant
<1>2. list \in Rankings /\ \A c \in ToSet(list) : life[c] = "stored"
  BY FoundIsRanking
<1>3. /\ UNCHANGED <<life, pc, rewrite, results>> /\ SomeSearch'
      /\ pc \in {"sub-questions", "rewritings"}
  BY <1>1, SearchGivesRows DEF SearchVariant, Variants, store
<1>4. /\ lists \in Seq(Rankings) /\ Len(lists) \in Nat /\ lists' \in Seq(Rankings)
      /\ Len(lists') = Len(lists) + 1 /\ lists'[Len(lists) + 1] = list
      /\ \A i \in 1..Len(lists) : lists'[i] = lists[i]
  BY <1>1, <1>2 DEF IInv, TypeOK
<1>5. TypeOK'
  BY <1>3, <1>4 DEF IInv, TypeOK
<1>6. ASSUME NEW i \in 1..Len(lists') PROVE \A c \in ToSet(lists'[i]) : life[c] # "planned"
  <2>1. i \in 1..Len(lists) \/ i = Len(lists) + 1
    BY <1>4
  <2>. QED
    BY <1>2, <1>4, <2>1 DEF IInv, AllKnown, Known
<1>7. AllKnown'
  BY <1>3, <1>6 DEF IInv, AllKnown, Known
<1>8. Unfused' /\ Searched' /\ ConsensusKept'
  BY <1>3 DEF IInv, Unfused, Searched, ConsensusKept
<1>. QED
  BY <1>5, <1>7, <1>8 DEF IInv

LEMMA FuseKeeps == ASSUME IInv, Fuse PROVE IInv'
<1>1. /\ results' \in Fused(lists) /\ lists # <<>> /\ pc' = "rerank"
      /\ UNCHANGED <<life, rewrite, lists, searched>>
  BY DEF Fuse, GoTo, store
<1>2. lists \in Seq(Rankings) /\ lists' \in Seq(Rankings) /\ SomeSearch'
  BY <1>1 DEF IInv, TypeOK, Searched, SomeSearch
<1>3. /\ results' \in Rankings
      /\ \A c \in ToSet(results') : \E i \in 1..Len(lists) : c \in ToSet(lists[i])
      /\ Consensus(lists, results')
  BY <1>1, <1>2, FusedIsRanking
<1>4. TypeOK'
  BY <1>1, <1>2, <1>3 DEF IInv, TypeOK
<1>5. AllKnown'
  BY <1>1, <1>3 DEF IInv, AllKnown, Known
<1>6. Unfused' /\ Searched'
  BY <1>1, <1>2 DEF Unfused, Searched
<1>7. ConsensusKept'
  BY <1>1, <1>3 DEF ConsensusKept, Consensus
<1>. QED
  BY <1>4, <1>5, <1>6, <1>7 DEF IInv

\* Rewriting goes on with the results there are, none: no consensus is asked of them.
LEMMA NothingToFuseKeeps == ASSUME IInv, NothingToFuse PROVE IInv'
<1>1. /\ UNCHANGED <<life, rewrite, lists, results, searched>> /\ lists = <<>>
      /\ \/ pc = "sub-questions" /\ pc' = "search"
         \/ pc = "rewritings" /\ pc' = "rerank"
  BY DEF NothingToFuse, Variants, GoTo, store
<1>2. TypeOK' /\ AllKnown'
  BY <1>1 DEF IInv, TypeOK, AllKnown, Known
<1>3. Unfused' /\ Searched'
  BY <1>1 DEF IInv, Unfused, Searched, SomeSearch
<1>4. ConsensusKept'
  <2>1. Consensus(<<>>, results)
    BY EmptyConsensus
  <2>. QED
    BY <1>1, <2>1 DEF ConsensusKept, Consensus
<1>. QED
  BY <1>2, <1>3, <1>4 DEF IInv

LEMMA RetrievalKeeps == ASSUME IInv, Retrieval PROVE IInv'
<1>1. CASE VariantFails
  <2>1. /\ UNCHANGED <<life, pc, rewrite, lists, results, searched>>
        /\ pc \in {"sub-questions", "rewritings"}
    BY <1>1 DEF VariantFails, Variants, deployment, store
  <2>2. pc = "rewritings" => rewrite
    BY DEF IInv, Searched
  <2>. QED
    BY <2>1, <2>2, NothingFound DEF SomeSearch
<1>2. CASE Search
  <2>1. PICK list \in Found : Retrieved(list) /\ results' = list
    BY <1>2 DEF Search
  <2>2. SomeSearch'
    BY <2>1, SearchGivesRows
  <2>. QED
    BY <1>2, <2>1, <2>2, ResultsFound DEF Search, GoTo, store
<1>3. CASE SearchFails
  BY <1>3, NothingFound DEF SearchFails, SomeSearch, GoTo, store
<1>. QED
  BY <1>1, <1>2, <1>3, SearchVariantKeeps, FuseKeeps, NothingToFuseKeeps DEF Retrieval

\* The reranker may reorder the results and the generator cites them as they are.
LEMMA AnswerKeeps == ASSUME IInv, Answer PROVE IInv'
<1>1. CASE Rerank
  <2>1. /\ results' \in SetToSeqs(ToSet(results)) /\ lists' = <<>>
        /\ UNCHANGED <<life, rewrite, searched>>
        /\ pc = "rerank" /\ pc' \in {"generate", "answered"}
    BY <1>1 DEF Rerank, Reranked, GoTo, store
  <2>2. results' \in Rankings /\ ToSet(results') = ToSet(results)
    BY <2>1, RerankedIsRanking DEF IInv, TypeOK
  <2>3. TypeOK'
    BY <2>1, <2>2, EmptyRanking DEF IInv, TypeOK
  <2>4. AllKnown'
    BY <2>1, <2>2, EmptyRanking DEF IInv, AllKnown, Known
  <2>5. Unfused' /\ Searched' /\ ConsensusKept'
    BY <2>1 DEF IInv, Unfused, Searched, SomeSearch, ConsensusKept
  <2>. QED
    BY <2>3, <2>4, <2>5 DEF IInv
<1>2. CASE RerankFails \/ Generate \/ GenerateFails
  <2>1. /\ lists' \in {<<>>, lists} /\ (lists' # <<>> => pc' # "rerank")
        /\ UNCHANGED <<life, rewrite, results, searched>>
        /\ pc \in {"rerank", "generate"} /\ pc' \in {"generate", "answered", "failed"}
    BY <1>2 DEF RerankFails, Generate, GenerateFails, Reranked, GoTo, store
  <2>2. TypeOK'
    BY <2>1, EmptyRanking DEF IInv, TypeOK
  <2>3. AllKnown'
    BY <2>1, EmptyRanking DEF IInv, AllKnown, Known
  <2>4. Unfused' /\ Searched' /\ ConsensusKept'
    BY <2>1 DEF IInv, Unfused, Searched, SomeSearch, ConsensusKept
  <2>. QED
    BY <2>2, <2>3, <2>4 DEF IInv
<1>. QED
  BY <1>1, <1>2 DEF Answer

LEMMA NextInductive == IInv /\ [Next]_vars => IInv'
<1>. SUFFICES ASSUME IInv, [Next]_vars PROVE IInv'
  OBVIOUS
<1>1. CASE UNCHANGED vars
  <2>1. UNCHANGED <<life, pc, rewrite, lists, results, searched>>
    BY <1>1 DEF vars, store
  <2>2. TypeOK' /\ AllKnown' /\ Unfused' /\ Searched'
    BY <2>1 DEF IInv, TypeOK, AllKnown, Known, Unfused, Searched, SomeSearch
  <2>3. ConsensusKept'
    BY <2>1 DEF IInv, ConsensusKept, Beats
  <2>. QED
    BY <2>2, <2>3 DEF IInv
<1>2. CASE Next /\ ~ UNCHANGED vars
  BY <1>2, RouteKeeps, HelperKeeps, RetrievalKeeps, AnswerKeeps, StoreKeeps DEF Next, Over
<1>. QED
  BY <1>1, <1>2

\* The parts of the invariant are kept by every step of the pipeline, whatever fails
\* and whatever is ingested or deleted meanwhile.
THEOREM Inductive == Spec => []IInv
<1>. QED
  BY InitInductive, NextInductive, PTL DEF Spec

-----------------------------------------------------------------------------
(***************************************************************************)
(* What it says.                                                           *)
(***************************************************************************)
\* Query and Search of pipeline.go cite at most TopK chunks, none twice, none of
\* another tenant and none that was never stored, on whichever of the ways through
\* HyDE, decomposition, rewriting, fusion and reranking they came.
THEOREM CitesOwnChunks == Spec => []Cited
<1>1. IInv => Cited
  <2>. SUFFICES ASSUME IInv PROVE Cited
    OBVIOUS
  <2>1. results \in Seq(Own) /\ IsInjective(results) /\ Len(results) <= TopK
    BY DEF IInv, TypeOK, Rankings
  <2>2. ToSet(results) \subseteq Own
    BY <2>1, ElementsOfRanking
  <2>. QED
    BY <2>1, <2>2 DEF IInv, AllKnown, Known, Cited
<1>. QED
  BY <1>1, Inductive, PTL

\* reciprocalRankFusion never puts below another chunk, nor cuts off while that one
\* stays, a chunk that no result set ranks below it and some result set ranks above it:
\* for result sets of any number and any lengths up to TopK.
THEOREM FusionKeepsConsensus == Spec => []ConsensusKept
<1>1. IInv => ConsensusKept
  BY DEF IInv
<1>. QED
  BY <1>1, Inductive, PTL

\* A request all of whose searches failed ends in an error, not in an answer from no
\* results: unless it is rewritten, or a search broke at its execution, where
\* SimilaritySearch and HybridSearch do not ask rows.Err and so report no failure.
THEOREM FailureIsNotSilent == Spec => []FailureIsTold
<1>1. IInv => FailureIsTold
  BY DEF IInv, Searched, SomeSearch, FailureIsTold
<1>. QED
  BY <1>1, Inductive, PTL

-----------------------------------------------------------------------------
(***************************************************************************)
(* Reasoning: what its folds choose.                                       *)
(***************************************************************************)
\* The step's thought is the best of its rivals, or none of them is above 0.
Greedy(step) == step.score = Max(step.rivals) \/ Max(step.rivals) <= 0

\* expandPath's best thought is the best, unless none is above 0.
LEMMA BestThoughtIsGreedy ==
    ASSUME NEW n \in Nat \ {0}, NEW thoughts \in [1..n -> Int]
    PROVE  /\ BestThought(thoughts) \in Int
           /\ Greedy(Step(BestThought(thoughts), ToSet(thoughts)))
<1>. DEFINE B == [best : Int, bestScore : Int]
            Cell(s) == [best |-> s, bestScore |-> s]
            Better(b, s) == IF s > b.bestScore THEN Cell(s) ELSE b
            base == [best |-> Head(thoughts), bestScore |-> 0]
            w == [k \in 1..n |-> Cell(thoughts[k])]
            F == [p \in B \X (1..n) |-> Better(p[1], thoughts[p[2]])]
            R == {p \in B \X B : p[1].bestScore >= p[2].bestScore}
            IsIter(iter) == iter = [s \in SUBSET DOMAIN thoughts |->
                IF s = {} THEN base ELSE Better(iter[s \ {Max(s)}], thoughts[Max(s)])]
            iter == CHOOSE iter : IsIter(iter)
<1>1. n \in Nat /\ DOMAIN thoughts = 1..n /\ 1 \in 1..n /\ \A k \in 1..n : thoughts[k] \in Int
  OBVIOUS
<1>2. base \in B /\ base.bestScore = 0 /\ Head(thoughts) = thoughts[1]
  BY <1>1
<1>3. \A s \in Int : Cell(s) \in B /\ Cell(s).best = s /\ Cell(s).bestScore = s
  OBVIOUS
<1>4. \A b \in B, s \in Int : /\ Better(b, s) \in B
                              /\ Better(b, s).bestScore >= s
                              /\ Better(b, s).bestScore >= b.bestScore
                              /\ Better(b, s) \in {b, Cell(s)}
  OBVIOUS
<1>5. \A b \in B : b.best \in Int /\ b.bestScore \in Int
  OBVIOUS
<1>6. BestThought(thoughts) = iter[DOMAIN thoughts].best
  BY DEF BestThought, FoldLeft, MapThenFoldSet
<1>. HIDE DEF B, Cell, Better, base
<1>7. F \in [B \X (1..n) -> B] /\ \A b \in B, k \in 1..n : F[b, k] = Better(b, thoughts[k])
  BY <1>1, <1>4
<1>8. w \in [1..n -> B] /\ \A k \in 1..n : w[k] = Cell(thoughts[k])
  BY <1>1, <1>3
<1>9. \A a \in B, b \in B : <<a, b>> \in R <=> a.bestScore >= b.bestScore
  OBVIOUS
<1>. HIDE DEF F, w, R
<1>10. Prefers(B, n, w, F, R)
  <2>1. \A b \in B : <<b, b>> \in R
    BY <1>5, <1>9
  <2>2. \A a, b, c \in B : <<a, b>> \in R /\ <<b, c>> \in R => <<a, c>> \in R
    BY <1>5, <1>9
  <2>3. ASSUME NEW b \in B, NEW k \in 1..n
        PROVE  F[b, k] \in {b, w[k]} /\ <<F[b, k], b>> \in R /\ <<F[b, k], w[k]>> \in R
    <3>1. F[b, k] = Better(b, thoughts[k]) /\ w[k] = Cell(thoughts[k]) /\ w[k] \in B
      BY <1>7, <1>8
    <3>2. w[k].bestScore = thoughts[k] /\ thoughts[k] \in Int
      BY <1>1, <1>3, <3>1
    <3>. QED
      BY <1>4, <1>9, <3>1, <3>2
  <2>. QED
    BY <1>8, <2>1, <2>2, <2>3 DEF Prefers
<1>11. ASSUME NEW g, Folds(B, n, base, F, g) PROVE IsIter(g)
  <2>1. ASSUME NEW s \in SUBSET (1..n)
        PROVE  g[s] = IF s = {} THEN base ELSE Better(g[s \ {Max(s)}], thoughts[Max(s)])
    <3>1. CASE s = {}
      BY <1>11, <3>1 DEF Folds
    <3>2. CASE s # {}
      <4>1. Max(s) \in 1..n /\ s \ {Max(s)} \in SUBSET (1..n)
        BY <1>1, <3>2, MaxOfNumbers
      <4>2. g[s \ {Max(s)}] \in B
        BY <1>11, <4>1 DEF Folds
      <4>3. g[s] = F[g[s \ {Max(s)}], Max(s)]
        BY <1>11, <3>2 DEF Folds
      <4>. QED
        BY <1>7, <3>2, <4>1, <4>2, <4>3
    <3>. QED
      BY <3>1, <3>2
  <2>2. g = [s \in SUBSET (1..n) |-> g[s]]
    BY <1>11 DEF Folds
  <2>. QED
    BY <1>1, <2>1, <2>2
<1>12. (\E g : Folds(B, n, base, F, g)) => IsIter(iter)
  <2>. HIDE DEF IsIter
  <2>. QED
    BY <1>11
<1>13. IsIter(iter) => Iterates(B, n, base, F, iter)
  <2>. SUFFICES ASSUME IsIter(iter) PROVE Iterates(B, n, base, F, iter)
    OBVIOUS
  <2>1. \A s \in SUBSET (1..n) :
          iter[s] = IF s = {} THEN base ELSE Better(iter[s \ {Max(s)}], thoughts[Max(s)])
    <3>. HIDE DEF iter
    <3>. QED
      BY <1>1
  <2>. HIDE DEF iter, IsIter
  <2>2. iter[{}] = base
    <3>1. {} \in SUBSET (1..n)
      OBVIOUS
    <3>. QED
      BY <2>1, <3>1
  <2>3. ASSUME NEW s \in SUBSET (1..n), s # {}, iter[s \ {Max(s)}] \in B
        PROVE  iter[s] = F[iter[s \ {Max(s)}], Max(s)]
    <3>1. Max(s) \in 1..n
      BY <1>1, <2>3, MaxOfNumbers
    <3>. QED
      BY <1>7, <2>1, <2>3, <3>1
  <2>. QED
    BY <2>2, <2>3 DEF Iterates
<1>. HIDE DEF iter, IsIter
<1>14. PICK f : FoldSteps(B, n, base, F, f) /\ f[n] = iter[1..n]
  <2>1. \E g : Folds(B, n, base, F, g)
    BY <1>1, <1>2, <1>7, FoldExists
  <2>2. Iterates(B, n, base, F, iter)
    BY <1>12, <1>13, <2>1
  <2>3. FoldsTo(B, n, base, F, iter[1..n])
    BY <1>1, <1>2, <1>7, <2>2, FoldRuns
  <2>. QED
    BY <2>3 DEF FoldsTo
<1>15. f[n] \in B /\ BestTo(w, R, base, f, n)
  BY <1>1, <1>2, <1>10, <1>14, BestOfFold
<1>16. BestThought(thoughts) = f[n].best
  BY <1>1, <1>6, <1>14
<1>17. ASSUME NEW k \in 1..n PROVE f[n].bestScore >= thoughts[k]
  <2>1. <<f[n], w[k]>> \in R /\ w[k] \in B /\ w[k].bestScore = thoughts[k]
    BY <1>1, <1>3, <1>8, <1>15 DEF BestTo
  <2>. QED
    BY <1>9, <1>15, <2>1
<1>18. PICK V : V = {thoughts[k] : k \in 1..n}
  OBVIOUS
<1>19. V = ToSet(thoughts) /\ Max(V) \in V /\ \A v \in V : v <= Max(V)
  BY <1>1, <1>18, MaxOfRange DEF ToSet
<1>20. PICK k \in 1..n : Max(V) = thoughts[k]
  BY <1>18, <1>19
<1>21. CASE f[n] = base
  <2>1. 0 >= thoughts[k] /\ thoughts[k] \in Int
    BY <1>1, <1>2, <1>17, <1>21
  <2>2. Max(V) <= 0
    BY <1>20, <2>1
  <2>. QED
    BY <1>15, <1>5, <1>16, <1>19, <2>2 DEF Greedy, Step
<1>22. CASE f[n] # base
  <2>1. PICK j \in 1..n : f[n] = Cell(thoughts[j])
    BY <1>8, <1>15, <1>22 DEF BestTo
  <2>2. f[n].best = thoughts[j] /\ f[n].bestScore = thoughts[j] /\ thoughts[j] \in Int
    BY <1>1, <1>3, <2>1
  <2>3. thoughts[j] \in V
    BY <1>18
  <2>4. thoughts[j] >= Max(V) /\ thoughts[j] <= Max(V) /\ Max(V) \in Int
    BY <1>1, <1>17, <1>19, <1>20, <2>2, <2>3
  <2>5. thoughts[j] = Max(V)
    BY <2>2, <2>4
  <2>. QED
    BY <1>15, <1>5, <1>16, <1>19, <2>2, <2>5 DEF Greedy, Step
<1>. QED
  BY <1>21, <1>22

-----------------------------------------------------------------------------
Steps == [score : Int, rivals : SUBSET Int]
Paths == Seq(Steps) \ {<<>>}

\* pathScore adds up the scores from the first to the last; the total is the same in any order.
LEMMA PathScoreIsTotal ==
    ASSUME NEW path \in Seq(Steps)
    PROVE  PathScore(path).num = Total(path) /\ Total(path) \in Int
<1>. DEFINE n == Len(path)
            shares == [i \in 1..n |-> path[i].score]
            pick == [s \in SUBSET (1..n) |-> CHOOSE x \in s : TRUE]
            IsIter(iter) == iter = [s \in SUBSET DOMAIN path |->
                IF s = {} THEN 0 ELSE iter[s \ {Max(s)}] + path[Max(s)].score]
            IsIterBy(h) == h = [s \in SUBSET DOMAIN path |->
                IF s = {} THEN 0 ELSE LET x == CHOOSE x \in s : TRUE
                                      IN path[x].score + h[s \ {x}]]
            iter == CHOOSE iter : IsIter(iter)
            iterBy == CHOOSE h : IsIterBy(h)
<1>1. n \in Nat /\ DOMAIN path = 1..n /\ \A i \in 1..n : path[i] \in Steps
  OBVIOUS
<1>2. shares \in [1..n -> Int] /\ \A i \in 1..n : shares[i] = path[i].score
  BY <1>1 DEF Steps
<1>3. \A s \in SUBSET (1..n) : s # {} => pick[s] \in s /\ pick[s] = CHOOSE x \in s : TRUE
  OBVIOUS
<1>4. PathScore(path).num = iter[DOMAIN path]
  BY DEF PathScore, FoldLeft, MapThenFoldSet
<1>5. Total(path) = iterBy[DOMAIN path]
  BY DEF Total, MapThenSumSet, MapThenFoldSet
<1>. HIDE DEF n, shares, pick
<1>6. ASSUME NEW g PROVE IsSum(n, shares, g) <=> IsIter(g)
  <2>1. ASSUME NEW s \in SUBSET (1..n), s # {} PROVE shares[Max(s)] = path[Max(s)].score
    BY <1>1, <1>2, <2>1, MaxOfNumbers
  <2>. QED
    BY <1>1, <2>1 DEF IsSum
<1>7. ASSUME NEW g PROVE IsSumBy(n, shares, pick, g) <=> IsIterBy(g)
  <2>1. ASSUME NEW s \in SUBSET (1..n), s # {}
        PROVE  pick[s] = (CHOOSE x \in s : TRUE) /\ shares[pick[s]] = path[pick[s]].score
    BY <1>2, <1>3, <2>1
  <2>2. ASSUME NEW s \in SUBSET (1..n)
        PROVE  (IF s = {} THEN 0 ELSE shares[pick[s]] + g[s \ {pick[s]}])
                 = (IF s = {} THEN 0 ELSE LET x == CHOOSE x \in s : TRUE
                                          IN path[x].score + g[s \ {x}])
    BY <2>1
  <2>. QED
    BY <1>1, <2>2 DEF IsSumBy
<1>8. (\E g : IsSum(n, shares, g)) => IsSum(n, shares, iter)
  <2>. HIDE DEF IsIter
  <2>. QED
    BY <1>6
<1>9. ChosenSumBy(n, shares, pick, iterBy) /\ Picks(n, pick)
  <2>. HIDE DEF IsIterBy
  <2>. QED
    BY <1>3, <1>7 DEF ChosenSumBy, Picks
<1>. HIDE DEF iter, IsIter, iterBy, IsIterBy
<1>10. PICK f : Sums(n, shares, f) /\ f[n] = iter[1..n]
  BY <1>1, <1>2, <1>8, SumSteps
<1>11. PICK g : Sums(n, shares, g) /\ g[n] = iterBy[1..n]
  BY <1>1, <1>2, <1>9, SumInAnyOrder
<1>12. f[n] = g[n] /\ f[n] \in Int
  BY <1>1, <1>2, <1>10, <1>11, SumIsUnique
<1>. QED
  BY <1>1, <1>4, <1>5, <1>10, <1>11, <1>12

\* Being as good is transitive among means.
LEMMA MeansCompare ==
    ASSUME NEW a \in Int, NEW b \in Int, NEW c \in Int,
           NEW k \in Nat \ {0}, NEW l \in Nat \ {0}, NEW m \in Nat \ {0},
           a * l >= b * k, b * m >= c * l
    PROVE  a * m >= c * k
<1>1. (a * l) * m >= (b * k) * m
  <2>1. \A x, y \in Int : x >= y => x * m >= y * m
    OBVIOUS
  <2>. QED
    BY <2>1
<1>2. (b * m) * k >= (c * l) * k
  <2>1. \A x, y \in Int : x >= y => x * k >= y * k
    OBVIOUS
  <2>. QED
    BY <2>1
<1>3. (a * l) * m = (a * m) * l /\ (b * k) * m = (b * m) * k /\ (c * l) * k = (c * k) * l
  OBVIOUS
<1>4. (a * m) * l >= (c * k) * l
  <2>1. /\ (a * m) * l \in Int /\ (b * m) * k \in Int /\ (c * k) * l \in Int
    OBVIOUS
  <2>. QED
    BY <1>1, <1>2, <1>3, <2>1
<1>5. \A x, y \in Int : x * l >= y * l => x >= y
  OBVIOUS
<1>. QED
  BY <1>4, <1>5

\* No path has a better mean than the path with this index.
IsBest(i) ==
    /\ i \in 1..Len(paths)
    /\ \A j \in 1..Len(paths) :
          Total(paths[j]) * Len(paths[i]) <= Total(paths[i]) * Len(paths[j])

LEMMA BestPathIsBest ==
    ASSUME paths \in Seq(Paths), paths # <<>>
    PROVE  IsBest(BestPath)
<1>. DEFINE n == Len(paths)
            B == 1..n
            w == [i \in DOMAIN paths |-> i]
            Better(b, i) == IF Above(PathScore(paths[i]), PathScore(paths[b])) THEN i ELSE b
            F == [p \in B \X (1..n) |-> Better(p[1], p[2])]
            AsGood(i, j) == Total(paths[j]) * Len(paths[i]) <= Total(paths[i]) * Len(paths[j])
            R == {p \in B \X B : AsGood(p[1], p[2])}
            IsIter(iter) == iter = [s \in SUBSET DOMAIN w |->
                IF s = {} THEN 1 ELSE Better(iter[s \ {Max(s)}], w[Max(s)])]
            iter == CHOOSE iter : IsIter(iter)
<1>1. n \in Nat /\ DOMAIN paths = 1..n /\ 1 \in 1..n /\ \A i \in 1..n : paths[i] \in Paths
  OBVIOUS
<1>2. w \in [1..n -> B] /\ DOMAIN w = 1..n /\ \A i \in 1..n : w[i] = i
  BY <1>1
<1>3. ASSUME NEW i \in 1..n
      PROVE  /\ PathScore(paths[i]).num = Total(paths[i]) /\ Total(paths[i]) \in Int
             /\ PathScore(paths[i]).den = Len(paths[i]) /\ Len(paths[i]) \in Nat \ {0}
  <2>1. paths[i] \in Seq(Steps) /\ paths[i] # <<>>
    BY <1>1 DEF Paths
  <2>2. PathScore(paths[i]).den = Len(paths[i])
    BY DEF PathScore
  <2>3. Len(paths[i]) \in Nat \ {0}
    BY <2>1
  <2>. QED
    BY <2>1, <2>2, <2>3, PathScoreIsTotal
<1>4. BestPath = iter[DOMAIN w]
  BY DEF BestPath, FoldLeft, MapThenFoldSet
<1>. HIDE DEF n, w
<1>5. ASSUME NEW i \in B, NEW j \in B
      PROVE  Above(PathScore(paths[i]), PathScore(paths[j])) <=> ~AsGood(j, i)
  <2>1. PICK x, y, k, l : /\ x = Total(paths[i]) /\ y = Total(paths[j])
                          /\ k = Len(paths[i]) /\ l = Len(paths[j])
    OBVIOUS
  <2>2. x * l \in Int /\ y * k \in Int
    BY <1>3, <2>1
  <2>3. Above(PathScore(paths[i]), PathScore(paths[j])) <=> x * l > y * k
    BY <1>3, <2>1 DEF Above
  <2>4. AsGood(j, i) <=> x * l <= y * k
    BY <2>1
  <2>. QED
    BY <2>2, <2>3, <2>4
<1>6. ASSUME NEW i \in B, NEW j \in B PROVE AsGood(i, i) /\ (AsGood(i, j) \/ AsGood(j, i))
  <2>1. PICK x, y, k, l : /\ x = Total(paths[i]) /\ y = Total(paths[j])
                          /\ k = Len(paths[i]) /\ l = Len(paths[j])
    OBVIOUS
  <2>2. x * l \in Int /\ y * k \in Int /\ x * k \in Int
    BY <1>3, <2>1
  <2>3. AsGood(j, i) <=> x * l <= y * k
    BY <2>1
  <2>4. AsGood(i, j) <=> y * k <= x * l
    BY <2>1
  <2>5. AsGood(i, i) <=> x * k <= x * k
    BY <2>1
  <2>. QED
    BY <2>2, <2>3, <2>4, <2>5
<1>7. ASSUME NEW h \in B, NEW i \in B, NEW j \in B, AsGood(h, i), AsGood(i, j)
      PROVE  AsGood(h, j)
  <2>1. PICK a, b, c, k, l, m :
          /\ a = Total(paths[h]) /\ b = Total(paths[i]) /\ c = Total(paths[j])
          /\ k = Len(paths[h]) /\ l = Len(paths[i]) /\ m = Len(paths[j])
    OBVIOUS
  <2>2. /\ a \in Int /\ b \in Int /\ c \in Int
        /\ k \in Nat \ {0} /\ l \in Nat \ {0} /\ m \in Nat \ {0}
    BY <1>3, <2>1
  <2>3. b * k <= a * l /\ c * l <= b * m
    BY <1>7, <2>1
  <2>4. /\ b * k \in Int /\ a * l \in Int /\ c * l \in Int /\ b * m \in Int
        /\ a * m \in Int /\ c * k \in Int
    BY <2>2
  <2>5. a * l >= b * k /\ b * m >= c * l
    BY <2>3, <2>4
  <2>6. a * m >= c * k
    BY <2>2, <2>5, MeansCompare
  <2>7. c * k <= a * m
    BY <2>4, <2>6
  <2>. QED
    BY <2>1, <2>7
<1>8. \A i, j \in B : <<i, j>> \in R <=> AsGood(i, j)
  OBVIOUS
<1>9. \A i, j \in B : Better(i, j) \in {i, j} /\ AsGood(Better(i, j), i) /\ AsGood(Better(i, j), j)
  <2>. SUFFICES ASSUME NEW i \in B, NEW j \in B
                PROVE  /\ Better(i, j) \in {i, j}
                       /\ AsGood(Better(i, j), i) /\ AsGood(Better(i, j), j)
    OBVIOUS
  <2>1. CASE AsGood(i, j)
    <3>1. Better(i, j) = i
      BY <1>5, <2>1
    <3>2. AsGood(i, i)
      BY <1>6
    <3>. HIDE DEF Better, AsGood
    <3>. QED
      BY <2>1, <3>1, <3>2
  <2>2. CASE ~AsGood(i, j)
    <3>1. Better(i, j) = j
      BY <1>5, <2>2
    <3>2. AsGood(j, j) /\ AsGood(j, i)
      BY <1>6, <2>2
    <3>. HIDE DEF Better, AsGood
    <3>. QED
      BY <3>1, <3>2
  <2>. QED
    BY <2>1, <2>2
<1>. HIDE DEF Better, AsGood, R
<1>10. F \in [B \X (1..n) -> B] /\ \A b \in B, k \in 1..n : F[b, k] = Better(b, k)
  BY <1>9
<1>. HIDE DEF F
<1>11. Prefers(B, n, w, F, R)
  <2>1. \A b \in B : <<b, b>> \in R
    BY <1>6, <1>8
  <2>2. \A a, b, c \in B : <<a, b>> \in R /\ <<b, c>> \in R => <<a, c>> \in R
    BY <1>7, <1>8
  <2>3. ASSUME NEW b \in B, NEW k \in 1..n
        PROVE  F[b, k] \in {b, w[k]} /\ <<F[b, k], b>> \in R /\ <<F[b, k], w[k]>> \in R
    <3>1. F[b, k] = Better(b, k) /\ w[k] = k /\ k \in B
      BY <1>2, <1>10
    <3>2. Better(b, k) \in {b, k} /\ AsGood(Better(b, k), b) /\ AsGood(Better(b, k), k)
      BY <1>9, <3>1
    <3>. QED
      BY <1>8, <3>1, <3>2
  <2>. QED
    BY <1>2, <2>1, <2>2, <2>3 DEF Prefers
<1>12. ASSUME NEW g, Folds(B, n, 1, F, g) PROVE IsIter(g)
  <2>1. ASSUME NEW s \in SUBSET (1..n)
        PROVE  g[s] = IF s = {} THEN 1 ELSE Better(g[s \ {Max(s)}], w[Max(s)])
    <3>1. CASE s = {}
      BY <1>12, <3>1 DEF Folds
    <3>2. CASE s # {}
      <4>1. Max(s) \in 1..n /\ s \ {Max(s)} \in SUBSET (1..n)
        BY <1>1, <3>2, MaxOfNumbers
      <4>2. g[s \ {Max(s)}] \in B
        BY <1>12, <4>1 DEF Folds
      <4>3. g[s] = F[g[s \ {Max(s)}], Max(s)]
        BY <1>12, <3>2 DEF Folds
      <4>. QED
        BY <1>2, <1>10, <3>2, <4>1, <4>2, <4>3
    <3>. QED
      BY <3>1, <3>2
  <2>2. g = [s \in SUBSET (1..n) |-> g[s]]
    BY <1>12 DEF Folds
  <2>. QED
    BY <1>2, <2>1, <2>2
<1>13. IsIter(iter)
  <2>1. \E g : Folds(B, n, 1, F, g)
    <3>1. 1 \in B
      BY <1>1
    <3>. HIDE DEF B
    <3>. QED
      BY <1>1, <1>10, <3>1, FoldExists
  <2>. HIDE DEF IsIter
  <2>. QED
    BY <1>12, <2>1
<1>14. Iterates(B, n, 1, F, iter)
  <2>1. \A s \in SUBSET (1..n) : iter[s] = IF s = {} THEN 1 ELSE Better(iter[s \ {Max(s)}], w[Max(s)])
    <3>. HIDE DEF iter
    <3>. QED
      BY <1>2, <1>13
  <2>. HIDE DEF iter, IsIter
  <2>2. iter[{}] = 1
    <3>1. {} \in SUBSET (1..n)
      OBVIOUS
    <3>. QED
      BY <2>1, <3>1
  <2>3. ASSUME NEW s \in SUBSET (1..n), s # {}, iter[s \ {Max(s)}] \in B
        PROVE  iter[s] = F[iter[s \ {Max(s)}], Max(s)]
    <3>1. Max(s) \in 1..n
      BY <1>1, <2>3, MaxOfNumbers
    <3>2. iter[s] = Better(iter[s \ {Max(s)}], w[Max(s)]) /\ w[Max(s)] = Max(s)
      BY <1>2, <2>1, <2>3, <3>1
    <3>. QED
      BY <1>10, <2>3, <3>1, <3>2
  <2>. QED
    BY <2>2, <2>3 DEF Iterates
<1>. HIDE DEF iter, IsIter
<1>15. PICK f : FoldSteps(B, n, 1, F, f) /\ f[n] = iter[1..n]
  <2>1. 1 \in B
    BY <1>1
  <2>. HIDE DEF B
  <2>2. FoldsTo(B, n, 1, F, iter[1..n])
    BY <1>1, <1>10, <1>14, <2>1, FoldRuns
  <2>. QED
    BY <2>2 DEF FoldsTo
<1>16. f[n] \in B /\ BestTo(w, R, 1, f, n)
  <2>1. 1 \in B
    BY <1>1
  <2>. HIDE DEF B
  <2>. QED
    BY <1>1, <1>11, <1>15, <2>1, BestOfFold
<1>17. BestPath = f[n]
  BY <1>2, <1>4, <1>15
<1>18. \A j \in 1..n : AsGood(BestPath, j)
  BY <1>2, <1>8, <1>16, <1>17 DEF BestTo
<1>. QED
  BY <1>16, <1>17, <1>18 DEF IsBest, AsGood, n

-----------------------------------------------------------------------------
Replies == Answers \cup {NoAnswer}

LEMMA CountFacts ==
    ASSUME samples \in Seq(Answers), NEW a
    PROVE  /\ Count(a) = Cardinality({i \in 1..Len(samples) : samples[i] = a})
           /\ IsFiniteSet({i \in 1..Len(samples) : samples[i] = a})
           /\ Count(a) \in Nat
<1>1. Len(samples) \in Nat /\ DOMAIN samples = 1..Len(samples)
  OBVIOUS
<1>2. Count(a) = Cardinality({i \in 1..Len(samples) : samples[i] = a})
  BY <1>1 DEF Count, Quantify
<1>3. IsFiniteSet(1..Len(samples))
  BY <1>1, FS_Interval
<1>4. {i \in 1..Len(samples) : samples[i] = a} \subseteq 1..Len(samples)
  OBVIOUS
<1>5. IsFiniteSet({i \in 1..Len(samples) : samples[i] = a})
  BY <1>3, <1>4, FS_Subset
<1>. QED
  BY <1>2, <1>5, FS_CardinalityType

\* SelfConsistency's loop over the counts ends with an answer that none outnumbers.
LEMMA WinnerHasMost ==
    ASSUME samples \in Seq(Answers), NEW n \in Nat, NEW order \in [1..n -> Answers]
    PROVE  /\ Winner(order) \in Replies
           /\ \A k \in 1..n : Count(order[k]) <= Count(Winner(order))
<1>. DEFINE Better(m, a) == IF Count(a) > Count(m) THEN a ELSE m
            F == [p \in Replies \X (1..n) |-> Better(p[1], order[p[2]])]
            R == {p \in Replies \X Replies : Count(p[1]) >= Count(p[2])}
            IsIter(iter) == iter = [s \in SUBSET DOMAIN order |->
                IF s = {} THEN NoAnswer ELSE Better(iter[s \ {Max(s)}], order[Max(s)])]
            iter == CHOOSE iter : IsIter(iter)
<1>1. NoAnswer \in Replies /\ DOMAIN order = 1..n /\ order \in [1..n -> Replies]
  BY DEF Replies
<1>2. \A a \in Replies : Count(a) \in Nat
  BY CountFacts
<1>3. Winner(order) = iter[DOMAIN order]
  BY DEF Winner, FoldLeft, MapThenFoldSet
<1>4. \A a, b \in Replies : /\ Better(a, b) \in {a, b} /\ Better(a, b) \in Replies
                            /\ Count(Better(a, b)) >= Count(a)
                            /\ Count(Better(a, b)) >= Count(b)
  BY <1>2
<1>5. \A a, b \in Replies : <<a, b>> \in R <=> Count(a) >= Count(b)
  OBVIOUS
<1>. HIDE DEF Better, R
<1>6. F \in [Replies \X (1..n) -> Replies]
      /\ \A b \in Replies, k \in 1..n : F[b, k] = Better(b, order[k])
  BY <1>1, <1>4
<1>. HIDE DEF F
<1>7. Prefers(Replies, n, order, F, R)
  <2>1. \A b \in Replies : <<b, b>> \in R
    BY <1>2, <1>5
  <2>2. \A a, b, c \in Replies : <<a, b>> \in R /\ <<b, c>> \in R => <<a, c>> \in R
    BY <1>2, <1>5
  <2>3. ASSUME NEW b \in Replies, NEW k \in 1..n
        PROVE  F[b, k] \in {b, order[k]} /\ <<F[b, k], b>> \in R /\ <<F[b, k], order[k]>> \in R
    <3>1. F[b, k] = Better(b, order[k]) /\ order[k] \in Replies
      BY <1>1, <1>6
    <3>. QED
      BY <1>4, <1>5, <3>1
  <2>. QED
    BY <1>1, <2>1, <2>2, <2>3 DEF Prefers
<1>8. ASSUME NEW g, Folds(Replies, n, NoAnswer, F, g) PROVE IsIter(g)
  <2>1. ASSUME NEW s \in SUBSET (1..n)
        PROVE  g[s] = IF s = {} THEN NoAnswer ELSE Better(g[s \ {Max(s)}], order[Max(s)])
    <3>1. CASE s = {}
      BY <1>8, <3>1 DEF Folds
    <3>2. CASE s # {}
      <4>1. Max(s) \in 1..n /\ s \ {Max(s)} \in SUBSET (1..n)
        BY <3>2, MaxOfNumbers
      <4>2. g[s \ {Max(s)}] \in Replies
        BY <1>8, <4>1 DEF Folds
      <4>3. g[s] = F[g[s \ {Max(s)}], Max(s)]
        BY <1>8, <3>2 DEF Folds
      <4>. QED
        BY <1>6, <3>2, <4>1, <4>2, <4>3
    <3>. QED
      BY <3>1, <3>2
  <2>2. g = [s \in SUBSET (1..n) |-> g[s]]
    BY <1>8 DEF Folds
  <2>. QED
    BY <1>1, <2>1, <2>2
<1>9. IsIter(iter)
  <2>1. \E g : Folds(Replies, n, NoAnswer, F, g)
    BY <1>1, <1>6, FoldExists
  <2>. HIDE DEF IsIter
  <2>. QED
    BY <1>8, <2>1
<1>10. Iterates(Replies, n, NoAnswer, F, iter)
  <2>1. \A s \in SUBSET (1..n) :
          iter[s] = IF s = {} THEN NoAnswer ELSE Better(iter[s \ {Max(s)}], order[Max(s)])
    <3>. HIDE DEF iter
    <3>. QED
      BY <1>1, <1>9
  <2>. HIDE DEF iter, IsIter
  <2>2. iter[{}] = NoAnswer
    <3>1. {} \in SUBSET (1..n)
      OBVIOUS
    <3>. QED
      BY <2>1, <3>1
  <2>3. ASSUME NEW s \in SUBSET (1..n), s # {}, iter[s \ {Max(s)}] \in Replies
        PROVE  iter[s] = F[iter[s \ {Max(s)}], Max(s)]
    <3>1. Max(s) \in 1..n
      BY <2>3, MaxOfNumbers
    <3>2. iter[s] = Better(iter[s \ {Max(s)}], order[Max(s)])
      BY <2>1, <2>3
    <3>. QED
      BY <1>6, <2>3, <3>1, <3>2
  <2>. QED
    BY <2>2, <2>3 DEF Iterates
<1>. HIDE DEF iter, IsIter
<1>11. PICK f : FoldSteps(Replies, n, NoAnswer, F, f) /\ f[n] = iter[1..n]
  <2>1. FoldsTo(Replies, n, NoAnswer, F, iter[1..n])
    BY <1>1, <1>6, <1>10, FoldRuns
  <2>. QED
    BY <2>1 DEF FoldsTo
<1>12. f[n] \in Replies /\ BestTo(order, R, NoAnswer, f, n)
  BY <1>1, <1>7, <1>11, BestOfFold
<1>13. Winner(order) = f[n]
  BY <1>1, <1>3, <1>11
<1>14. ASSUME NEW k \in 1..n PROVE Count(order[k]) <= Count(Winner(order))
  <2>1. order[k] \in Replies /\ <<f[n], order[k]>> \in R
    BY <1>1, <1>12 DEF BestTo
  <2>2. Count(f[n]) >= Count(order[k]) /\ Count(f[n]) \in Nat /\ Count(order[k]) \in Nat
    BY <1>2, <1>5, <1>12, <2>1
  <2>. QED
    BY <1>13, <2>2
<1>. QED
  BY <1>12, <1>13, <1>14

-----------------------------------------------------------------------------
(***************************************************************************)
(* Reasoning: the inductive invariant.                                     *)
(***************************************************************************)
ReasoningTypeOK ==
    /\ op \in Ops
    /\ stage \in {"start", "next root", "expand", "wait", "critique", "revise"} \cup Ended
    /\ roots \in [kept : Seq(Int), dropped : Seq(Int)]
    /\ paths \in Seq(Paths)
    /\ routine \in [Goroutines -> {"none", "reason", "append", "write", "done"}]
    /\ reply \in [Goroutines -> Replies]
    /\ mutex \in Goroutines \cup {Nobody}
    /\ read \in [Goroutines -> Seq(Answers)]
    /\ samples \in Seq(Answers)

OwnStages ==
    /\ stage \in {"next root", "expand"} => op = "tree"
    /\ stage = "wait" => op = "consistency"
    /\ stage \in {"critique", "revise"} => op = "reflect"

BestRootsKept == \A i \in 1..Len(roots.kept), j \in 1..Len(roots.dropped) :
                    roots.kept[i] >= roots.dropped[j]

GreedyPaths == \A i \in 1..Len(paths) : \A k \in 2..Len(paths[i]) : Greedy(paths[i][k])

TreeInv ==
    /\ BestRootsKept
    /\ GreedyPaths
    /\ stage = "expand" => paths # <<>>
    /\ stage \in {"next root", "expand"} => roots.kept # <<>>
    /\ op = "tree" /\ stage = "answered" => IsBest(best)

\* The goroutines that are through with this answer, and with any.
Voters(a) == {g \in Goroutines : routine[g] = "done" /\ reply[g] = a}
Answered == {g \in Goroutines : routine[g] = "done" /\ reply[g] # NoAnswer}

\* What a goroutine has, and that it alone appends.
RoutineInv ==
    \A g \in Goroutines :
        /\ stage = "start" => routine[g] = "none"
        /\ routine[g] \in {"none", "reason"} => reply[g] = NoAnswer
        /\ routine[g] \in {"append", "write"} => reply[g] \in Answers
        /\ routine[g] = "write" <=> mutex = g
        /\ routine[g] = "write" => read[g] = samples

VotesCounted ==
    /\ \A a \in Answers : Count(a) = Cardinality(Voters(a))
    /\ Len(samples) = Cardinality(Answered)

HasMost(m) == m \in Answers /\ \A a \in Answers : Count(a) <= Count(m)

VoteOver ==
    op = "consistency" /\ stage = "answered" =>
        HasMost(majority) /\ \A g \in Goroutines : routine[g] = "done"

ReasoningIInv ==
    ReasoningTypeOK /\ OwnStages /\ TreeInv /\ RoutineInv /\ VotesCounted /\ VoteOver

LEMMA ReasoningInitInductive == ReasoningInit => ReasoningIInv
<1>. SUFFICES ASSUME ReasoningInit PROVE ReasoningIInv
  OBVIOUS
<1>. USE DEF ReasoningInit
<1>1. ReasoningTypeOK
  BY DEF ReasoningTypeOK, Replies
<1>2. OwnStages /\ VoteOver
  BY DEF OwnStages, VoteOver
<1>3. TreeInv
  BY DEF TreeInv, BestRootsKept, GreedyPaths
<1>4. RoutineInv
  BY GoroutinesAssumption DEF RoutineInv
<1>5. VotesCounted
  <2>1. Answered = {} /\ \A a : Voters(a) = {}
    BY DEF Answered, Voters
  <2>2. samples \in Seq(Answers) /\ \A a : {i \in 1..Len(samples) : samples[i] = a} = {}
    OBVIOUS
  <2>3. \A a : Count(a) = 0
    BY <2>2, CountFacts, FS_EmptySet
  <2>. QED
    BY <2>1, <2>3, FS_EmptySet DEF VotesCounted
<1>. QED
  BY <1>1, <1>2, <1>3, <1>4, <1>5 DEF ReasoningIInv

\* A step of the handler that leaves the tree alone.
LEMMA TreeKept ==
    ASSUME TreeInv, UNCHANGED <<op, tree>>,
           stage' = "expand" => stage = "expand",
           stage' = "next root" => stage \in {"next root", "expand"},
           op = "tree" /\ stage' = "answered" => stage = "answered"
    PROVE  TreeInv'
<1>1. BestRootsKept' /\ GreedyPaths'
  BY DEF TreeInv, BestRootsKept, GreedyPaths, tree
<1>2. IsBest(best) => IsBest(best)'
  BY DEF IsBest, tree
<1>. QED
  BY <1>1, <1>2 DEF TreeInv, tree

\* A step of the handler that leaves the vote alone.
LEMMA VoteKept ==
    ASSUME RoutineInv, VotesCounted, VoteOver, UNCHANGED <<op, consistency>>,
           stage' = "start" => stage = "start",
           op = "consistency" /\ stage' = "answered" => stage = "answered"
    PROVE  RoutineInv' /\ VotesCounted' /\ VoteOver'
<1>1. RoutineInv'
  BY DEF RoutineInv, consistency
<1>2. \A a : Count(a)' = Count(a)
  BY DEF Count, Quantify, consistency
<1>3. VotesCounted'
  BY <1>2 DEF VotesCounted, Voters, Answered, consistency
<1>4. VoteOver'
  BY <1>2 DEF VoteOver, HasMost, consistency
<1>. QED
  BY <1>1, <1>3, <1>4

\* The steps that only go to another stage, or count calls.
LEMMA StagesKeep ==
    ASSUME ReasoningIInv,
           FirstFails \/ SingleAnswered \/ NullThought \/ PathEnds \/ ReflectStep \/ ChainCall
    PROVE  ReasoningIInv'
<1>. USE DEF ReasoningIInv
<1>1. UNCHANGED <<op, tree, consistency>>
  BY DEF FirstFails, SingleAnswered, NullThought, PathEnds, ReflectStep, Draft, Critique,
         Revise, Reflected, ChainCall, ChainStep, ChainFails, ChainEnds
<1>2. /\ stage' \in {"start", "next root", "critique", "revise"} \cup Ended
      /\ stage' = "start" => stage = "start"
      /\ stage' = "next root" => stage = "expand"
      /\ stage' \in {"critique", "revise"} => op = "reflect"
      /\ stage' = "answered" => op \in {"single", "reflect", "chain"}
  BY DEF FirstFails, SingleAnswered, NullThought, PathEnds, ReflectStep, Draft, Critique,
         Revise, Reflected, ChainCall, ChainStep, ChainFails, ChainEnds, OwnStages, Ended
<1>3. ReasoningTypeOK'
  BY <1>1, <1>2 DEF ReasoningTypeOK, tree, consistency
<1>4. OwnStages'
  BY <1>1, <1>2 DEF OwnStages, Ended
<1>5. TreeInv'
  BY <1>1, <1>2, TreeKept DEF Ended
<1>6. RoutineInv' /\ VotesCounted' /\ VoteOver'
  BY <1>1, <1>2, VoteKept
<1>. QED
  BY <1>3, <1>4, <1>5, <1>6

-----------------------------------------------------------------------------
(***************************************************************************)
(* TreeOfThought.                                                          *)
(***************************************************************************)
LEMMA SortedFacts ==
    ASSUME NEW n \in Nat, NEW thoughts \in [1..n -> Int], NEW s \in Sorted(thoughts)
    PROVE  /\ s \in [1..n -> Int] /\ s \in Seq(Int) /\ Len(s) = n
           /\ \A i, j \in 1..n : i < j => s[i] >= s[j]
<1>1. thoughts \in Seq(Int) /\ Len(thoughts) = n
  OBVIOUS
<1>2. Cardinality(1..n) = n
  BY FS_Interval
<1>3. PICK p \in SetToSeqs(1..n) : s = [i \in 1..n |-> thoughts[p[i]]]
  BY <1>1 DEF Sorted
<1>4. p \in [1..n -> 1..n]
  BY <1>2, <1>3 DEF SetToSeqs
<1>5. s \in [1..n -> Int]
  BY <1>3, <1>4
<1>6. \A i, j \in 1..n : i < j => s[i] >= s[j]
  BY <1>1 DEF Sorted
<1>. QED
  BY <1>5, <1>6

\* The thoughts an LLM returned, with their scores.
LEMMA ThoughtsFacts ==
    ASSUME NEW thoughts \in Thoughts
    PROVE  /\ Len(thoughts) \in Nat /\ thoughts \in [1..Len(thoughts) -> Int]
           /\ thoughts # <<>> => Len(thoughts) # 0
<1>1. PICK n \in 0..MaxThoughts : thoughts \in [1..n -> Scores \cup {5}]
  BY DEF Thoughts
<1>2. n \in Nat /\ \A x \in Scores \cup {5} : x \in Int
  BY BoundsAssumption
<1>3. thoughts \in [1..n -> Int]
  BY <1>1, <1>2
<1>4. Len(thoughts) = n
  BY <1>2, <1>3
<1>. QED
  BY <1>2, <1>3, <1>4

\* The part of a sequence after the first a, up to the b-th.
LEMMA PartOfSequence ==
    ASSUME NEW n \in Nat, NEW s \in [1..n -> Int], NEW a \in 0..n, NEW b \in a..n,
           NEW u, u = SubSeq(s, a + 1, b)
    PROVE  u \in Seq(Int) /\ Len(u) = b - a /\ \A i \in 1..b - a : u[i] = s[a + i]
<1>1. /\ s \in Seq(Int) /\ Len(s) = n /\ a + 1 \in Int /\ b \in Int /\ b - a \in Nat
      /\ 1 + b - (a + 1) = b - a
  OBVIOUS
<1>2. \A i \in 1..b - a : a + i \in 1..n /\ (a + 1) + i - 1 = a + i
  OBVIOUS
<1>3. u = [i \in 1..(1 + b - (a + 1)) |-> s[(a + 1) + i - 1]]
  BY <1>1
<1>4. u = [i \in 1..b - a |-> s[a + i]]
  BY <1>1, <1>2, <1>3
<1>5. u \in [1..b - a -> Int]
  BY <1>2, <1>4
<1>. QED
  BY <1>1, <1>4, <1>5

LEMMA PlantKeeps == ASSUME ReasoningIInv, Plant PROVE ReasoningIInv'
<1>. USE DEF ReasoningIInv
<1>. DEFINE Kept(s) == IF Len(s) < Branches THEN Len(s) ELSE Branches
<1>1. PICK thoughts, s :
        /\ thoughts \in Thoughts /\ s \in Sorted(thoughts)
        /\ roots' = [kept |-> SubSeq(s, 1, Kept(s)), dropped |-> SubSeq(s, Kept(s) + 1, Len(s))]
        /\ stage' = IF Kept(s) = 0 THEN "panicked" ELSE "next root"
  BY DEF Plant
<1>2. /\ stage = "start" /\ op = "tree" /\ UNCHANGED <<op, paths, best, consistency>>
  BY DEF Plant
<1>3. PICK n \in Nat : n = Len(thoughts) /\ thoughts \in [1..n -> Int]
  BY <1>1, ThoughtsFacts
<1>4. /\ s \in [1..n -> Int] /\ s \in Seq(Int) /\ Len(s) = n
      /\ \A i, j \in 1..n : i < j => s[i] >= s[j]
  BY <1>1, <1>3, SortedFacts
<1>5. PICK k \in 0..n : k = Kept(s)
  <2>1. Branches \in Nat
    BY BoundsAssumption
  <2>. QED
    BY <1>4, <2>1
<1>. HIDE DEF Kept
<1>6. PICK u, v : u = SubSeq(s, 1, k) /\ v = SubSeq(s, k + 1, n)
  OBVIOUS
<1>7. /\ u \in Seq(Int) /\ Len(u) = k /\ \A i \in 1..k : u[i] = s[i]
      /\ v \in Seq(Int) /\ Len(v) = n - k /\ \A j \in 1..n - k : v[j] = s[k + j]
  <2>1. u = SubSeq(s, 0 + 1, k) /\ 0 \in 0..n /\ k \in 0..n /\ n \in k..n
    BY <1>6
  <2>2. u \in Seq(Int) /\ Len(u) = k - 0 /\ \A i \in 1..k - 0 : u[i] = s[0 + i]
    BY <1>4, <2>1, PartOfSequence
  <2>3. k - 0 = k /\ \A i \in 1..k : 0 + i = i
    OBVIOUS
  <2>4. v \in Seq(Int) /\ Len(v) = n - k /\ \A j \in 1..n - k : v[j] = s[k + j]
    BY <1>4, <1>6, <2>1, PartOfSequence
  <2>. QED
    BY <2>2, <2>3, <2>4
<1>8. /\ roots' = [kept |-> u, dropped |-> v] /\ roots'.kept = u /\ roots'.dropped = v
      /\ stage' = IF k = 0 THEN "panicked" ELSE "next root"
  BY <1>1, <1>4, <1>5, <1>6
<1>9. BestRootsKept'
  <2>. SUFFICES ASSUME NEW i \in 1..k, NEW j \in 1..n - k PROVE u[i] >= v[j]
    BY <1>7, <1>8 DEF BestRootsKept
  <2>1. i \in 1..n /\ k + j \in 1..n /\ i < k + j
    OBVIOUS
  <2>. QED
    BY <1>4, <1>7, <2>1
<1>10. stage' = "next root" => roots'.kept # <<>>
  BY <1>7, <1>8
<1>11. TreeInv'
  <2>1. GreedyPaths'
    BY <1>2 DEF TreeInv, GreedyPaths
  <2>. QED
    BY <1>8, <1>9, <1>10, <2>1 DEF TreeInv
<1>12. ReasoningTypeOK'
  <2>1. roots' \in [kept : Seq(Int), dropped : Seq(Int)]
    BY <1>7, <1>8
  <2>. QED
    BY <1>2, <1>8, <2>1 DEF ReasoningTypeOK, consistency, Ended
<1>13. OwnStages'
  BY <1>2, <1>8 DEF OwnStages
<1>14. RoutineInv' /\ VotesCounted' /\ VoteOver'
  BY <1>2, <1>8, VoteKept
<1>. QED
  BY <1>11, <1>12, <1>13, <1>14

LEMMA NextRootKeeps == ASSUME ReasoningIInv, NextRoot PROVE ReasoningIInv'
<1>. USE DEF ReasoningIInv
<1>. DEFINE path == <<Step(roots.kept[Len(paths) + 1], {})>>
<1>1. /\ stage = "next root" /\ stage' = "expand" /\ Len(paths) < Len(roots.kept)
      /\ paths' = Append(paths, path) /\ UNCHANGED <<op, roots, best, consistency>>
  BY DEF NextRoot
<1>2. paths \in Seq(Paths) /\ roots.kept \in Seq(Int) /\ Len(paths) \in Nat
  <2>1. paths \in Seq(Paths) /\ roots.kept \in Seq(Int)
    BY DEF ReasoningTypeOK
  <2>. QED
    BY <2>1
<1>3. path \in Paths /\ Len(path) = 1
  <2>1. roots.kept[Len(paths) + 1] \in Int
    <3>1. PICK kept \in Seq(Int) : kept = roots.kept
      BY <1>2
    <3>2. Len(paths) + 1 \in 1..Len(kept)
      <4>1. Len(kept) = Len(roots.kept) /\ Len(kept) \in Nat
        BY <3>1
      <4>2. Len(paths) < Len(kept)
        BY <1>1, <4>1
      <4>. QED
        BY <1>2, <4>1, <4>2
    <3>. QED
      BY <3>1, <3>2
  <2>2. Step(roots.kept[Len(paths) + 1], {}) \in Steps
    BY <2>1 DEF Step, Steps
  <2>. QED
    BY <2>2 DEF Paths
<1>. HIDE DEF path
<1>4. /\ paths' \in Seq(Paths) /\ Len(paths') = Len(paths) + 1 /\ paths' # <<>>
      /\ \A i \in 1..Len(paths') : paths'[i] = IF i <= Len(paths) THEN paths[i] ELSE path
  <2>1. PICK q \in Paths : q = path
    BY <1>3
  <2>2. paths' = Append(paths, q)
    BY <1>1, <2>1
  <2>3. /\ paths' \in Seq(Paths) /\ Len(paths') = Len(paths) + 1
        /\ \A i \in 1..Len(paths) + 1 : paths'[i] = IF i <= Len(paths) THEN paths[i] ELSE q
    BY <1>2, <2>2
  <2>. QED
    BY <1>2, <2>1, <2>3
<1>5. GreedyPaths'
  <2>. SUFFICES ASSUME NEW i \in 1..Len(paths'), NEW k \in 2..Len(paths'[i])
                PROVE  Greedy(paths'[i][k])
    BY DEF GreedyPaths
  <2>1. i <= Len(paths)
    <3>1. \A j : j \notin 2..1
      OBVIOUS
    <3>. QED
      BY <1>3, <1>4, <3>1
  <2>2. i \in 1..Len(paths) /\ paths'[i] = paths[i]
    BY <1>2, <1>4, <2>1
  <2>. QED
    BY <2>2 DEF TreeInv, GreedyPaths
<1>6. TreeInv'
  BY <1>1, <1>4, <1>5 DEF TreeInv, BestRootsKept
<1>7. ReasoningTypeOK'
  BY <1>1, <1>4 DEF ReasoningTypeOK, consistency
<1>8. OwnStages'
  BY <1>1 DEF OwnStages
<1>9. RoutineInv' /\ VotesCounted' /\ VoteOver'
  BY <1>1, VoteKept
<1>. QED
  BY <1>6, <1>7, <1>8, <1>9

LEMMA ExpandKeeps == ASSUME ReasoningIInv, Expand PROVE ReasoningIInv'
<1>. USE DEF ReasoningIInv
<1>1. stage = "expand" /\ UNCHANGED <<op, stage, roots, best, consistency>>
  BY DEF Expand
<1>2. PICK thoughts, step :
        /\ thoughts \in Thoughts /\ thoughts # <<>>
        /\ step = Step(BestThought(thoughts), ToSet(thoughts))
        /\ paths' = [paths EXCEPT ![Len(paths)] = Append(@, step)]
  BY DEF Expand
<1>3. step \in Steps /\ Greedy(step)
  <2>1. PICK n \in Nat \ {0} : n = Len(thoughts) /\ thoughts \in [1..n -> Int]
    BY <1>2, ThoughtsFacts
  <2>2. BestThought(thoughts) \in Int /\ Greedy(step)
    BY <1>2, <2>1, BestThoughtIsGreedy
  <2>3. ToSet(thoughts) \in SUBSET Int
    BY <2>1 DEF ToSet
  <2>. QED
    BY <1>2, <2>2, <2>3 DEF Step, Steps
<1>4. /\ paths \in Seq(Paths) /\ Len(paths) \in Nat /\ Len(paths) \in 1..Len(paths)
  BY <1>1 DEF ReasoningTypeOK, TreeInv
<1>5. PICK last \in Paths : last = paths[Len(paths)]
  BY <1>4
<1>6. /\ last \in Seq(Steps) /\ Len(last) \in Nat \ {0}
      /\ Append(last, step) \in Paths /\ Len(Append(last, step)) = Len(last) + 1
      /\ \A k \in 1..Len(last) + 1 :
            Append(last, step)[k] = IF k <= Len(last) THEN last[k] ELSE step
  BY <1>3 DEF Paths
<1>7. /\ paths' \in Seq(Paths) /\ Len(paths') = Len(paths)
      /\ \A i \in 1..Len(paths) :
            paths'[i] = IF i = Len(paths) THEN Append(last, step) ELSE paths[i]
  BY <1>2, <1>4, <1>5, <1>6
<1>8. GreedyPaths'
  <2>. SUFFICES ASSUME NEW i \in 1..Len(paths), NEW k \in 2..Len(paths'[i])
                PROVE  Greedy(paths'[i][k])
    BY <1>7 DEF GreedyPaths
  <2>1. \A j \in 1..Len(paths) : \A l \in 2..Len(paths[j]) : Greedy(paths[j][l])
    BY DEF TreeInv, GreedyPaths
  <2>2. CASE i = Len(paths)
    <3>1. paths'[i] = Append(last, step)
      BY <1>7, <2>2
    <3>2. k \in 2..Len(last) + 1 /\ k \in 1..Len(last) + 1
      BY <1>6, <3>1
    <3>3. CASE k <= Len(last)
      <4>1. k \in 2..Len(last) /\ paths'[i][k] = last[k]
        BY <1>6, <3>1, <3>2, <3>3
      <4>. QED
        BY <1>5, <2>1, <2>2, <4>1
    <3>4. CASE ~(k <= Len(last))
      BY <1>3, <1>6, <3>1, <3>2, <3>4
    <3>. QED
      BY <3>3, <3>4
  <2>3. CASE i # Len(paths)
    BY <1>7, <2>1, <2>3
  <2>. QED
    BY <2>2, <2>3
<1>9. TreeInv'
  <2>1. paths' # <<>>
    BY <1>4, <1>7
  <2>. QED
    BY <1>1, <1>8, <2>1 DEF TreeInv, BestRootsKept
<1>10. ReasoningTypeOK'
  BY <1>1, <1>7 DEF ReasoningTypeOK, consistency
<1>11. OwnStages'
  BY <1>1 DEF OwnStages
<1>12. RoutineInv' /\ VotesCounted' /\ VoteOver'
  BY <1>1, VoteKept
<1>. QED
  BY <1>9, <1>10, <1>11, <1>12

LEMMA SelectBestKeeps == ASSUME ReasoningIInv, SelectBest PROVE ReasoningIInv'
<1>. USE DEF ReasoningIInv
<1>1. /\ stage = "next root" /\ Len(paths) = Len(roots.kept) /\ best' = BestPath
      /\ stage' = "answered" /\ UNCHANGED <<op, roots, paths, consistency>>
  BY DEF SelectBest
<1>2. paths \in Seq(Paths) /\ paths # <<>>
  <2>1. paths \in Seq(Paths) /\ roots.kept \in Seq(Int) /\ roots.kept # <<>>
    BY <1>1 DEF ReasoningTypeOK, TreeInv
  <2>2. PICK kept \in Seq(Int) : kept = roots.kept
    BY <2>1
  <2>3. Len(kept) # 0
    BY <2>1, <2>2
  <2>. QED
    BY <1>1, <2>1, <2>2, <2>3
<1>3. IsBest(best)'
  <2>1. IsBest(BestPath)
    BY <1>2, BestPathIsBest
  <2>. QED
    BY <1>1, <2>1 DEF IsBest
<1>4. TreeInv'
  BY <1>1, <1>3 DEF TreeInv, BestRootsKept, GreedyPaths
<1>5. ReasoningTypeOK'
  BY <1>1 DEF ReasoningTypeOK, consistency, Ended
<1>6. OwnStages' /\ op = "tree"
  BY <1>1 DEF OwnStages
<1>7. RoutineInv' /\ VotesCounted' /\ VoteOver'
  BY <1>1, <1>6, VoteKept
<1>. QED
  BY <1>4, <1>5, <1>6, <1>7

-----------------------------------------------------------------------------
(***************************************************************************)
(* SelfConsistency.                                                        *)
(***************************************************************************)
LEMMA GoroutineSets ==
    ASSUME NEW S \in SUBSET Goroutines PROVE IsFiniteSet(S) /\ Cardinality(S) \in Nat
  BY GoroutinesAssumption, FS_Subset, FS_CardinalityType

LEMMA GoKeeps == ASSUME ReasoningIInv, Go PROVE ReasoningIInv'
<1>. USE DEF ReasoningIInv
<1>1. /\ stage = "start" /\ op = "consistency" /\ stage' = "wait"
      /\ routine' = [g \in Goroutines |-> "reason"]
      /\ UNCHANGED <<op, tree, reply, mutex, read, samples, majority>>
  BY DEF Go
<1>2. \A g \in Goroutines : routine[g] = "none" /\ routine'[g] = "reason"
  BY <1>1 DEF RoutineInv
<1>3. ReasoningTypeOK' /\ OwnStages'
  BY <1>1 DEF ReasoningTypeOK, OwnStages, tree
<1>4. TreeInv'
  BY <1>1, TreeKept
<1>5. RoutineInv'
  BY <1>1, <1>2 DEF RoutineInv
<1>6. VotesCounted'
  <2>1. Answered' = Answered /\ \A a : Voters(a)' = Voters(a)
    BY <1>1, <1>2 DEF Answered, Voters
  <2>2. \A a : Count(a)' = Count(a)
    BY <1>1 DEF Count, Quantify
  <2>. QED
    BY <1>1, <2>1, <2>2 DEF VotesCounted
<1>7. VoteOver'
  BY <1>1 DEF VoteOver
<1>. QED
  BY <1>3, <1>4, <1>5, <1>6, <1>7

\* A goroutine that is not done before its step: an answered request has none.
LEMMA VoteStillOpen ==
    ASSUME VoteOver, NEW g \in Goroutines, routine[g] # "done", UNCHANGED <<op, stage>>
    PROVE  VoteOver'
  BY DEF VoteOver

LEMMA ReasonKeeps ==
    ASSUME ReasoningIInv, NEW g \in Goroutines, Reason(g) \/ ReasonFails(g) \/ Lock(g)
    PROVE  ReasoningIInv'
<1>. USE DEF ReasoningIInv
<1>1. UNCHANGED <<op, stage, tree, samples, majority>> /\ routine[g] \in {"reason", "append"}
  BY DEF Reason, ReasonFails, Lock
<1>2. \E next \in {"append", "done", "write"} : routine' = [routine EXCEPT ![g] = next]
  BY DEF Reason, ReasonFails, Lock
<1>3. PICK next \in {"append", "done", "write"} : routine' = [routine EXCEPT ![g] = next]
  BY <1>2
<1>4. /\ \A h \in Goroutines : routine'[h] = IF h = g THEN next ELSE routine[h]
      /\ \A h \in Goroutines : h # g => reply'[h] = reply[h]
      /\ next = "done" => reply'[g] = NoAnswer
  BY <1>3 DEF Reason, ReasonFails, Lock, ReasoningTypeOK, RoutineInv
<1>5. ReasoningTypeOK'
  BY <1>1, <1>3, ZenonT(30) DEF ReasoningTypeOK, tree, Reason, ReasonFails, Lock, Replies
<1>6. OwnStages' /\ TreeInv'
  BY <1>1, TreeKept DEF OwnStages
<1>7. RoutineInv'
  <2>1. CASE Reason(g) \/ ReasonFails(g)
    BY <2>1 DEF RoutineInv, ReasoningTypeOK, Reason, ReasonFails
  <2>2. CASE Lock(g)
    BY <2>2, GoroutinesAssumption DEF RoutineInv, ReasoningTypeOK, Lock, Free
  <2>. QED
    BY <2>1, <2>2
<1>8. VotesCounted'
  <2>1. ASSUME NEW h \in Goroutines
        PROVE  /\ h \in Answered' <=> h \in Answered
               /\ \A a \in Answers : h \in Voters(a)' <=> h \in Voters(a)
    BY <1>1, <1>4, AnswersAssumption DEF Answered, Voters
  <2>2. Answered' = Answered /\ \A a \in Answers : Voters(a)' = Voters(a)
    BY <2>1 DEF Answered, Voters
  <2>3. \A a : Count(a)' = Count(a)
    BY <1>1 DEF Count, Quantify
  <2>. QED
    BY <1>1, <2>2, <2>3 DEF VotesCounted
<1>9. VoteOver'
  BY <1>1, VoteStillOpen
<1>. QED
  BY <1>5, <1>6, <1>7, <1>8, <1>9

Occurs(s, a) == Cardinality({i \in DOMAIN s : s[i] = a})

\* One more of x, and as many of the others.
LEMMA CountAppended ==
    ASSUME NEW s \in Seq(Answers), NEW x \in Answers, NEW a \in Answers
    PROVE  /\ x = a => Occurs(Append(s, x), a) = Occurs(s, a) + 1
           /\ x # a => Occurs(Append(s, x), a) = Occurs(s, a)
<1>. DEFINE n == Len(s)
            C == {i \in DOMAIN s : s[i] = a}
            D == {i \in DOMAIN Append(s, x) : Append(s, x)[i] = a}
<1>1. /\ n \in Nat /\ DOMAIN s = 1..n /\ DOMAIN Append(s, x) = 1..n + 1
      /\ \A i \in 1..n : Append(s, x)[i] = s[i]
      /\ Append(s, x)[n + 1] = x
  OBVIOUS
<1>2. IsFiniteSet(C) /\ Cardinality(C) \in Nat
  <2>1. C \subseteq 1..n
    BY <1>1
  <2>2. IsFiniteSet(1..n)
    BY <1>1, FS_Interval
  <2>. QED
    BY <2>1, <2>2, FS_Subset, FS_CardinalityType
<1>3. \A i \in 1..n : i # n + 1 /\ i \in 1..n + 1
  BY <1>1
<1>4. \A i \in 1..n + 1 : i \in 1..n \/ i = n + 1
  BY <1>1
<1>5. n + 1 \in 1..n + 1 /\ n + 1 \notin 1..n
  BY <1>1
<1>. HIDE DEF n
<1>6. CASE x = a
  <2>1. D = C \cup {n + 1} /\ n + 1 \notin C
    BY <1>1, <1>3, <1>4, <1>5, <1>6
  <2>2. Cardinality(D) = Cardinality(C) + 1
    BY <1>2, <2>1, FS_AddElement
  <2>. QED
    BY <1>6, <2>2 DEF Occurs
<1>7. CASE x # a
  <2>1. D = C
    BY <1>1, <1>3, <1>4, <1>5, <1>7
  <2>. QED
    BY <1>7, <2>1 DEF Occurs
<1>. QED
  BY <1>6, <1>7

LEMMA WriteBackKeeps ==
    ASSUME ReasoningIInv, NEW g \in Goroutines, WriteBack(g) PROVE ReasoningIInv'
<1>. USE DEF ReasoningIInv
<1>1. /\ routine[g] = "write" /\ mutex' = Nobody
      /\ samples' = Append(read[g], reply[g])
      /\ routine' = [routine EXCEPT ![g] = "done"]
      /\ UNCHANGED <<op, stage, tree, reply, read, majority>>
  BY DEF WriteBack
<1>2. /\ samples \in Seq(Answers) /\ reply[g] \in Answers /\ mutex = g
      /\ samples' = Append(samples, reply[g])
  BY <1>1 DEF RoutineInv, ReasoningTypeOK
<1>3. \A h \in Goroutines : routine'[h] = IF h = g THEN "done" ELSE routine[h]
  BY <1>1 DEF ReasoningTypeOK
<1>4. ReasoningTypeOK'
  <2>1. samples' \in Seq(Answers)
    BY <1>2
  <2>. QED
    BY <1>1, <2>1 DEF ReasoningTypeOK, tree
<1>5. OwnStages' /\ TreeInv'
  BY <1>1, TreeKept DEF OwnStages
<1>6. RoutineInv'
  BY <1>1, <1>2, <1>3, GoroutinesAssumption DEF RoutineInv
<1>7. ASSUME NEW a \in Answers PROVE Count(a)' = Cardinality(Voters(a)')
  <2>1. Count(a) = Cardinality(Voters(a)) /\ Count(a) \in Nat
    BY <1>2, CountFacts DEF VotesCounted
  <2>2. /\ reply[g] = a => Count(a)' = Count(a) + 1
        /\ reply[g] # a => Count(a)' = Count(a)
    <3>1. Count(a) = Occurs(samples, a) /\ Count(a)' = Occurs(Append(samples, reply[g]), a)
      BY <1>2 DEF Count, Quantify, Occurs
    <3>. QED
      BY <1>2, <3>1, CountAppended
  <2>3. CASE reply[g] = a
    <3>1. ASSUME NEW h \in Goroutines
          PROVE  h \in Voters(a)' <=> h \in Voters(a) \cup {g}
      BY <1>1, <1>3, <2>3 DEF Voters
    <3>2. Voters(a)' = Voters(a) \cup {g} /\ g \notin Voters(a)
      BY <1>1, <3>1 DEF Voters
    <3>3. IsFiniteSet(Voters(a))
      BY GoroutineSets DEF Voters
    <3>4. Cardinality(Voters(a)') = Cardinality(Voters(a)) + 1
      BY <3>2, <3>3, FS_AddElement
    <3>. QED
      BY <2>1, <2>2, <2>3, <3>4
  <2>4. CASE reply[g] # a
    <3>1. ASSUME NEW h \in Goroutines PROVE h \in Voters(a)' <=> h \in Voters(a)
      BY <1>1, <1>3, <2>4 DEF Voters
    <3>2. Voters(a)' = Voters(a)
      BY <3>1 DEF Voters
    <3>. QED
      BY <2>1, <2>2, <2>4, <3>2
  <2>. QED
    BY <2>3, <2>4
<1>8. Len(samples') = Cardinality(Answered')
  <2>1. ASSUME NEW h \in Goroutines PROVE h \in Answered' <=> h \in Answered \cup {g}
    BY <1>1, <1>2, <1>3, AnswersAssumption DEF Answered
  <2>2. Answered' = Answered \cup {g} /\ g \notin Answered
    BY <1>1, <2>1 DEF Answered
  <2>3. IsFiniteSet(Answered)
    BY GoroutineSets DEF Answered
  <2>4. Cardinality(Answered') = Cardinality(Answered) + 1
    BY <2>2, <2>3, FS_AddElement
  <2>5. Len(samples') = Len(samples) + 1
    BY <1>2
  <2>. QED
    BY <2>4, <2>5 DEF VotesCounted
<1>9. VotesCounted'
  BY <1>7, <1>8 DEF VotesCounted
<1>10. VoteOver'
  BY <1>1, VoteStillOpen
<1>. QED
  BY <1>4, <1>5, <1>6, <1>9, <1>10

LEMMA MajorityKeeps == ASSUME ReasoningIInv, Majority PROVE ReasoningIInv'
<1>. USE DEF ReasoningIInv
<1>1. /\ stage = "wait" /\ \A g \in Goroutines : routine[g] = "done"
      /\ UNCHANGED <<op, tree, routine, reply, mutex, read, samples>>
      /\ stage' \in {"failed", "answered"}
  BY DEF Majority
<1>2. op = "consistency" /\ samples \in Seq(Answers)
  BY <1>1 DEF OwnStages, ReasoningTypeOK
<1>3. ReasoningTypeOK' /\ OwnStages'
  BY <1>1 DEF ReasoningTypeOK, OwnStages, tree, Ended
<1>4. TreeInv'
  BY <1>1, <1>2, TreeKept
<1>5. \A a : Count(a)' = Count(a)
  BY <1>1 DEF Count, Quantify
<1>6. RoutineInv' /\ VotesCounted'
  BY <1>1, <1>5 DEF RoutineInv, VotesCounted, Voters, Answered
<1>7. ASSUME stage' = "answered" PROVE HasMost(majority')
  <2>1. samples # <<>> /\ \E order \in SetToSeqs(ToSet(samples)) : majority' = Winner(order)
    BY <1>7 DEF Majority
  <2>2. PICK order \in SetToSeqs(ToSet(samples)) : majority' = Winner(order)
    BY <2>1
  <2>3. /\ DOMAIN samples = 1..Len(samples) /\ Len(samples) \in Nat /\ 1 \in DOMAIN samples
        /\ \A i \in DOMAIN samples : samples[i] \in Answers
    BY <1>2, <2>1
  <2>4. PICK given : given = ToSet(samples)
    OBVIOUS
  <2>5. given \subseteq Answers /\ IsFiniteSet(given)
    <3>1. \A a \in given : a \in Answers /\ \E i \in DOMAIN samples : samples[i] = a
      BY <2>3, <2>4 DEF ToSet
    <3>2. samples \in [1..Len(samples) -> given]
      BY <1>2, <2>3, <2>4 DEF ToSet
    <3>3. samples \in Surjection(1..Len(samples), given)
      BY <2>3, <3>1, <3>2 DEF Surjection
    <3>4. IsFiniteSet(1..Len(samples))
      BY <2>3, FS_Interval
    <3>. QED
      BY <3>1, <3>3, <3>4, FS_Surjection
  <2>6. order \in Seq(given) /\ ToSet(order) = given
    BY <2>2, <2>4, <2>5, RankingOfSet
  <2>7. PICK n \in Nat : n = Len(order) /\ order \in [1..n -> given]
    BY <2>6
  <2>8. \A a \in given : \E k \in 1..n : order[k] = a
    BY <2>6, <2>7 DEF ToSet
  <2>9. order \in [1..n -> Answers]
    BY <2>5, <2>7
  <2>10. PICK m \in Replies : /\ m = majority'
                              /\ \A k \in 1..n : Count(order[k]) <= Count(m)
    BY <1>2, <2>2, <2>9, WinnerHasMost
  <2>11. \A a : Count(a) \in Nat
    BY <1>2, CountFacts
  <2>12. ASSUME NEW a, \A i \in 1..Len(samples) : samples[i] # a PROVE Count(a) = 0
    <3>1. {i \in 1..Len(samples) : samples[i] = a} = {}
      BY <2>12
    <3>. QED
      BY <1>2, <3>1, CountFacts, FS_EmptySet
  <2>13. ASSUME NEW a \in Answers PROVE Count(a) <= Count(m)
    <3>1. CASE a \in given
      BY <2>8, <2>10, <3>1
    <3>2. CASE a \notin given
      <4>1. Count(a) = 0
        BY <2>3, <2>4, <2>12, <3>2 DEF ToSet
      <4>. QED
        BY <2>11, <4>1
    <3>. QED
      BY <3>1, <3>2
  <2>14. m # NoAnswer
    <3>1. Count(samples[1]) # 0
      <4>1. 1 \in {i \in 1..Len(samples) : samples[i] = samples[1]}
        BY <2>3
      <4>2. {i \in 1..Len(samples) : samples[i] = samples[1]} # {}
        BY <4>1
      <4>. QED
        BY <1>2, <4>2, CountFacts, FS_EmptySet
    <3>2. Count(NoAnswer) = 0
      BY <2>3, <2>12, AnswersAssumption
    <3>3. Count(samples[1]) <= Count(m)
      BY <2>3, <2>13
    <3>. QED
      BY <2>11, <3>1, <3>2, <3>3
  <2>. QED
    BY <2>10, <2>13, <2>14 DEF HasMost, Replies
<1>8. VoteOver'
  BY <1>1, <1>5, <1>7 DEF VoteOver, HasMost
<1>. QED
  BY <1>3, <1>4, <1>6, <1>8

-----------------------------------------------------------------------------
LEMMA ReasoningNextInductive == ReasoningIInv /\ [ReasoningNext]_reasoningVars => ReasoningIInv'
<1>. SUFFICES ASSUME ReasoningIInv, [ReasoningNext]_reasoningVars PROVE ReasoningIInv'
  OBVIOUS
<1>1. CASE HandlerStep
  <2>1. CASE FirstFails \/ SingleAnswered \/ NullThought \/ PathEnds \/ ReflectStep \/ ChainCall
    BY <2>1, StagesKeep
  <2>2. CASE Plant \/ NextRoot \/ Expand \/ SelectBest
    BY <2>2, PlantKeeps, NextRootKeeps, ExpandKeeps, SelectBestKeeps
  <2>3. CASE Go \/ Majority
    BY <2>3, GoKeeps, MajorityKeeps
  <2>. QED
    BY <1>1, <2>1, <2>2, <2>3 DEF HandlerStep, TreeStep
<1>2. CASE \E g \in Goroutines : Goroutine(g)
  BY <1>2, ReasonKeeps, WriteBackKeeps DEF Goroutine
<1>3. CASE UNCHANGED reasoningVars
  <2>1. UNCHANGED <<op, stage, tree, consistency>>
    BY <1>3 DEF reasoningVars
  <2>2. ReasoningTypeOK' /\ OwnStages'
    BY <2>1 DEF ReasoningIInv, ReasoningTypeOK, OwnStages, tree, consistency
  <2>3. TreeInv'
    BY <2>1, TreeKept DEF ReasoningIInv
  <2>4. RoutineInv' /\ VotesCounted' /\ VoteOver'
    BY <2>1, VoteKept DEF ReasoningIInv
  <2>. QED
    BY <2>2, <2>3, <2>4 DEF ReasoningIInv
<1>. QED
  BY <1>1, <1>2, <1>3 DEF ReasoningNext, ReasoningOver

\* The invariant of all reasoning requests, whatever the LLM returns and however the
\* goroutines of a SelfConsistency interleave.
THEOREM ReasoningInductive == ReasoningSpec => []ReasoningIInv
  BY ReasoningInitInductive, ReasoningNextInductive, PTL DEF ReasoningSpec

LEMMA PlaceOfElement ==
    ASSUME NEW S, NEW seq \in Seq(S), NEW e \in ToSet(seq)
    PROVE  \E i \in 1..Len(seq) : e = seq[i]
  BY DEF ToSet

\* TreeOfThought.Reason drops no thought that beats one it keeps, expandPath takes the
\* best of the thoughts it is given (unless none is above 0), and the path that is
\* returned has the best mean of its steps' scores: for any branching, depth and scores.
THEOREM TreeTakesTheBest == ReasoningSpec => []TreeIsGreedy
<1>1. ReasoningIInv => TreeIsGreedy
  <2>. SUFFICES ASSUME ReasoningIInv PROVE TreeIsGreedy
    OBVIOUS
  <2>. USE DEF ReasoningIInv
  <2>0. paths \in Seq(Paths)
    BY DEF ReasoningTypeOK
  <2>1. ASSUME NEW s \in ToSet(roots.kept), NEW d \in ToSet(roots.dropped) PROVE s >= d
    <3>1. PICK u, v : u \in Seq(Int) /\ v \in Seq(Int) /\ u = roots.kept /\ v = roots.dropped
      BY DEF ReasoningTypeOK
    <3>2. PICK i \in 1..Len(u), j \in 1..Len(v) : s = u[i] /\ d = v[j]
      <4>1. s \in ToSet(u) /\ d \in ToSet(v)
        BY <3>1
      <4>2. \E i \in 1..Len(u) : s = u[i]
        BY <3>1, <4>1, PlaceOfElement
      <4>3. \E j \in 1..Len(v) : d = v[j]
        BY <3>1, <4>1, PlaceOfElement
      <4>. QED
        BY <4>2, <4>3
    <3>. QED
      BY <3>1, <3>2 DEF TreeInv, BestRootsKept
  <2>2. ASSUME NEW path \in ToSet(paths), NEW step \in ToSet(Tail(path)) PROVE Greedy(step)
    <3>1. PICK i \in 1..Len(paths) : path = paths[i]
      BY <2>0, PlaceOfElement
    <3>2. path \in Seq(Steps) /\ path # <<>>
      BY <2>0, <3>1 DEF Paths
    <3>3. /\ Tail(path) \in Seq(Steps) /\ Len(Tail(path)) = Len(path) - 1
          /\ \A k \in 1..Len(path) - 1 : Tail(path)[k] = path[k + 1]
      BY <3>2
    <3>4. PICK k \in 1..Len(path) - 1 : step = path[k + 1]
      <4>1. PICK rest \in Seq(Steps) : rest = Tail(path)
        BY <3>3
      <4>2. PICK k \in 1..Len(rest) : step = rest[k]
        BY <4>1, PlaceOfElement
      <4>. QED
        BY <3>3, <4>1, <4>2
    <3>5. k + 1 \in 2..Len(path)
      BY <3>2
    <3>. QED
      BY <3>1, <3>4, <3>5 DEF TreeInv, GreedyPaths
  <2>3. ASSUME op = "tree", stage = "answered", NEW path \in ToSet(paths)
        PROVE  Total(path) * Len(paths[best]) <= Total(paths[best]) * Len(path)
    <3>1. PICK i \in 1..Len(paths) : path = paths[i]
      BY <2>0, PlaceOfElement
    <3>. QED
      BY <2>3, <3>1 DEF TreeInv, IsBest
  <2>. QED
    BY <2>1, <2>2, <2>3 DEF TreeIsGreedy, Greedy
<1>. QED
  BY <1>1, ReasoningInductive, PTL

\* SelfConsistency.Reason returns an answer that no other outnumbers among the answers
\* the goroutines got, and loses no sample: for any number of goroutines and any answers.
THEOREM VoteIsOfAll == ReasoningSpec => []MajorityOfAll
<1>1. ReasoningIInv => MajorityOfAll
  <2>. SUFFICES ASSUME ReasoningIInv, op = "consistency", stage = "answered"
                PROVE  /\ \A a \in Answers : Cardinality({g \in Goroutines : reply[g] = a})
                                    <= Cardinality({g \in Goroutines : reply[g] = majority})
                       /\ Len(samples) = Cardinality(Goroutines)
                                    - Cardinality({g \in Goroutines : reply[g] = NoAnswer})
    BY DEF MajorityOfAll
  <2>. USE DEF ReasoningIInv
  <2>1. HasMost(majority) /\ \A g \in Goroutines : routine[g] = "done"
    BY DEF VoteOver
  <2>2. \A a : Voters(a) = {g \in Goroutines : reply[g] = a}
    BY <2>1 DEF Voters
  <2>3. \A a \in Answers : Cardinality({g \in Goroutines : reply[g] = a}) = Count(a)
    BY <2>2 DEF VotesCounted
  <2>. DEFINE None == {g \in Goroutines : reply[g] = NoAnswer}
  <2>4. Answered = Goroutines \ None
    BY <2>1 DEF Answered
  <2>5. /\ IsFiniteSet(Goroutines) /\ None \subseteq Goroutines
        /\ Cardinality(Goroutines) \in Nat /\ Cardinality(None) \in Nat
    BY GoroutineSets
  <2>6. Cardinality(Answered) = Cardinality(Goroutines) - Cardinality(None)
    <3>1. Goroutines \cap None = None
      BY <2>5
    <3>2. Cardinality(Goroutines \ None) = Cardinality(Goroutines) - Cardinality(Goroutines \cap None)
      BY <2>5, FS_Difference
    <3>. QED
      BY <2>4, <3>1, <3>2
  <2>. QED
    BY <2>1, <2>3, <2>6 DEF HasMost, VotesCounted
<1>. QED
  BY <1>1, ReasoningInductive, PTL
=============================================================================
