------------------------- MODULE ConversationProofs -------------------------
(***************************************************************************)
(* What a summary memory stands for, for any number of agents and callers,   *)
(* any plan of a discussion and any limit of the memory.                     *)
(***************************************************************************)
EXTENDS Conversation, FoldFacts, SequenceTheorems

\* seq numbers the last entries up to high: all those after low, unless there is a gap.
IsEnd(seq, low, high, gap) ==
    \E k \in low..high : seq = Numbers(k, high) /\ (gap \/ k = low)

TypeOK ==
    /\ said \in [Agents -> Seq(Nat)]
    /\ cleared \in [Agents -> Nat]
    /\ blanked \in [Agents -> BOOLEAN]
    /\ mutex \in [Agents -> Callers \cup {Nobody}]
    /\ after \in [Callers -> {"start", "recall", "return"}]
    /\ kind \in [Agents -> {"buffer", "window", "summary"}]
    /\ DOMAIN entries = Agents /\ DOMAIN summary = Agents
    /\ DOMAIN pc = Callers /\ DOMAIN turns = Callers /\ DOMAIN batch = Callers

\* What summarize sends: the summary and the older half of the entries.
Sent(s, e) == s \o SubSeq(e, 1, Len(e) \div 2)

\* During the LLM call of a summary its caller has the mutex, so what it sent is still
\* the summary and the older half of the entries.
Summarizing ==
    \A c \in Callers, a \in Agents : pc[c] = "fold" /\ Agent(c) = a =>
        /\ mutex[a] = c /\ kind[a] = "summary"
        /\ batch[c] = Sent(summary[a], entries[a])

\* Summary and entries are an end of the conversation.
Faithful ==
    \A a \in Agents : kind[a] = "summary" =>
        /\ summary[a] \in Seq(Nat) /\ entries[a] \in Seq(Nat)
        /\ IsEnd(summary[a] \o entries[a], cleared[a], Len(said[a]), blanked[a])

\* What the text from the i-th entry on costs, and whether that entry is to be kept.
Cost(sizes, i) == TotalTokens(sizes, Numbers(i - 1, Len(sizes)))
Kept(k, sizes, i) ==
    IF k = "buffer" THEN i > Len(sizes) - MaxSize
    ELSE i = Len(sizes) \/ Cost(sizes, i) <= MaxTokens

\* The entries are an end of the conversation, and the right one.
IsRecent(k, sizes, low, e) ==
    \E m \in low..Len(sizes) :
        /\ e = Numbers(m, Len(sizes))
        /\ \A i \in low + 1..Len(sizes) : i > m <=> Kept(k, sizes, i)

Recent == \A a \in Agents :
    kind[a] # "summary" => IsRecent(kind[a], said[a], cleared[a], entries[a])

IInv == TypeOK /\ Summarizing /\ Faithful /\ Recent

-----------------------------------------------------------------------------
(***************************************************************************)
(* Ends of a conversation.                                                 *)
(***************************************************************************)

LEMMA NumbersAppended ==
  ASSUME NEW k \in Nat, NEW high \in Nat, k <= high
  PROVE  Append(Numbers(k, high), high + 1) = Numbers(k, high + 1)
<1>1. Numbers(k, high) \in Seq(Nat) /\ Len(Numbers(k, high)) = high - k
  BY DEF Numbers
<1>2. Numbers(k, high + 1) \in Seq(Nat) /\ Len(Numbers(k, high + 1)) = high - k + 1
  BY DEF Numbers
<1>3. /\ Append(Numbers(k, high), high + 1) \in Seq(Nat)
      /\ Len(Append(Numbers(k, high), high + 1)) = high - k + 1
      /\ \A i \in 1..high - k : Append(Numbers(k, high), high + 1)[i] = Numbers(k, high)[i]
      /\ Append(Numbers(k, high), high + 1)[high - k + 1] = high + 1
  BY <1>1, AppendProperties, high + 1 \in Nat
<1>4. ASSUME NEW i \in 1..high - k + 1
      PROVE  Append(Numbers(k, high), high + 1)[i] = Numbers(k, high + 1)[i]
  <2>1. Numbers(k, high + 1)[i] = k + i
    BY DEF Numbers
  <2>2. CASE i = high - k + 1
    BY <1>3, <2>1, <2>2
  <2>3. CASE i \in 1..high - k
    BY <1>3, <2>1, <2>3 DEF Numbers
  <2>4. high - k \in Nat /\ (i = high - k + 1 \/ i \in 1..high - k)
    OBVIOUS
  <2>. QED
    BY <2>2, <2>3, <2>4
<1>. QED
  BY <1>2, <1>3, <1>4, SeqEqual

\* The next entry prolongs an end.
LEMMA EndAppended ==
  ASSUME NEW s \in Seq(Nat), NEW e \in Seq(Nat), NEW low \in Nat, NEW high \in Nat, NEW gap \in BOOLEAN,
         IsEnd(s \o e, low, high, gap)
  PROVE  IsEnd(s \o Append(e, high + 1), low, high + 1, gap)
<1>1. PICK k \in low..high : s \o e = Numbers(k, high) /\ (gap \/ k = low)
  BY DEF IsEnd
<1>2. k \in Nat /\ k <= high /\ k \in low..(high + 1)
  OBVIOUS
<1>3. s \o Append(e, high + 1) = Append(s \o e, high + 1)
  <2>1. /\ s \o Append(e, high + 1) = s \o (e \o <<high + 1>>)
        /\ Append(s \o e, high + 1) = (s \o e) \o <<high + 1>>
    BY ConcatProperties, AppendIsConcat, high + 1 \in Nat
  <2>2. (s \o e) \o <<high + 1>> = s \o (e \o <<high + 1>>)
    BY ConcatAssociative, <<high + 1>> \in Seq(Nat), SMTT(30)
  <2>. QED
    BY <2>1, <2>2
<1>4. Append(Numbers(k, high), high + 1) = Numbers(k, high + 1)
  BY <1>2, NumbersAppended
<1>. QED
  BY <1>1, <1>2, <1>3, <1>4 DEF IsEnd

LEMMA Half ==
  ASSUME NEW n \in Nat
  PROVE  n \div 2 \in 0..n
  OBVIOUS

\* Folding a first part of the entries into the summary loses nothing.
LEMMA Folding ==
  ASSUME NEW s \in Seq(Nat), NEW e \in Seq(Nat), NEW h \in 0..Len(e)
  PROVE  /\ s \o SubSeq(e, 1, h) \in Seq(Nat) /\ LastFrom(e, h + 1) \in Seq(Nat)
         /\ (s \o SubSeq(e, 1, h)) \o LastFrom(e, h + 1) = s \o e
<1>1. /\ SubSeq(e, 1, h) \in Seq(Nat) /\ SubSeq(e, h + 1, Len(e)) \in Seq(Nat)
      /\ s \o SubSeq(e, 1, h) \in Seq(Nat)
  OBVIOUS
<1>2. SubSeq(e, 1, h) \o SubSeq(e, h + 1, Len(e)) = e
  <2>1. 1 \in 1..Len(e) + 1 /\ h \in 1 - 1..Len(e) /\ Len(e) \in h..Len(e)
    OBVIOUS
  <2>2. SubSeq(e, 1, h) \o SubSeq(e, h + 1, Len(e)) = SubSeq(e, 1, Len(e))
    BY <2>1, ConcatAdjacentSubSeq
  <2>. QED
    BY <2>2, SubSeqFull
<1>3. (s \o SubSeq(e, 1, h)) \o SubSeq(e, h + 1, Len(e)) = s \o (SubSeq(e, 1, h) \o SubSeq(e, h + 1, Len(e)))
  <2>. DEFINE t == SubSeq(e, 1, h)
              u == SubSeq(e, h + 1, Len(e))
  <2>1. t \in Seq(Nat) /\ u \in Seq(Nat)
    BY <1>1
  <2>. HIDE DEF t, u
  <2>2. (s \o t) \o u = s \o (t \o u)
    BY <2>1, ConcatAssociative, SMTT(30)
  <2>. QED
    BY <2>2 DEF t, u
<1>. QED
  BY <1>1, <1>2, <1>3 DEF LastFrom

\* Without the summary the rest of the entries is still an end.
LEMMA EndForgotten ==
  ASSUME NEW s \in Seq(Nat), NEW e \in Seq(Nat), NEW h \in 0..Len(e),
         NEW low \in Nat, NEW high \in Nat, NEW gap \in BOOLEAN, IsEnd(s \o e, low, high, gap)
  PROVE  IsEnd(<<>> \o LastFrom(e, h + 1), low, high, TRUE)
<1>1. PICK k \in low..high : s \o e = Numbers(k, high)
  BY DEF IsEnd
<1>. DEFINE n == k + Len(s) + h
            r == SubSeq(e, h + 1, Len(e))
<1>2. Len(s) + Len(e) = high - k /\ \A i \in 1..Len(s) + Len(e) : (s \o e)[i] = k + i
  BY <1>1 DEF Numbers
<1>3. n \in low..high /\ Len(r) = high - n
  <2>1. Len(s) \in Nat /\ Len(e) \in Nat /\ h \in Nat /\ h <= Len(e) /\ k \in Nat /\ low <= k
    OBVIOUS
  <2>2. Len(r) = Len(e) - h
    BY <2>1
  <2>. HIDE DEF r
  <2>. QED
    BY <1>2, <2>1, <2>2
<1>4. \A i \in 1..Len(r) : r[i] = n + i
  <2>1. ASSUME NEW i \in 1..Len(r) PROVE r[i] = n + i
    <3>1. r[i] = e[h + i] /\ h + i \in 1..Len(e)
      <4>1. h \in Nat /\ Len(e) \in Nat /\ h + 1 \in Int /\ \A j \in (h + 1)..Len(e) : e[j] \in Nat
        OBVIOUS
      <4>2. \A j \in 1..Len(e) - (h + 1) + 1 : SubSeq(e, h + 1, Len(e))[j] = e[(h + 1) + j - 1]
        BY <4>1, SubSeqProperties
      <4>3. Len(r) = Len(e) - h
        BY <4>1
      <4>. HIDE DEF r
      <4>4. i \in 1..Len(e) - (h + 1) + 1 /\ (h + 1) + i - 1 = h + i /\ h + i \in 1..Len(e)
        BY <4>1, <4>3
      <4>. QED
        BY <4>2, <4>4 DEF r
    <3>2. e[h + i] = (s \o e)[Len(s) + (h + i)] /\ Len(s) + (h + i) \in 1..Len(s) + Len(e)
      BY <3>1
    <3>3. (s \o e)[Len(s) + (h + i)] = k + (Len(s) + (h + i))
      BY <1>2, <3>2
    <3>4. k + (Len(s) + (h + i)) = n + i
      OBVIOUS
    <3>. QED
      BY <3>1, <3>2, <3>3, <3>4
  <2>. QED
    BY <2>1
<1>5. r = Numbers(n, high)
  <2>1. r \in Seq(Nat) /\ Len(r) \in Nat /\ r = [i \in 1..Len(r) |-> r[i]]
    OBVIOUS
  <2>. HIDE DEF r
  <2>. QED
    BY <1>3, <1>4, <2>1 DEF Numbers
<1>6. <<>> \o LastFrom(e, h + 1) = r
  BY DEF LastFrom
<1>. QED
  BY <1>3, <1>5, <1>6 DEF IsEnd

\* An end is a suffix, and a whole one is the conversation.
LEMMA EndIsSuffix ==
  ASSUME NEW seq, NEW low \in Nat, NEW high \in Nat, NEW gap \in BOOLEAN, IsEnd(seq, low, high, gap)
  PROVE  IsSuffix(seq, Numbers(low, high)) /\ (~gap => seq = Numbers(low, high))
<1>1. PICK k \in low..high : seq = Numbers(k, high) /\ (gap \/ k = low)
  BY DEF IsEnd
<1>2. IsSuffix(Numbers(k, high), Numbers(low, high))
  <2>. DEFINE s == Reverse(Numbers(k, high))
              t == Reverse(Numbers(low, high))
  <2>1. /\ s = [i \in 1..high - k |-> high - i + 1]
        /\ t = [i \in 1..high - low |-> high - i + 1]
    BY DEF Reverse, Numbers
  <2>2. s \in Seq(Int) /\ t \in Seq(Int) /\ Len(s) = high - k /\ Len(t) = high - low
    BY <2>1
  <2>3. Len(s) <= Len(t)
    BY <2>2
  <2>4. \A i \in 1..Len(s) : s[i] = t[i]
    BY <2>1, <2>2
  <2>. HIDE DEF s, t
  <2>5. SubSeq(s, 1, Len(s)) = SubSeq(t, 1, Len(s))
    BY <2>2, <2>3, <2>4
  <2>. QED
    BY <2>3, <2>5 DEF IsSuffix, IsPrefix, s, t
<1>. QED
  BY <1>1, <1>2

-----------------------------------------------------------------------------
(***************************************************************************)
(* What an end costs.                                                      *)
(***************************************************************************)
LEMMA NumbersFacts ==
  ASSUME NEW low \in Nat, NEW high \in Nat, low <= high
  PROVE  /\ Numbers(low, high) \in Seq(Nat) /\ Len(Numbers(low, high)) = high - low
         /\ DOMAIN Numbers(low, high) = 1..high - low
         /\ \A i \in 1..high - low : Numbers(low, high)[i] = low + i
         /\ ToSet(Numbers(low, high)) = low + 1..high
<1>1. /\ Numbers(low, high) \in Seq(Nat) /\ Len(Numbers(low, high)) = high - low
      /\ DOMAIN Numbers(low, high) = 1..high - low
      /\ \A i \in 1..high - low : Numbers(low, high)[i] = low + i
  BY DEF Numbers
<1>2. ASSUME NEW x \in low + 1..high PROVE x \in ToSet(Numbers(low, high))
  <2>1. x - low \in 1..high - low /\ low + (x - low) = x
    OBVIOUS
  <2>. QED
    BY <1>1, <2>1 DEF ToSet
<1>3. ASSUME NEW x \in ToSet(Numbers(low, high)) PROVE x \in low + 1..high
  <2>1. PICK i \in 1..high - low : x = low + i
    BY <1>1 DEF ToSet
  <2>. QED
    BY <2>1
<1>. QED
  BY <1>1, <1>2, <1>3

LEMMA LastOfNumbers ==
  ASSUME NEW low \in Nat, NEW high \in Nat, low <= high, NEW i \in 1..high - low
  PROVE  LastFrom(Numbers(low, high), i) = Numbers(low + i - 1, high)
<1>. DEFINE e == Numbers(low, high)
            n == high - low
<1>1. /\ e \in Seq(Nat) /\ Len(e) = n /\ n \in Nat /\ i \in Nat
      /\ \A j \in 1..n : e[j] = low + j
  BY NumbersFacts
<1>. HIDE DEF e
<1>2. SubSeq(e, i, n) = [j \in 1..n - i + 1 |-> low + (i + j - 1)]
  <2>1. SubSeq(e, i, n) = [j \in 1..n - i + 1 |-> e[i + j - 1]]
    BY <1>1
  <2>2. \A j \in 1..n - i + 1 : i + j - 1 \in 1..n
    BY <1>1
  <2>3. \A j \in 1..n - i + 1 : e[i + j - 1] = low + (i + j - 1)
    BY <1>1, <2>2
  <2>. QED
    BY <2>1, <2>3
<1>3. /\ n - i + 1 = high - (low + i - 1)
      /\ \A j \in Int : low + (i + j - 1) = (low + i - 1) + j
  BY <1>1
<1>. HIDE DEF n
<1>. QED
  BY <1>1, <1>2, <1>3 DEF LastFrom, Numbers, e

\* TotalTokens adds up the sizes it is given.
LEMMA TotalIsSum ==
  ASSUME NEW sizes, NEW seq \in Seq(Nat),
         NEW shares, shares = [i \in 1..Len(seq) |-> sizes[seq[i]]], shares \in [1..Len(seq) -> Int]
  PROVE  \E sum : Sums(Len(seq), shares, sum) /\ sum[Len(seq)] = TotalTokens(sizes, seq)
<1>. DEFINE n == Len(seq)
            IsIter(iter) == iter = [s \in SUBSET DOMAIN seq |->
                IF s = {} THEN 0 ELSE iter[s \ {Max(s)}] + sizes[seq[Max(s)]]]
            iter == CHOOSE iter : IsIter(iter)
<1>1. n \in Nat /\ DOMAIN seq = 1..n
  OBVIOUS
<1>2. TotalTokens(sizes, seq) = iter[DOMAIN seq]
  BY DEF TotalTokens, FoldLeft, MapThenFoldSet
<1>3. ASSUME NEW s \in SUBSET (1..n), s # {} PROVE shares[Max(s)] = sizes[seq[Max(s)]]
  <2>1. Max(s) \in 1..n
    BY <1>1, <1>3, MaxOfNumbers
  <2>. QED
    BY <2>1
<1>4. shares \in [1..n -> Int]
  OBVIOUS
<1>. HIDE DEF n
<1>5. ASSUME NEW g PROVE IsSum(n, shares, g) <=> IsIter(g)
  BY <1>1, <1>3 DEF IsSum
<1>6. (\E g : IsSum(n, shares, g)) => IsSum(n, shares, iter)
  <2>. HIDE DEF IsIter
  <2>. QED
    BY <1>5
<1>. HIDE DEF iter, IsIter
<1>7. PICK sum : Sums(n, shares, sum) /\ sum[n] = iter[1..n]
  BY <1>1, <1>4, <1>6, SumSteps, ZenonT(30)
<1>. QED
  BY <1>1, <1>2, <1>7 DEF n

\* The cost of an end is a difference of two sums of sizes.
LEMMA CostIsDifference ==
  ASSUME NEW sizes \in Seq(Nat), NEW sum, Sums(Len(sizes), sizes, sum), NEW i \in 1..Len(sizes)
  PROVE  Cost(sizes, i) = sum[Len(sizes)] - sum[i - 1]
<1>. DEFINE n == Len(sizes)
            m == i - 1
            seq == Numbers(m, n)
            shares == [j \in 1..n - m |-> sizes[seq[j]]]
<1>1. n \in Nat /\ m \in Nat /\ m <= n /\ n - m \in Nat /\ \A j \in 1..n : sizes[j] \in Nat
  OBVIOUS
<1>2. seq \in Seq(Nat) /\ Len(seq) = n - m /\ \A j \in 1..n - m : seq[j] = m + j
  BY <1>1, NumbersFacts
<1>3. \A j \in 1..n - m : m + j \in 1..n
  BY <1>1
<1>4. Sums(n, sizes, sum)
  OBVIOUS
<1>. HIDE DEF n, m, seq
<1>5. shares \in [1..n - m -> Int] /\ \A j \in 1..n - m : shares[j] = sizes[m + j]
  <2>1. ASSUME NEW j \in 1..n - m PROVE sizes[seq[j]] = sizes[m + j] /\ sizes[m + j] \in Int
    BY <1>1, <1>2, <1>3, SMTT(30)
  <2>. QED
    BY <2>1
<1>6. PICK part : Sums(n - m, shares, part) /\ part[n - m] = TotalTokens(sizes, seq)
  <2>1. shares = [j \in 1..Len(seq) |-> sizes[seq[j]]] /\ shares \in [1..Len(seq) -> Int]
    BY <1>2, <1>5
  <2>. HIDE DEF shares
  <2>. QED
    BY <1>2, <2>1, TotalIsSum
<1>. HIDE DEF shares
<1>. DEFINE S == {k \in Nat : k <= n - m => part[k] = sum[m + k] - sum[m]}
<1>7. sum \in [0..n -> Int] /\ part \in [0..n - m -> Int] /\ part[0] = 0
  BY <1>4, <1>6 DEF Sums
<1>8. 0 \in S
  <2>1. m \in 0..n /\ m + 0 = m
    BY <1>1
  <2>2. sum[m] \in Int
    BY <1>7, <2>1
  <2>. QED
    BY <1>7, <2>1, <2>2
<1>9. ASSUME NEW k \in Nat, k \in S PROVE k + 1 \in S
  <2>. SUFFICES ASSUME k + 1 <= n - m PROVE part[k + 1] = sum[m + (k + 1)] - sum[m]
    OBVIOUS
  <2>1. /\ k + 1 \in 1..n - m /\ (k + 1) - 1 = k
        /\ m + (k + 1) \in 1..n /\ (m + (k + 1)) - 1 = m + k /\ m + k \in 0..n /\ m \in 0..n
    BY <1>1
  <2>2. part[k + 1] = part[k] + sizes[m + (k + 1)]
    BY <1>5, <1>6, <2>1 DEF Sums
  <2>3. sum[m + (k + 1)] = sum[m + k] + sizes[m + (k + 1)]
    BY <1>4, <2>1 DEF Sums
  <2>4. part[k] = sum[m + k] - sum[m]
    BY <1>1, <1>9
  <2>5. sum[m + k] \in Int /\ sum[m] \in Int /\ sizes[m + (k + 1)] \in Nat
    BY <1>1, <1>7, <2>1
  <2>. QED
    BY <2>2, <2>3, <2>4, <2>5
<1>10. n - m \in S
  <2>. HIDE DEF S
  <2>. QED
    BY <1>1, <1>8, <1>9, SetInduction
<1>11. m + (n - m) = n
  BY <1>1
<1>. QED
  BY <1>6, <1>10, <1>11 DEF Cost, n, m, seq

\* A later end costs no more, and an end costs no less with one more entry.
LEMMA CostFalls ==
  ASSUME NEW sizes \in Seq(Nat), NEW i \in 1..Len(sizes), NEW j \in 1..Len(sizes), i <= j
  PROVE  Cost(sizes, i) \in Int /\ Cost(sizes, j) \in Int /\ Cost(sizes, j) <= Cost(sizes, i)
<1>1. Len(sizes) \in Nat /\ sizes \in [1..Len(sizes) -> Nat] /\ sizes \in [1..Len(sizes) -> Int]
  OBVIOUS
<1>2. PICK sum : Sums(Len(sizes), sizes, sum)
  BY <1>1, SumsExist
<1>3. i - 1 \in 0..Len(sizes) /\ j - 1 \in 0..Len(sizes) /\ i - 1 <= j - 1 /\ Len(sizes) \in 0..Len(sizes)
  OBVIOUS
<1>4. sum[i - 1] <= sum[j - 1]
  BY <1>1, <1>2, <1>3, SumsGrow
<1>5. /\ Cost(sizes, i) = sum[Len(sizes)] - sum[i - 1]
      /\ Cost(sizes, j) = sum[Len(sizes)] - sum[j - 1]
  BY <1>2, CostIsDifference
<1>6. sum[i - 1] \in Int /\ sum[j - 1] \in Int /\ sum[Len(sizes)] \in Int
  BY <1>2, <1>3 DEF Sums
<1>. QED
  BY <1>4, <1>5, <1>6

LEMMA CostGrows ==
  ASSUME NEW sizes \in Seq(Nat), NEW size \in Nat, NEW i \in 1..Len(sizes)
  PROVE  /\ Cost(sizes, i) \in Int /\ Cost(Append(sizes, size), i) \in Int
         /\ Cost(sizes, i) <= Cost(Append(sizes, size), i)
<1>. DEFINE n == Len(sizes)
            more == Append(sizes, size)
<1>1. n \in Nat /\ sizes \in [1..n -> Int]
  OBVIOUS
<1>2. PICK sum : Sums(n, sizes, sum)
  BY <1>1, SumsExist
<1>3. /\ more \in Seq(Nat) /\ Len(more) = n + 1 /\ more[n + 1] = size
      /\ \A k \in 1..n : more[k] = sizes[k]
  OBVIOUS
<1>. HIDE DEF n, more
<1>. DEFINE sum2 == [k \in 0..n + 1 |-> IF k <= n THEN sum[k] ELSE sum[n] + size]
<1>4. sum \in [0..n -> Int] /\ sum[0] = 0 /\ \A k \in 1..n : sum[k] = sum[k - 1] + sizes[k]
  BY <1>2 DEF Sums
<1>5. Sums(n + 1, more, sum2)
  <2>1. sum2 \in [0..n + 1 -> Int] /\ sum2[0] = 0
    <3>1. ASSUME NEW k \in 0..n + 1
          PROVE  (IF k <= n THEN sum[k] ELSE sum[n] + size) \in Int
      <4>1. sum[n] \in Int /\ (k <= n => sum[k] \in Int)
        <5>1. n \in 0..n /\ (k <= n => k \in 0..n)
          BY <1>1
        <5>. QED
          BY <1>4, <5>1
      <4>. QED
        BY <4>1
    <3>2. 0 \in 0..n + 1 /\ 0 <= n
      BY <1>1
    <3>. QED
      BY <1>4, <3>1, <3>2
  <2>2. ASSUME NEW k \in 1..n + 1 PROVE sum2[k] = sum2[k - 1] + more[k]
    <3>1. CASE k = n + 1
      <4>1. (n + 1) - 1 = n /\ n \in 0..n + 1 /\ n + 1 \in 0..n + 1 /\ ~ (n + 1 <= n)
        BY <1>1
      <4>2. sum2[n + 1] = sum[n] + size /\ sum2[n] = sum[n]
        BY <1>1, <4>1
      <4>. HIDE DEF sum2
      <4>. QED
        BY <1>3, <3>1, <4>1, <4>2
    <3>2. CASE k # n + 1
      <4>1. k \in 1..n /\ k - 1 \in 0..n /\ k \in 0..n + 1 /\ k - 1 \in 0..n + 1
        BY <1>1, <3>2
      <4>2. sum2[k] = sum[k] /\ sum2[k - 1] = sum[k - 1]
        BY <1>1, <4>1
      <4>. HIDE DEF sum2
      <4>. QED
        BY <1>3, <1>4, <4>1, <4>2
    <3>. QED
      BY <3>1, <3>2
  <2>. HIDE DEF sum2
  <2>. QED
    BY <2>1, <2>2 DEF Sums
<1>6. i \in 1..n /\ i \in 1..n + 1 /\ i - 1 \in 0..n /\ i - 1 \in 0..n + 1 /\ n \in 0..n
  <2>1. i \in 1..n
    BY DEF n
  <2>. QED
    BY <1>1, <2>1
<1>7. sum2[i - 1] = sum[i - 1] /\ sum2[n + 1] = sum[n] + size
  BY <1>1, <1>6
<1>8. Cost(sizes, i) = sum[n] - sum[i - 1]
  BY <1>2, CostIsDifference DEF n
<1>9. Cost(more, i) = sum2[n + 1] - sum2[i - 1]
  <2>. HIDE DEF sum2
  <2>. QED
    BY <1>3, <1>5, <1>6, CostIsDifference, SMTT(30)
<1>10. sum[n] \in Int /\ sum[i - 1] \in Int
  BY <1>4, <1>6
<1>. HIDE DEF sum2
<1>. QED
  BY <1>7, <1>8, <1>9, <1>10 DEF more

-----------------------------------------------------------------------------
(***************************************************************************)
(* Trimming.                                                               *)
(***************************************************************************)
Fits(sizes, seq, i) ==
    i = Len(seq) \/ TotalTokens(sizes, LastFrom(seq, i)) <= MaxTokens
FirstFit(sizes, seq) ==
    CHOOSE i \in DOMAIN seq : Fits(sizes, seq, i) /\ \A j \in 1..i - 1 : ~Fits(sizes, seq, j)

LEMMA TrimOfBuffer ==
  ASSUME NEW sizes, NEW seq
  PROVE  /\ Len(seq) > MaxSize =>
                Trim("buffer", sizes, seq) = LastFrom(seq, Len(seq) - MaxSize + 1)
         /\ ~ (Len(seq) > MaxSize) => Trim("buffer", sizes, seq) = seq
  BY DEF Trim

LEMMA TrimOfWindow ==
  ASSUME NEW sizes, NEW seq
  PROVE  Trim("window", sizes, seq) = LastFrom(seq, FirstFit(sizes, seq))
  BY DEF Trim, FirstFit, Fits

\* trim finds the first entry from which the rest fits.
LEMMA FirstFitIsFirst ==
  ASSUME NEW sizes, NEW seq \in Seq(Nat), seq # <<>>, NEW i, i = FirstFit(sizes, seq)
  PROVE  /\ i \in 1..Len(seq) /\ Fits(sizes, seq, i)
         /\ \A j \in 1..i - 1 : ~Fits(sizes, seq, j)
<1>. DEFINE T == {j \in 1..Len(seq) : Fits(sizes, seq, j)}
<1>1. Len(seq) \in Nat \ {0} /\ DOMAIN seq = 1..Len(seq)
  OBVIOUS
<1>2. Len(seq) \in T
  BY <1>1 DEF Fits
<1>3. T \in SUBSET Nat /\ T # {}
  BY <1>1, <1>2
<1>4. PICK l \in T : \A m \in T : l <= m
  BY <1>3, LeastNatural
<1>5. l \in DOMAIN seq /\ Fits(sizes, seq, l) /\ \A j \in 1..l - 1 : ~Fits(sizes, seq, j)
  <2>1. l \in 1..Len(seq) /\ Fits(sizes, seq, l)
    BY <1>4
  <2>2. ASSUME NEW j \in 1..l - 1 PROVE ~Fits(sizes, seq, j)
    <3>1. j \in 1..Len(seq) /\ ~ (l <= j)
      BY <1>1, <2>1
    <3>. QED
      BY <1>4, <3>1
  <2>. QED
    BY <1>1, <2>1, <2>2
<1>6. \E j \in DOMAIN seq : Fits(sizes, seq, j) /\ \A x \in 1..j - 1 : ~Fits(sizes, seq, x)
  BY <1>5
<1>. HIDE DEF T
<1>. QED
  BY <1>1, <1>6 DEF FirstFit

\* Add leaves the right end of the conversation, when it found one.
LEMMA BufferTrimmed ==
  ASSUME NEW sizes \in Seq(Nat), NEW size \in Nat, NEW more, more = Append(sizes, size),
         NEW low \in Nat, NEW e, IsRecent("buffer", sizes, low, e)
  PROVE  IsRecent("buffer", more, low, Trim("buffer", more, Append(e, Len(sizes) + 1)))
<1>. DEFINE n == Len(sizes)
<1>1. PICK m \in low..n : /\ e = Numbers(m, n)
                          /\ \A i \in low + 1..n : i > m <=> i > n - MaxSize
  BY DEF IsRecent, Kept
<1>2. n \in Nat /\ m \in Nat /\ low <= m /\ m <= n /\ MaxSize \in Nat \ {0} /\ Len(more) = n + 1
  BY LimitsAssumption
<1>. HIDE DEF n
<1>3. Append(e, n + 1) = Numbers(m, n + 1) /\ Len(Numbers(m, n + 1)) = (n + 1) - m
  <2>1. n + 1 \in Nat /\ m <= n + 1
    BY <1>2
  <2>2. Len(Numbers(m, n + 1)) = (n + 1) - m
    BY <1>2, <2>1, NumbersFacts
  <2>. QED
    BY <1>1, <1>2, <2>2, NumbersAppended
<1>4. CASE (n + 1) - m > MaxSize
  <2>. DEFINE i == ((n + 1) - m) - MaxSize + 1
  <2>1. i \in 1..(n + 1) - m /\ m + i - 1 = (n + 1) - MaxSize /\ (n + 1) - MaxSize \in low..n + 1
    BY <1>2, <1>4
  <2>2. Trim("buffer", more, Append(e, n + 1)) = Numbers((n + 1) - MaxSize, n + 1)
    <3>1. Trim("buffer", more, Append(e, n + 1)) = LastFrom(Numbers(m, n + 1), i)
      BY <1>3, <1>4, TrimOfBuffer
    <3>. HIDE DEF i
    <3>. QED
      BY <1>2, <2>1, <3>1, LastOfNumbers, n + 1 \in Nat, m <= n + 1
  <2>3. \A x \in low + 1..n + 1 : x > (n + 1) - MaxSize <=> Kept("buffer", more, x)
    BY <1>2 DEF Kept
  <2>. QED
    BY <1>2, <2>1, <2>2, <2>3 DEF IsRecent, n
<1>5. CASE ~ ((n + 1) - m > MaxSize)
  <2>1. Trim("buffer", more, Append(e, n + 1)) = Numbers(m, n + 1)
    BY <1>3, <1>5, TrimOfBuffer
  <2>2. ASSUME NEW x \in low + 1..n + 1 PROVE x > m <=> Kept("buffer", more, x)
    <3>1. x > (n + 1) - MaxSize <=> x > m
      <4>1. CASE x = n + 1
        BY <1>2, <4>1
      <4>2. CASE x # n + 1
        <5>1. x \in low + 1..n
          BY <1>2, <4>2
        <5>2. x > m <=> x > n - MaxSize
          BY <1>1, <5>1
        <5>. QED
          BY <1>2, <1>5, <5>1, <5>2
      <4>. QED
        BY <4>1, <4>2
    <3>. QED
      BY <1>2, <3>1 DEF Kept
  <2>3. m \in low..n + 1
    BY <1>2
  <2>. QED
    BY <1>2, <2>1, <2>2, <2>3 DEF IsRecent, n
<1>. QED
  BY <1>4, <1>5

LEMMA WindowTrimmed ==
  ASSUME NEW sizes \in Seq(Nat), NEW size \in Nat, NEW more, more = Append(sizes, size),
         NEW low \in Nat, NEW e, IsRecent("window", sizes, low, e)
  PROVE  IsRecent("window", more, low, Trim("window", more, Append(e, Len(sizes) + 1)))
<1>. DEFINE n == Len(sizes)
<1>1. PICK m \in low..n : /\ e = Numbers(m, n)
                          /\ \A i \in low + 1..n : i > m <=> i = n \/ Cost(sizes, i) <= MaxTokens
  BY DEF IsRecent, Kept
<1>2. /\ n \in Nat /\ m \in Nat /\ low <= m /\ m <= n /\ MaxTokens \in Nat
      /\ Len(more) = n + 1 /\ more \in Seq(Nat)
  BY LimitsAssumption
<1>. DEFINE seq == Numbers(m, n + 1)
<1>3. Append(e, n + 1) = seq
  BY <1>1, <1>2, NumbersAppended
<1>4. seq \in Seq(Nat) /\ Len(seq) = (n + 1) - m /\ (n + 1) - m \in Nat \ {0}
  <2>. HIDE DEF n
  <2>1. n + 1 \in Nat /\ m <= n + 1 /\ (n + 1) - m \in Nat \ {0}
    BY <1>2
  <2>2. Numbers(m, n + 1) \in Seq(Nat) /\ Len(Numbers(m, n + 1)) = (n + 1) - m
    BY <1>2, <2>1, NumbersFacts
  <2>. QED
    BY <2>1, <2>2
<1>5. \A i \in 1..n : /\ Cost(sizes, i) \in Int /\ Cost(more, i) \in Int
                      /\ Cost(sizes, i) <= Cost(more, i)
  BY CostGrows
<1>6. \A i, j \in 1..n + 1 : i <= j => /\ Cost(more, i) \in Int /\ Cost(more, j) \in Int
                                       /\ Cost(more, j) <= Cost(more, i)
  BY <1>2, CostFalls
<1>. HIDE DEF n, seq
<1>7. ASSUME NEW i \in 1..(n + 1) - m
      PROVE  /\ LastFrom(seq, i) = Numbers(m + i - 1, n + 1)
             /\ m + i \in m + 1..n + 1 /\ m + i \in 1..n + 1
             /\ Fits(more, seq, i) <=> m + i = n + 1 \/ Cost(more, m + i) <= MaxTokens
  <2>1. LastFrom(seq, i) = Numbers(m + i - 1, n + 1)
    BY <1>2, LastOfNumbers, n + 1 \in Nat, m <= n + 1 DEF seq
  <2>2. m + i \in m + 1..n + 1 /\ m + i \in 1..n + 1 /\ (i = (n + 1) - m <=> m + i = n + 1)
    BY <1>2
  <2>. QED
    BY <1>2, <1>4, <2>1, <2>2 DEF Fits, Cost
<1>8. PICK i : i = FirstFit(more, seq)
  OBVIOUS
<1>9. /\ i \in 1..(n + 1) - m /\ Fits(more, seq, i)
      /\ \A j \in 1..i - 1 : ~Fits(more, seq, j)
  <2>1. seq # <<>>
    BY <1>4
  <2>. QED
    BY <1>4, <1>8, <2>1, FirstFitIsFirst
<1>10. Trim("window", more, Append(e, n + 1)) = Numbers(m + i - 1, n + 1)
  BY <1>3, <1>7, <1>8, <1>9, TrimOfWindow
<1>11. m + i - 1 \in low..n + 1 /\ i \in Nat /\ m + i \in 1..n + 1
  BY <1>2, <1>9
<1>12. ASSUME NEW x \in low + 1..n + 1, x > m + i - 1
       PROVE  x = n + 1 \/ Cost(more, x) <= MaxTokens
  <2>1. x \in 1..n + 1 /\ m + i <= x
    BY <1>2, <1>11, <1>12
  <2>2. CASE m + i = n + 1
    BY <1>2, <2>1, <2>2
  <2>3. CASE Cost(more, m + i) <= MaxTokens
    <3>1. /\ Cost(more, m + i) \in Int /\ Cost(more, x) \in Int
          /\ Cost(more, x) <= Cost(more, m + i)
      BY <1>6, <1>11, <2>1
    <3>. QED
      BY <1>2, <2>3, <3>1
  <2>. QED
    BY <1>7, <1>9, <2>2, <2>3
<1>13. ASSUME NEW x \in low + 1..n + 1, ~ (x > m + i - 1)
       PROVE  x # n + 1 /\ ~ (Cost(more, x) <= MaxTokens)
  <2>1. CASE x > m
    <3>1. x - m \in 1..i - 1 /\ x - m \in 1..(n + 1) - m /\ m + (x - m) = x
      BY <1>2, <1>9, <1>11, <1>13, <2>1
    <3>. QED
      BY <1>7, <1>9, <3>1
  <2>2. CASE ~ (x > m)
    <3>1. x \in low + 1..n /\ x \in 1..n /\ x # n + 1
      BY <1>2, <2>2
    <3>2. ~ (Cost(sizes, x) <= MaxTokens)
      BY <1>1, <2>2, <3>1
    <3>. QED
      BY <1>2, <1>5, <3>1, <3>2
  <2>. QED
    BY <2>1, <2>2
<1>14. \A x \in low + 1..n + 1 : x > m + i - 1 <=> Kept("window", more, x)
  BY <1>2, <1>12, <1>13 DEF Kept
<1>. QED
  BY <1>2, <1>10, <1>11, <1>14 DEF IsRecent, n

\* An empty memory is right when everything was cleared.
LEMMA RecentCleared ==
  ASSUME NEW k, NEW sizes \in Seq(Nat)
  PROVE  IsRecent(k, sizes, Len(sizes), <<>>)
<1>1. Len(sizes) \in Nat /\ Len(sizes) \in Len(sizes)..Len(sizes)
  OBVIOUS
<1>2. <<>> = Numbers(Len(sizes), Len(sizes))
  BY <1>1 DEF Numbers
<1>3. \A i : i \notin Len(sizes) + 1..Len(sizes)
  BY <1>1
<1>. QED
  BY <1>1, <1>2, <1>3 DEF IsRecent

-----------------------------------------------------------------------------

LEMMA InitInductive == Init => IInv
<1>. SUFFICES ASSUME Init PROVE IInv
  OBVIOUS
<1>1. TypeOK
  BY MemoriesAssumption DEF Init, TypeOK
<1>2. Summarizing
  BY DEF Init, Summarizing
<1>3. IsEnd(<<>> \o <<>>, 0, Len(<<>>), FALSE)
  BY DEF IsEnd, Numbers
<1>4. Faithful
  <2>1. ASSUME NEW a \in Agents
        PROVE  /\ summary[a] = <<>> /\ entries[a] = <<>> /\ cleared[a] = 0
               /\ said[a] = <<>> /\ blanked[a] = FALSE
    BY DEF Init
  <2>. QED
    BY <1>3, <2>1, <<>> \in Seq(Nat) DEF Faithful
<1>5. Recent
  <2>1. ASSUME NEW a \in Agents
        PROVE  said[a] = <<>> /\ cleared[a] = Len(<<>>) /\ entries[a] = <<>>
    BY DEF Init
  <2>2. ASSUME NEW a \in Agents PROVE IsRecent(kind[a], <<>>, Len(<<>>), <<>>)
    BY RecentCleared, <<>> \in Seq(Nat)
  <2>. QED
    BY <2>1, <2>2 DEF Recent
<1>. QED
  BY <1>1, <1>2, <1>4, <1>5 DEF IInv

\* A step of a caller outside its memories.
LEMMA CallersKeep ==
  ASSUME IInv, NEW c \in Callers,
         \/ Route(c) \/ Unrouted(c) \/ Discuss(c) \/ Recall(c) \/ Observe(c) \/ Conclude(c)
         \/ ChatFails(c) \/ GiveUp(c) \/ Finish(c)
  PROVE  IInv'
<1>1. /\ UNCHANGED <<memories, batch, after>>
      /\ DOMAIN pc' = Callers /\ DOMAIN turns' = Callers /\ pc'[c] # "fold"
      /\ \A b \in Callers : b # c => pc'[b] = pc[b] /\ turns'[b] = turns[b]
  <2>1. ASSUME NEW plan, NEW discuss, Begin(c, plan, discuss) PROVE <1>1!:
    BY <2>1 DEF Begin, IInv, TypeOK
  <2>2. ASSUME NEW ok, Return(c, ok) PROVE <1>1!:
    BY <2>2 DEF Return, IInv, TypeOK
  <2>3. CASE Recall(c) \/ Observe(c) \/ Conclude(c)
    BY <2>3 DEF Recall, Observe, Conclude, IInv, TypeOK
  <2>. QED
    BY <2>1, <2>2, <2>3 DEF Route, Unrouted, Discuss, ChatFails, GiveUp, Finish
<1>2. TypeOK'
  BY <1>1 DEF memories, IInv, TypeOK
<1>3. Summarizing'
  <2>1. UNCHANGED <<kind, summary, entries, mutex, batch>>
    BY <1>1 DEF memories
  <2>2. ASSUME NEW d \in Callers, NEW b \in Agents, pc'[d] = "fold", Head(turns'[d]) = b
        PROVE  mutex[b] = d /\ kind[b] = "summary" /\ batch[d] = Sent(summary[b], entries[b])
    BY <1>1, <2>2 DEF IInv, Summarizing, Agent
  <2>. QED
    BY <2>1, <2>2 DEF Summarizing, Agent
<1>4. Faithful'
  BY <1>1 DEF memories, IInv, Faithful
<1>5. Recent'
  BY <1>1 DEF memories, IInv, Recent
<1>. QED
  BY <1>2, <1>3, <1>4, <1>5 DEF IInv

\* Add of any memory: an entry is remembered, and a summary memory may go on to its
\* LLM call.
LEMMA AddKeeps ==
  ASSUME IInv, NEW c \in Callers, NEW then \in {"recall", "return"}, Add(c, then)
  PROVE  IInv'
<1>. DEFINE a == Agent(c)
            grown == Append(entries[a], Len(said[a]) + 1)
            fold == kind[a] = "summary" /\ Len(grown) > SummarizeAfter
<1>1. /\ TypeOK /\ mutex[a] = Nobody
      /\ \E size \in SizesOf(a) : said' = [said EXCEPT ![a] = Append(@, size)]
      /\ entries' = [entries EXCEPT ![a] = Trim(kind[a], said'[a], grown)]
      /\ mutex' = [mutex EXCEPT ![a] = IF fold THEN c ELSE Nobody]
      /\ batch' = [batch EXCEPT ![c] =
             IF fold THEN summary[a] \o SubSeq(grown, 1, Len(grown) \div 2) ELSE <<>>]
      /\ pc' = [pc EXCEPT ![c] = IF fold THEN "fold" ELSE then]
      /\ after' = [after EXCEPT ![c] = then]
      /\ UNCHANGED <<kind, cleared, summary, blanked, turns>>
  BY DEF Add, Free, IInv
<1>2. PICK size \in Nat : said' = [said EXCEPT ![a] = Append(@, size)]
  BY <1>1, LimitsAssumption DEF SizesOf
<1>3. kind[a] = "summary" => Trim(kind[a], said'[a], grown) = grown
  BY DEF Trim
<1>4. a \in Agents /\ kind[a] = "summary" =>
          entries'[a] = grown /\ Len(said'[a]) = Len(said[a]) + 1 /\ Len(said[a]) \in Nat
  BY <1>1, <1>2, <1>3 DEF TypeOK
<1>5. a = Agent(c) /\ (fold => kind[a] = "summary") /\ fold \in BOOLEAN
      /\ (fold => summary[a] \o SubSeq(grown, 1, Len(grown) \div 2) = Sent(summary[a], grown))
  BY DEF Sent
<1>6. \A b \in Agents : (b # a => (/\ entries'[b] = entries[b] /\ said'[b] = said[b]
                                  /\ mutex'[b] = mutex[b]))
  BY <1>1, <1>2 DEF TypeOK
<1>7. DOMAIN entries' = Agents /\ DOMAIN pc' = Callers /\ DOMAIN batch' = Callers
  BY <1>1 DEF TypeOK
<1>. HIDE DEF a, fold
<1>8. TypeOK'
  <2>1. said' \in [Agents -> Seq(Nat)]
    <3>1. said \in [Agents -> Seq(Nat)]
      BY <1>1 DEF TypeOK
    <3>2. a \in Agents => Append(said[a], size) \in Seq(Nat)
      BY <3>1
    <3>. QED
      BY <1>2, <3>1, <3>2
  <2>2. mutex' \in [Agents -> Callers \cup {Nobody}]
    BY <1>1, <1>5 DEF TypeOK
  <2>3. after' \in [Callers -> {"start", "recall", "return"}]
    BY <1>1 DEF TypeOK
  <2>. QED
    BY <1>1, <1>7, <2>1, <2>2, <2>3 DEF TypeOK
<1>9. UNCHANGED <<kind, summary, cleared, blanked, turns>>
  BY <1>1
<1>10. Summarizing'
  <2>1. ASSUME NEW d \in Callers, NEW b \in Agents, pc'[d] = "fold", Head(turns[d]) = b
        PROVE  /\ mutex'[b] = d /\ kind[b] = "summary"
               /\ batch'[d] = Sent(summary[b], entries'[b])
    <3>1. CASE d = c
      <4>1. a = b /\ fold
        BY <1>1, <1>5, <2>1, <3>1 DEF TypeOK, Agent
      <4>2. mutex'[b] = d
        BY <1>1, <3>1, <4>1 DEF TypeOK
      <4>3. batch'[d] = Sent(summary[b], grown)
        BY <1>1, <1>5, <3>1, <4>1 DEF TypeOK
      <4>. QED
        BY <1>4, <1>5, <4>1, <4>2, <4>3
    <3>2. CASE d # c
      <4>1. pc[d] = "fold" /\ Agent(d) = b /\ batch'[d] = batch[d]
        BY <1>1, <2>1, <3>2 DEF TypeOK, Agent
      <4>2. mutex[b] = d /\ b # a
        BY <1>1, <4>1, NobodyAssumption DEF IInv, Summarizing
      <4>. QED
        <5>1. mutex[b] = d /\ kind[b] = "summary" /\ batch[d] = Sent(summary[b], entries[b])
          BY <4>1 DEF IInv, Summarizing
        <5>2. mutex'[b] = mutex[b] /\ entries'[b] = entries[b]
          BY <1>6, <4>2
        <5>. QED
          BY <4>1, <5>1, <5>2
    <3>. QED
      BY <3>1, <3>2
  <2>. QED
    BY <1>9, <2>1 DEF Summarizing, Agent
<1>11. Faithful'
  <2>1. ASSUME NEW b \in Agents, kind[b] = "summary"
        PROVE  /\ summary[b] \in Seq(Nat) /\ entries'[b] \in Seq(Nat)
               /\ IsEnd(summary[b] \o entries'[b], cleared[b], Len(said'[b]), blanked[b])
    <3>1. /\ summary[b] \in Seq(Nat) /\ entries[b] \in Seq(Nat)
          /\ IsEnd(summary[b] \o entries[b], cleared[b], Len(said[b]), blanked[b])
          /\ cleared[b] \in Nat /\ Len(said[b]) \in Nat /\ blanked[b] \in BOOLEAN
      BY <1>1, <2>1 DEF IInv, Faithful, TypeOK
    <3>2. CASE b = a
      <4>1. IsEnd(summary[b] \o Append(entries[b], Len(said[b]) + 1), cleared[b], Len(said[b]) + 1, blanked[b])
        BY <3>1, EndAppended
      <4>2. entries'[b] = Append(entries[b], Len(said[b]) + 1) /\ Len(said'[b]) = Len(said[b]) + 1
        BY <1>4, <2>1, <3>2
      <4>. QED
        BY <3>1, <4>1, <4>2
    <3>3. CASE b # a
      BY <1>6, <3>1, <3>3
    <3>. QED
      BY <3>2, <3>3
  <2>. QED
    BY <1>1, <2>1 DEF Faithful
<1>12. Recent'
  <2>1. ASSUME NEW b \in Agents, kind[b] # "summary"
        PROVE  IsRecent(kind[b], said'[b], cleared[b], entries'[b])
    <3>1. /\ IsRecent(kind[b], said[b], cleared[b], entries[b])
          /\ said[b] \in Seq(Nat) /\ cleared[b] \in Nat /\ kind[b] \in {"buffer", "window"}
      BY <1>1, <2>1 DEF IInv, Recent, TypeOK
    <3>2. CASE b = a
      <4>1. said'[b] = Append(said[b], size)
        BY <1>1, <1>2, <3>2 DEF TypeOK
      <4>2. entries'[b] = Trim(kind[b], said'[b], Append(entries[b], Len(said[b]) + 1))
        BY <1>1, <3>2 DEF TypeOK
      <4>. QED
        BY <3>1, <4>1, <4>2, BufferTrimmed, WindowTrimmed
    <3>3. CASE b # a
      BY <1>6, <3>1, <3>3
    <3>. QED
      BY <3>2, <3>3
  <2>. QED
    BY <1>1, <2>1 DEF Recent
<1>. QED
  BY <1>8, <1>10, <1>11, <1>12 DEF IInv

\* The LLM call of a summary ends, either way.
LEMMA FoldKeeps ==
  ASSUME IInv, NEW c \in Callers, Folded(c) \/ NotFolded(c)
  PROVE  IInv'
<1>. DEFINE a == Agent(c)
            h == Len(entries[a]) \div 2
<1>1. /\ TypeOK /\ pc[c] = "fold"
      /\ mutex' = [mutex EXCEPT ![a] = Nobody]
      /\ batch' = [batch EXCEPT ![c] = <<>>]
      /\ pc' = [pc EXCEPT ![c] = after[c]]
      /\ UNCHANGED <<kind, said, cleared, turns, after>>
  BY DEF Folded, NotFolded, Unlock, IInv
<1>2. \/ /\ summary' = [summary EXCEPT ![a] = batch[c]] /\ UNCHANGED blanked
         /\ entries' = [entries EXCEPT ![a] = LastFrom(@, h + 1)]
      \/ /\ summary' = [summary EXCEPT ![a] = <<>>]
         /\ blanked' = [blanked EXCEPT ![a] = TRUE]
         /\ entries' = [entries EXCEPT ![a] = LastFrom(@, h + 1)]
      \/ UNCHANGED <<summary, blanked, entries>>
  BY DEF Folded, NotFolded
<1>3. \A b \in Agents : (b # a => (/\ summary'[b] = summary[b] /\ entries'[b] = entries[b]
                                  /\ blanked'[b] = blanked[b] /\ mutex'[b] = mutex[b]))
  BY <1>1, <1>2 DEF TypeOK
<1>4. TypeOK'
  BY <1>1, <1>2 DEF TypeOK
<1>5. Summarizing'
  <2>1. ASSUME NEW d \in Callers, NEW b \in Agents, pc'[d] = "fold", Head(turns[d]) = b
        PROVE  /\ mutex'[b] = d /\ kind[b] = "summary"
               /\ batch'[d] = Sent(summary'[b], entries'[b])
    <3>1. d # c /\ pc[d] = "fold" /\ Agent(d) = b /\ batch'[d] = batch[d]
      BY <1>1, <2>1 DEF TypeOK, Agent
    <3>2. mutex[b] = d /\ b # a
      BY <1>1, <3>1 DEF IInv, Summarizing
    <3>. QED
      BY <1>3, <3>1, <3>2 DEF IInv, Summarizing
  <2>. QED
    BY <1>1, <2>1 DEF Summarizing, Agent
<1>6. Faithful'
  <2>1. ASSUME NEW b \in Agents, kind[b] = "summary"
        PROVE  /\ summary'[b] \in Seq(Nat) /\ entries'[b] \in Seq(Nat)
               /\ IsEnd(summary'[b] \o entries'[b], cleared[b], Len(said[b]), blanked'[b])
    <3>1. /\ summary[b] \in Seq(Nat) /\ entries[b] \in Seq(Nat)
          /\ IsEnd(summary[b] \o entries[b], cleared[b], Len(said[b]), blanked[b])
          /\ cleared[b] \in Nat /\ Len(said[b]) \in Nat /\ blanked[b] \in BOOLEAN
      BY <1>1, <2>1 DEF IInv, Faithful, TypeOK
    <3>2. CASE b # a \/ UNCHANGED <<summary, blanked, entries>>
      BY <1>3, <3>1, <3>2
    <3>3. CASE b = a /\ ~UNCHANGED <<summary, blanked, entries>>
      <4>1. h \in 0..Len(entries[b])
        <5>1. Len(entries[b]) \in Nat /\ h = Len(entries[b]) \div 2
          BY <3>1, <3>3
        <5>. HIDE DEF h
        <5>. QED
          BY <5>1, Half
      <4>2. batch[c] = summary[b] \o SubSeq(entries[b], 1, h)
        BY <1>1, <3>3 DEF IInv, Summarizing, Sent
      <4>3. entries'[b] = LastFrom(entries[b], h + 1)
        BY <1>1, <1>2, <3>3 DEF TypeOK
      <4>4. /\ batch[c] \in Seq(Nat) /\ LastFrom(entries[b], h + 1) \in Seq(Nat)
            /\ batch[c] \o LastFrom(entries[b], h + 1) = summary[b] \o entries[b]
        <5>. HIDE DEF h
        <5>1. /\ summary[b] \o SubSeq(entries[b], 1, h) \in Seq(Nat)
              /\ LastFrom(entries[b], h + 1) \in Seq(Nat)
              /\ (summary[b] \o SubSeq(entries[b], 1, h)) \o LastFrom(entries[b], h + 1)
                   = summary[b] \o entries[b]
          BY <3>1, <4>1, Folding
        <5>. QED
          BY <4>2, <5>1
      <4>5. CASE summary' = [summary EXCEPT ![a] = batch[c]] /\ UNCHANGED blanked
        <5>1. summary'[b] = batch[c]
          BY <1>1, <3>3, <4>5 DEF TypeOK
        <5>. QED
          BY <3>1, <4>3, <4>4, <4>5, <5>1
      <4>6. CASE summary' = [summary EXCEPT ![a] = <<>>] /\ blanked' = [blanked EXCEPT ![a] = TRUE]
        <5>1. summary'[b] = <<>> /\ blanked'[b] = TRUE
          BY <1>1, <3>3, <4>6 DEF TypeOK
        <5>2. IsEnd(<<>> \o LastFrom(entries[b], h + 1), cleared[b], Len(said[b]), TRUE)
          BY <3>1, <4>1, EndForgotten
        <5>. QED
          BY <4>3, <4>4, <5>1, <5>2, <<>> \in Seq(Nat)
      <4>. QED
        BY <1>2, <3>3, <4>5, <4>6
    <3>. QED
      BY <3>2, <3>3
  <2>. QED
    BY <1>1, <2>1 DEF Faithful
<1>7. Recent'
  <2>1. ASSUME NEW b \in Agents, kind[b] # "summary"
        PROVE  IsRecent(kind[b], said[b], cleared[b], entries'[b])
    <3>1. b # a
      BY <1>1, <2>1 DEF IInv, Summarizing
    <3>. QED
      BY <1>3, <2>1, <3>1 DEF IInv, Recent
  <2>. QED
    BY <1>1, <2>1 DEF Recent
<1>. QED
  BY <1>4, <1>5, <1>6, <1>7 DEF IInv

LEMMA ClearKeeps ==
  ASSUME IInv, NEW a \in Agents, Clear(a)
  PROVE  IInv'
<1>1. /\ TypeOK /\ mutex[a] = Nobody
      /\ entries' = [entries EXCEPT ![a] = <<>>] /\ summary' = [summary EXCEPT ![a] = <<>>]
      /\ cleared' = [cleared EXCEPT ![a] = Len(said[a])]
      /\ blanked' = [blanked EXCEPT ![a] = FALSE]
      /\ UNCHANGED <<kind, said, mutex, pc, turns, batch, after>>
  BY DEF Clear, Free, callers, IInv
<1>2. TypeOK'
  BY <1>1 DEF TypeOK
<1>3. Summarizing'
  <2>1. ASSUME NEW d \in Callers, NEW b \in Agents, pc[d] = "fold", Agent(d) = b
        PROVE  /\ mutex[b] = d /\ kind[b] = "summary"
               /\ batch[d] = Sent(summary'[b], entries'[b])
    <3>1. mutex[b] = d /\ b # a
      BY <1>1, <2>1, NobodyAssumption DEF IInv, Summarizing
    <3>2. summary'[b] = summary[b] /\ entries'[b] = entries[b]
      BY <1>1, <3>1 DEF TypeOK
    <3>. QED
      BY <2>1, <3>1, <3>2 DEF IInv, Summarizing
  <2>. QED
    BY <1>1, <2>1 DEF Summarizing, Agent
<1>4. Faithful'
  <2>1. ASSUME NEW b \in Agents, kind[b] = "summary"
        PROVE  /\ summary'[b] \in Seq(Nat) /\ entries'[b] \in Seq(Nat)
               /\ IsEnd(summary'[b] \o entries'[b], cleared'[b], Len(said[b]), blanked'[b])
    <3>1. CASE b = a
      <4>1. /\ summary'[b] = <<>> /\ entries'[b] = <<>> /\ cleared'[b] = Len(said[b])
            /\ blanked'[b] = FALSE /\ Len(said[b]) \in Nat
        BY <1>1, <3>1 DEF TypeOK
      <4>2. <<>> \o <<>> = Numbers(Len(said[b]), Len(said[b]))
        BY <4>1 DEF Numbers
      <4>3. IsEnd(<<>> \o <<>>, Len(said[b]), Len(said[b]), FALSE)
        BY <4>1, <4>2 DEF IsEnd
      <4>. QED
        BY <4>1, <4>3, <<>> \in Seq(Nat)
    <3>2. CASE b # a
      <4>1. /\ summary'[b] = summary[b] /\ entries'[b] = entries[b] /\ cleared'[b] = cleared[b]
            /\ blanked'[b] = blanked[b]
        BY <1>1, <3>2 DEF TypeOK
      <4>. QED
        BY <2>1, <4>1 DEF IInv, Faithful
    <3>. QED
      BY <3>1, <3>2
  <2>. QED
    BY <1>1, <2>1 DEF Faithful
<1>5. Recent'
  <2>1. ASSUME NEW b \in Agents, kind[b] # "summary"
        PROVE  IsRecent(kind[b], said[b], cleared'[b], entries'[b])
    <3>1. CASE b = a
      <4>1. entries'[b] = <<>> /\ cleared'[b] = Len(said[b]) /\ said[b] \in Seq(Nat)
        BY <1>1, <3>1 DEF TypeOK
      <4>2. IsRecent(kind[b], said[b], Len(said[b]), <<>>)
        BY <4>1, RecentCleared
      <4>. QED
        BY <4>1, <4>2
    <3>2. CASE b # a
      <4>1. entries'[b] = entries[b] /\ cleared'[b] = cleared[b]
        BY <1>1, <3>2 DEF TypeOK
      <4>. QED
        BY <2>1, <4>1 DEF IInv, Recent
    <3>. QED
      BY <3>1, <3>2
  <2>. QED
    BY <1>1, <2>1 DEF Recent
<1>. QED
  BY <1>2, <1>3, <1>4, <1>5 DEF IInv

LEMMA NextInductive == IInv /\ [Next]_vars => IInv'
<1>. SUFFICES ASSUME IInv, [Next]_vars PROVE IInv'
  OBVIOUS
<1>1. ASSUME NEW c \in Callers, CallerStep(c) PROVE IInv'
  BY <1>1, CallersKeep, AddKeeps, FoldKeeps DEF CallerStep, Ask, Answer
<1>2. ASSUME NEW a \in Agents, Clear(a) PROVE IInv'
  BY <1>2, ClearKeeps
<1>3. CASE UNCHANGED vars
  BY <1>3 DEF vars, memories, callers, IInv, TypeOK, Summarizing, Faithful, Recent, Agent
<1>. QED
  BY <1>1, <1>2, <1>3 DEF Next, Over

LEMMA Inductive == Spec => []IInv
<1>. QED
  BY InitInductive, NextInductive, PTL DEF Spec

-----------------------------------------------------------------------------
(***************************************************************************)
(* Theorems.                                                               *)
(***************************************************************************)

\* Whoever adds and clears while an LLM call of summarize (summary.go:118-144) is under
\* way, summary and entries stand for the conversation since Clear, each entry once
\* and in order; after a blank summary for an end of it.
THEOREM SummaryForgetsNothing == Spec => []NothingForgotten
<1>1. IInv => NothingForgotten
  <2>1. ASSUME IInv, NEW a \in Agents, kind[a] = "summary"
        PROVE  /\ IsSuffix(summary[a] \o entries[a], Suffix(a))
               /\ ~blanked[a] => summary[a] \o entries[a] = Suffix(a)
    <3>1. /\ IsEnd(summary[a] \o entries[a], cleared[a], Len(said[a]), blanked[a])
          /\ cleared[a] \in Nat /\ Len(said[a]) \in Nat /\ blanked[a] \in BOOLEAN
      BY <2>1 DEF IInv, Faithful, TypeOK
    <3>. QED
      BY <3>1, EndIsSuffix DEF Suffix
  <2>. QED
    BY <2>1 DEF NothingForgotten
<1>. QED
  BY <1>1, Inductive, PTL

\* Whatever was trimmed and cleared before, BufferMemory.Add leaves the last MaxSize
\* entries since Clear, and the loop of TokenWindowMemory.trim the longest end of the
\* conversation within the budget, and at least the last entry.
THEOREM TrimKeepsRecent == Spec => []RecentKept
<1>1. IInv => RecentKept
  <2>. SUFFICES ASSUME IInv, NEW a \in Agents, kind[a] # "summary"
                PROVE  ToSet(entries[a]) = {i \in ToSet(Suffix(a)) : Kept(kind[a], said[a], i)}
    BY DEF RecentKept, Kept, Cost
  <2>. DEFINE n == Len(said[a])
              low == cleared[a]
  <2>1. n \in Nat /\ low \in Nat /\ Suffix(a) = Numbers(low, n)
    BY DEF IInv, TypeOK, Suffix
  <2>2. PICK m \in low..n : /\ entries[a] = Numbers(m, n)
                            /\ \A i \in low + 1..n : i > m <=> Kept(kind[a], said[a], i)
    BY DEF IInv, Recent, IsRecent
  <2>. HIDE DEF n, low
  <2>3. m \in Nat /\ low <= m /\ m <= n
    BY <2>1
  <2>4. ToSet(entries[a]) = m + 1..n /\ ToSet(Suffix(a)) = low + 1..n
    <3>1. low <= n
      BY <2>1, <2>3
    <3>2. ToSet(Numbers(low, n)) = low + 1..n
      BY <2>1, <3>1, NumbersFacts
    <3>3. ToSet(Numbers(m, n)) = m + 1..n
      BY <2>1, <2>3, NumbersFacts
    <3>. QED
      BY <2>1, <2>2, <3>2, <3>3
  <2>5. m + 1..n = {i \in low + 1..n : i > m}
    BY <2>1, <2>3
  <2>6. {i \in low + 1..n : i > m} = {i \in low + 1..n : Kept(kind[a], said[a], i)}
    BY <2>2
  <2>. QED
    BY <2>4, <2>5, <2>6
<1>. QED
  BY <1>1, Inductive, PTL
=============================================================================
