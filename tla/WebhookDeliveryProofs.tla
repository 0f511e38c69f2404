----------------------- MODULE WebhookDeliveryProofs -----------------------
(***************************************************************************)
(* The safety properties of WebhookDelivery and its refinement of          *)
(* LossyFifo, for any webhooks, calls, channel capacity and restarts.      *)
(***************************************************************************)
EXTENDS WebhookDelivery, TLAPS

\* A call has put nothing into the channel for the webhooks it still has to visit.
Unsent ==
    /\ \A c \in Calls : call[c] = "idle" =>
          toSend[c] = {} /\ \A h \in Hooks : Job(h, c) \notin Range(accepted)
    /\ \A c \in Calls : \A h \in toSend[c] : Job(h, c) \notin Range(accepted)

\* What the receivers have seen, in terms of the worker's progress.
Seen ==
    /\ Range(got) \subseteq Working \cup done \cup lost
    /\ worker = "posting" => job \notin Range(got)
    /\ worker = "answer" => job \in Range(got)
    /\ outcome = "ok" => worker = "recording" /\ job \in Range(got)

\* Receivers, then the worker, then the channel, oldest delivery first.
Ordered ==
    /\ \A i, k \in DOMAIN queue : i < k => Before(queue[i], queue[k])
    /\ \A x \in Range(got) \cup Working, y \in Range(queue) : Before(x, y)
    /\ worker = "posting" => \A x \in Range(got) : Before(x, job)

IInv == /\ TypeOK /\ Unsent /\ Accounted /\ Seen /\ Ordered
        /\ AtMostOnce /\ InOrder /\ LogFaithful

-----------------------------------------------------------------------------

LEMMA AppendRange ==
    ASSUME NEW S, NEW s \in Seq(S), NEW e \in S
    PROVE  /\ Append(s, e) \in Seq(S)
           /\ Len(Append(s, e)) = Len(s) + 1
           /\ DOMAIN Append(s, e) = 1..(Len(s) + 1)
           /\ DOMAIN s = 1..Len(s)
           /\ \A i \in 1..Len(s) : Append(s, e)[i] = s[i]
           /\ Append(s, e)[Len(s) + 1] = e
           /\ Range(Append(s, e)) = Range(s) \cup {e}
<1>1. /\ Append(s, e) \in Seq(S)
      /\ Len(Append(s, e)) = Len(s) + 1
      /\ DOMAIN Append(s, e) = 1..(Len(s) + 1)
      /\ DOMAIN s = 1..Len(s)
      /\ \A i \in 1..Len(s) : Append(s, e)[i] = s[i]
      /\ Append(s, e)[Len(s) + 1] = e
      /\ Len(s) \in Nat
  OBVIOUS
<1>2. \A i \in 1..(Len(s) + 1) : i = Len(s) + 1 \/ i \in 1..Len(s)
  BY <1>1
<1>3. 1..Len(s) \subseteq 1..(Len(s) + 1) /\ Len(s) + 1 \in 1..(Len(s) + 1)
  BY <1>1
<1> HIDE DEF Range
<1>4. Range(Append(s, e)) \subseteq Range(s) \cup {e}
  BY <1>1, <1>2 DEF Range
<1>5. Range(s) \cup {e} \subseteq Range(Append(s, e))
  BY <1>1, <1>3 DEF Range
<1> QED BY <1>1, <1>4, <1>5

LEMMA TailRange ==
    ASSUME NEW S, NEW s \in Seq(S), s # <<>>
    PROVE  /\ Head(s) \in S /\ Tail(s) \in Seq(S)
           /\ Len(Tail(s)) = Len(s) - 1
           /\ Len(s) \in Nat \ {0}
           /\ Head(s) = s[1]
           /\ DOMAIN s = 1..Len(s)
           /\ DOMAIN Tail(s) = 1..(Len(s) - 1)
           /\ \A i \in 1..(Len(s) - 1) : Tail(s)[i] = s[i + 1]
           /\ Range(s) = {Head(s)} \cup Range(Tail(s))
<1>1. /\ Head(s) \in S /\ Tail(s) \in Seq(S)
      /\ Len(Tail(s)) = Len(s) - 1
      /\ Len(s) \in Nat \ {0}
      /\ Head(s) = s[1]
      /\ DOMAIN s = 1..Len(s)
      /\ DOMAIN Tail(s) = 1..(Len(s) - 1)
      /\ \A i \in 1..(Len(s) - 1) : Tail(s)[i] = s[i + 1]
  OBVIOUS
<1>2. \A i \in 1..Len(s) : i = 1 \/ (i - 1 \in 1..(Len(s) - 1) /\ (i - 1) + 1 = i)
  BY <1>1
<1>3. \A i \in 1..(Len(s) - 1) : i + 1 \in 1..Len(s)
  BY <1>1
<1>4. 1 \in 1..Len(s)
  BY <1>1
<1>5. \A i \in 1..Len(s) : s[i] \in {Head(s)} \cup Range(Tail(s))
  <2> SUFFICES ASSUME NEW i \in 1..Len(s), i # 1 PROVE s[i] \in Range(Tail(s))
    BY <1>1
  <2>1. i - 1 \in DOMAIN Tail(s) /\ Tail(s)[i - 1] = s[i]
    BY <1>1, <1>2
  <2> QED BY <2>1 DEF Range
<1>6. Range(s) \subseteq {Head(s)} \cup Range(Tail(s))
  BY <1>1, <1>5 DEF Range
<1>7. {Head(s)} \cup Range(Tail(s)) \subseteq Range(s)
  BY <1>1, <1>3, <1>4 DEF Range
<1> QED BY <1>1, <1>6, <1>7

-----------------------------------------------------------------------------

\* Every variable keeps its type, and the channel never exceeds its capacity.
THEOREM TypeCorrect == Spec => []TypeOK
<1>1. Init => TypeOK
  BY CapacityAssumption, MaxRestartsAssumption DEF Init, TypeOK
<1>2. TypeOK /\ [Next]_vars => TypeOK'
  <2> SUFFICES ASSUME TypeOK, [Next]_vars PROVE TypeOK'
    OBVIOUS
  <2> USE DEF TypeOK, hookVars, callVars, workVars
  <2>1. ASSUME NEW h \in Hooks, Create(h) \/ Delete(h) PROVE TypeOK'
    BY <2>1 DEF Create, Delete
  <2>2. ASSUME NEW c \in Calls, Query(c) PROVE TypeOK'
    BY <2>2 DEF Query
  <2>3. ASSUME NEW c \in Calls, CallStep(c) PROVE TypeOK'
    <3>1. ASSUME NEW h \in Hooks, Offer(c, h) PROVE TypeOK'
      <4>1. Job(h, c) \in Jobs
        BY DEF Job, Jobs
      <4>2. queue' \in Seq(Jobs) /\ Len(queue') <= Capacity /\ accepted' \in Seq(Jobs)
        BY <3>1, <4>1, AppendRange, CapacityAssumption DEF Offer
      <4> QED BY <3>1, <4>2 DEF Offer
    <3>2. ASSUME NEW h \in Hooks, Drop(c, h) PROVE TypeOK'
      BY <3>2 DEF Drop
    <3>3. CASE Return(c)
      BY <3>3 DEF Return
    <3> QED BY <2>3, <3>1, <3>2, <3>3 DEF CallStep
  <2>4. ASSUME NEW c \in Calls, CallFault(c) PROVE TypeOK'
    BY <2>4 DEF CallFault, QueryFails, CutShort
  <2>5. CASE WorkerStep
    <3>1. CASE Take
      <4>1. job' \in Jobs /\ queue' \in Seq(Jobs) /\ Len(queue') <= Capacity
        BY <3>1, TailRange, CapacityAssumption DEF Take
      <4> QED BY <3>1, <4>1 DEF Take
    <3>2. CASE Arrive
      <4>1. got' \in Seq(Jobs)
        BY <3>2, AppendRange DEF Arrive
      <4> QED BY <3>2, <4>1 DEF Arrive
    <3>3. CASE Unreached \/ \E o \in {"ok", "bad", "error"} : Answer(o)
      BY <3>3 DEF Unreached, Answer
    <3>4. ASSUME NEW written \in BOOLEAN, Record(written) PROVE TypeOK'
      <4>1. [job |-> job, delivered |-> outcome = "ok"] \in LogRows
        BY <3>4 DEF Record, LogRows
      <4>2. log' \in Seq(LogRows)
        BY <3>4, <4>1, AppendRange DEF Record
      <4> QED BY <3>4, <4>2 DEF Record
    <3> QED BY <2>5, <3>1, <3>2, <3>3, <3>4 DEF WorkerStep
  <2>6. CASE Restart
    <3>1. lost' \subseteq Jobs /\ restarts' \in 0..MaxRestarts
      BY <2>6, MaxRestartsAssumption DEF Restart, Range
    <3> QED BY <2>6, <3>1, CapacityAssumption DEF Restart
  <2>7. CASE UNCHANGED vars
    BY <2>7 DEF vars
  <2> QED BY <2>1, <2>2, <2>3, <2>4, <2>5, <2>6, <2>7 DEF Next, Idle
<1> QED BY <1>1, <1>2, PTL DEF Spec

-----------------------------------------------------------------------------

\* Registration and the calls' own bookkeeping touch none of the deliveries.
LEMMA DeliveriesKept ==
    ASSUME IInv, TypeOK', Unsent',
           UNCHANGED <<queue, worker, job, outcome, log, accepted, got, done, lost>>
    PROVE  IInv'
BY DEF IInv, Accounted, Seen, Ordered, AtMostOnce, InOrder, LogFaithful, Working, Before

LEMMA CallOnlyStep ==
    ASSUME IInv, TypeOK', NEW c \in Calls, NEW h \in Hooks,
           \/ Query(c) \/ QueryFails(c) \/ Drop(c, h)
           \/ Return(c) \/ CutShort(c)
    PROVE  IInv'
<1>1. UNCHANGED <<queue, worker, job, outcome, log, accepted, got, done, lost>>
  BY DEF Query, QueryFails, Drop, Return, CutShort, workVars
<1>2. Unsent'
  BY <1>1 DEF IInv, TypeOK, Unsent, Query, QueryFails, Drop, Return, CutShort
<1> QED BY <1>1, <1>2, DeliveriesKept

LEMMA HookStep ==
    ASSUME IInv, TypeOK', NEW h \in Hooks, Create(h) \/ Delete(h)
    PROVE  IInv'
<1>1. UNCHANGED <<queue, worker, job, outcome, log, accepted, got, done, lost>>
      /\ UNCHANGED <<call, toSend>>
  BY DEF Create, Delete, workVars, callVars
<1>2. Unsent'
  BY <1>1 DEF IInv, Unsent
<1> QED BY <1>1, <1>2, DeliveriesKept

\* What was accepted before stays in its place when one more is accepted.
LEMMA BeforeAppend ==
    ASSUME accepted \in Seq(Jobs), NEW j \in Jobs, accepted' = Append(accepted, j)
    PROVE  /\ \A x, y : Before(x, y) => Before(x, y)'
           /\ \A x \in Range(accepted) : Before(x, j)'
<1>1. /\ DOMAIN accepted = 1..Len(accepted)
      /\ DOMAIN accepted' = 1..(Len(accepted) + 1)
      /\ \A i \in 1..Len(accepted) : accepted'[i] = accepted[i]
      /\ accepted'[Len(accepted) + 1] = j
      /\ Len(accepted) \in Nat
  BY AppendRange
<1>2. /\ \A i \in 1..Len(accepted) : i \in 1..(Len(accepted) + 1)
                                     /\ i < Len(accepted) + 1
      /\ Len(accepted) + 1 \in 1..(Len(accepted) + 1)
  BY <1>1
<1>3. \A x, y : Before(x, y) => Before(x, y)'
  BY <1>1, <1>2 DEF Before
<1>4. \A x \in Range(accepted) : Before(x, j)'
  BY <1>1, <1>2 DEF Before, Range
<1> QED BY <1>3, <1>4

LEMMA OfferStep ==
    ASSUME IInv, TypeOK', NEW c \in Calls, NEW h \in Hooks, Offer(c, h)
    PROVE  IInv'
<1>0. PICK j \in Jobs : j = Job(h, c)
  BY DEF Job, Jobs
<1>1. /\ queue' = Append(queue, j) /\ accepted' = Append(accepted, j)
      /\ toSend' = [toSend EXCEPT ![c] = @ \ {h}] /\ call' = call
      /\ UNCHANGED <<worker, job, outcome, log, got, done, lost>>
      /\ h \in toSend[c] /\ call[c] # "idle"
  BY <1>0 DEF Offer, workVars, IInv, Unsent
<1>2. queue \in Seq(Jobs) /\ accepted \in Seq(Jobs)
  BY DEF IInv, TypeOK
<1>3. j \notin Range(accepted)
  BY <1>0, <1>1 DEF IInv, Unsent
<1>4. Range(queue') = Range(queue) \cup {j} /\ Range(accepted') = Range(accepted) \cup {j}
  BY <1>1, <1>2, AppendRange
<1>5. Unsent'
  <2>1. \A d \in Calls, g \in Hooks : Job(g, d) = j => g = h /\ d = c
    BY <1>0 DEF Job
  <2> QED BY <1>1, <1>4, <2>1 DEF IInv, TypeOK, Unsent
<1>6. Accounted'
  <2>1. IsInjective(accepted')
    BY <1>1, <1>2, <1>3, AppendRange DEF IInv, Accounted, IsInjective, Range
  <2>2. j \notin Range(queue)
    BY <1>3 DEF IInv, Accounted
  <2>3. IsInjective(queue')
    BY <1>1, <1>2, <2>2, AppendRange DEF IInv, Accounted, IsInjective, Range
  <2>4. Working' = Working
    BY <1>1 DEF Working
  <2> QED BY <1>1, <1>3, <1>4, <2>1, <2>3, <2>4 DEF IInv, Accounted
<1>7. Seen' /\ AtMostOnce' /\ LogFaithful'
  BY <1>1 DEF IInv, Seen, AtMostOnce, LogFaithful, Working
<1>8. /\ \A x, y : Before(x, y) => Before(x, y)'
      /\ \A x \in Range(accepted) : Before(x, j)'
  BY <1>1, <1>2, BeforeAppend
<1>9. InOrder'
  BY <1>1, <1>8 DEF IInv, InOrder
<1>10. Range(got) \cup Working \cup Range(queue) \subseteq Range(accepted)
  BY DEF IInv, Seen, Accounted
<1>11. Ordered'
  <2>1. (\A i, k \in DOMAIN queue : i < k => Before(queue[i], queue[k]))'
    <3> SUFFICES ASSUME NEW i \in DOMAIN queue', NEW k \in DOMAIN queue', i < k
                 PROVE  Before(queue[i], queue[k])'
      OBVIOUS
    <3>a. PICK x, y : x = queue'[i] /\ y = queue'[k]
      OBVIOUS
    <3>b. Before(x, y)' => Before(queue[i], queue[k])'
      BY <3>a DEF Before
    <3>1. /\ DOMAIN queue' = 1..(Len(queue) + 1) /\ DOMAIN queue = 1..Len(queue)
          /\ \A n \in 1..Len(queue) : queue'[n] = queue[n]
          /\ queue'[Len(queue) + 1] = j /\ Len(queue) \in Nat
      BY <1>1, <1>2, AppendRange
    <3>2. i \in 1..Len(queue) /\ (k \in 1..Len(queue) \/ k = Len(queue) + 1)
      BY <3>1
    <3>3. CASE k \in 1..Len(queue)
      <4>1. Before(queue[i], queue[k])
        BY <3>1, <3>2, <3>3 DEF IInv, Ordered
      <4> QED BY <1>8, <3>a, <3>b, <3>1, <3>2, <3>3, <4>1
    <3>4. CASE k = Len(queue) + 1
      <4>1. queue[i] \in Range(accepted)
        BY <1>10, <3>1, <3>2 DEF Range
      <4> QED BY <1>8, <3>a, <3>b, <3>1, <3>2, <3>4, <4>1
    <3> QED BY <3>2, <3>3, <3>4
  <2>2. Working' = Working
    BY <1>1 DEF Working
  <2>3. \A x \in Range(got') \cup Working', y \in Range(queue') : Before(x, y)'
    BY <1>1, <1>4, <1>8, <1>10, <2>2 DEF IInv, Ordered
  <2>4. (worker = "posting" => \A x \in Range(got) : Before(x, job))'
    <3>1. worker = "posting" => \A x \in Range(got) : Before(x, job)'
      <4>a. PICK w \in {job} : TRUE
        OBVIOUS
      <4>b. \A x : Before(x, job)' <=> Before(x, w)'
        BY <1>1, <4>a DEF Before
      <4> QED BY <1>8, <4>a, <4>b DEF IInv, Ordered
    <3> QED BY <1>1, <3>1
  <2> QED BY <2>1, <2>3, <2>4 DEF Ordered
<1> QED BY <1>5, <1>6, <1>7, <1>9, <1>11 DEF IInv

\* Accepting nothing keeps the order in which deliveries were accepted.
LEMMA BeforeKept ==
    ASSUME UNCHANGED accepted
    PROVE  \A x, y : Before(x, y)' <=> Before(x, y)
BY DEF Before

LEMMA TakeStep ==
    ASSUME IInv, TypeOK', Take
    PROVE  IInv'
<1>1. /\ worker = "idle" /\ queue # <<>>
      /\ worker' = "posting" /\ job' = Head(queue) /\ queue' = Tail(queue)
      /\ UNCHANGED <<call, toSend, outcome, log, accepted, got, done, lost>>
  BY DEF Take, callVars
<1>2. /\ Len(queue) \in Nat \ {0} /\ Head(queue) = queue[1]
      /\ DOMAIN queue = 1..Len(queue) /\ DOMAIN queue' = 1..(Len(queue) - 1)
      /\ \A i \in 1..(Len(queue) - 1) : queue'[i] = queue[i + 1]
      /\ Range(queue) = {job'} \cup Range(queue')
  BY <1>1, TailRange DEF IInv, TypeOK
<1>3. \A i \in 1..(Len(queue) - 1) : i + 1 \in 1..Len(queue) /\ i + 1 # 1 /\ 1 < i + 1
  BY <1>2
<1>4. 1 \in 1..Len(queue)
  BY <1>2
<1>5. job' \notin Range(queue')
  <2>1. \A i \in 1..(Len(queue) - 1) : queue'[i] # queue[1]
    BY <1>2, <1>3, <1>4 DEF IInv, Accounted, IsInjective
  <2> QED BY <1>1, <1>2, <2>1 DEF Range
<1>6. Working = {} /\ Working' = {job'}
  BY <1>1 DEF Working
<1>7. Unsent'
  BY <1>1 DEF IInv, Unsent
<1>8. Accounted'
  <2>1. IsInjective(queue')
    <3> SUFFICES ASSUME NEW i \in 1..(Len(queue) - 1), NEW k \in 1..(Len(queue) - 1),
                        queue'[i] = queue'[k]
                 PROVE  i = k
      BY <1>2 DEF IsInjective
    <3>1. i + 1 = k + 1
      BY <1>2, <1>3 DEF IInv, Accounted, IsInjective
    <3> QED BY <1>2, <3>1
  <2> QED BY <1>1, <1>2, <1>5, <1>6, <2>1 DEF IInv, Accounted
<1>9. Seen' /\ AtMostOnce' /\ LogFaithful'
  <2>1. job' \notin Range(got)
    BY <1>2, <1>6 DEF IInv, Seen, Accounted
  <2> QED BY <1>1, <1>6, <2>1 DEF IInv, Seen, AtMostOnce, LogFaithful
<1>10. \A x, y : Before(x, y)' <=> Before(x, y)
  BY <1>1, BeforeKept
<1>11. InOrder'
  BY <1>1, <1>10 DEF IInv, InOrder
<1>12. Ordered'
  <2>1. (\A i, k \in DOMAIN queue : i < k => Before(queue[i], queue[k]))'
    <3> SUFFICES ASSUME NEW i \in DOMAIN queue', NEW k \in DOMAIN queue', i < k
                 PROVE  Before(queue[i], queue[k])'
      OBVIOUS
    <3>1. i + 1 \in DOMAIN queue /\ k + 1 \in DOMAIN queue /\ i + 1 < k + 1
      BY <1>2, <1>3
    <3>2. Before(queue[i + 1], queue[k + 1])
      BY <3>1 DEF IInv, Ordered
    <3>3. PICK x, y : x = queue'[i] /\ y = queue'[k]
      OBVIOUS
    <3>4. x = queue[i + 1] /\ y = queue[k + 1]
      BY <1>2, <3>3
    <3>5. Before(x, y)
      BY <3>2, <3>4 DEF Before
    <3>6. Before(x, y)'
      BY <1>10, <3>5
    <3> QED BY <3>3, <3>6 DEF Before
  <2>2. \A y \in Range(queue') : Before(queue[1], y)
    <3> SUFFICES ASSUME NEW i \in 1..(Len(queue) - 1) PROVE Before(queue[1], queue'[i])
      BY <1>2 DEF Range
    <3>1. Before(queue[1], queue[i + 1])
      BY <1>2, <1>3, <1>4 DEF IInv, Ordered
    <3>2. queue'[i] = queue[i + 1]
      BY <1>2
    <3> QED BY <3>1, <3>2 DEF Before
  <2>3. \A x \in Range(got), y \in Range(queue) : Before(x, y)
    BY DEF IInv, Ordered
  <2>4. PICK w : w = job' /\ w = queue[1] /\ w \in Range(queue)
    BY <1>1, <1>2
  <2>5. \A y \in Range(queue') : Before(w, y)
    BY <2>2, <2>4
  <2>6. \A x \in Range(got') \cup Working', y \in Range(queue') : Before(x, y)'
    BY <1>1, <1>2, <1>6, <1>10, <2>3, <2>4, <2>5
  <2>7. \A x \in Range(got) : Before(x, w)'
    BY <1>10, <2>3, <2>4
  <2>8. (\A x \in Range(got) : Before(x, job))'
    BY <1>1, <2>4, <2>7 DEF Before
  <2> QED BY <2>1, <2>6, <2>8 DEF Ordered
<1> QED BY <1>7, <1>8, <1>9, <1>11, <1>12 DEF IInv

LEMMA ArriveStep ==
    ASSUME IInv, TypeOK', Arrive
    PROVE  IInv'
<1>1. /\ worker = "posting" /\ worker' = "answer" /\ got' = Append(got, job)
      /\ UNCHANGED <<call, toSend, queue, job, outcome, log, accepted, done, lost>>
      /\ job \in Jobs /\ got \in Seq(Jobs)
  BY DEF Arrive, callVars, IInv, TypeOK
<1>2. /\ DOMAIN got' = 1..(Len(got) + 1) /\ DOMAIN got = 1..Len(got)
      /\ \A i \in 1..Len(got) : got'[i] = got[i]
      /\ got'[Len(got) + 1] = job /\ Len(got) \in Nat
      /\ Range(got') = Range(got) \cup {job}
  BY <1>1, AppendRange
<1>3. Working' = {job} /\ Working = {job}
  BY <1>1 DEF Working
<1>4. job \notin Range(got)
  BY <1>1 DEF IInv, Seen
<1>5. Unsent' /\ Accounted'
  BY <1>1, <1>3 DEF IInv, Unsent, Accounted
<1>6. Seen'
  BY <1>1, <1>2, <1>3 DEF IInv, Seen
<1>7. AtMostOnce'
  BY <1>2, <1>4 DEF IInv, AtMostOnce, IsInjective, Range
<1>8. LogFaithful'
  BY <1>1, <1>2 DEF IInv, LogFaithful
<1>9. \A x, y : Before(x, y)' <=> Before(x, y)
  BY <1>1, BeforeKept
<1>10. Ordered'
  <2>1. (\A i, k \in DOMAIN queue : i < k => Before(queue[i], queue[k]))'
    BY <1>1 DEF IInv, Ordered, Before
  <2>2. \A x \in Range(got') \cup Working', y \in Range(queue') : Before(x, y)'
    BY <1>1, <1>2, <1>3, <1>9 DEF IInv, Ordered
  <2> QED BY <1>1, <2>1, <2>2 DEF Ordered
<1>11. InOrder'
  <2> SUFFICES ASSUME NEW i \in DOMAIN got', NEW k \in DOMAIN got', i < k
               PROVE  Before(got[i], got[k])'
    BY DEF InOrder
  <2>1. PICK x, y : x = got'[i] /\ y = got'[k]
    OBVIOUS
  <2>2. i \in 1..Len(got) /\ (k \in 1..Len(got) \/ k = Len(got) + 1)
    BY <1>2
  <2>3. CASE k \in 1..Len(got)
    <3>1. Before(got[i], got[k])
      BY <1>2, <2>2, <2>3 DEF IInv, InOrder
    <3>2. Before(x, y)
      BY <1>2, <2>1, <2>2, <2>3, <3>1
    <3> QED BY <1>9, <2>1, <3>2 DEF Before
  <2>4. CASE k = Len(got) + 1
    <3>1. Before(got[i], job)
      BY <1>1, <1>2, <2>2 DEF IInv, Ordered, Range
    <3>2. Before(x, y)
      BY <1>2, <2>1, <2>2, <2>4, <3>1
    <3> QED BY <1>9, <2>1, <3>2 DEF Before
  <2> QED BY <2>2, <2>3, <2>4
<1> QED BY <1>5, <1>6, <1>7, <1>8, <1>10, <1>11 DEF IInv

LEMMA OutcomeStep ==
    ASSUME IInv, TypeOK',
           Unreached \/ \E o \in {"ok", "bad", "error"} : Answer(o)
    PROVE  IInv'
<1>1. /\ worker \in {"posting", "answer"} /\ worker' = "recording"
      /\ UNCHANGED <<call, toSend, queue, job, log, accepted, got, done, lost>>
  BY DEF Unreached, Answer, callVars
<1>2. Working' = {job} /\ Working = {job}
  BY <1>1 DEF Working
<1>3. outcome' = "ok" => job \in Range(got)
  BY DEF Unreached, Answer, IInv, Seen
<1>4. Unsent' /\ Accounted' /\ Seen' /\ AtMostOnce' /\ LogFaithful'
  BY <1>1, <1>2, <1>3 DEF IInv, Unsent, Accounted, Seen, AtMostOnce, LogFaithful
<1>5. Ordered' /\ InOrder'
  BY <1>1, <1>2 DEF IInv, Ordered, InOrder, Before
<1> QED BY <1>4, <1>5 DEF IInv

LEMMA RecordStep ==
    ASSUME IInv, TypeOK', NEW written \in BOOLEAN, Record(written)
    PROVE  IInv'
<1>1. /\ worker = "recording" /\ worker' = "idle" /\ outcome' = "none"
      /\ done' = done \cup {job}
      /\ UNCHANGED <<call, toSend, queue, accepted, got, lost>>
      /\ job \in Jobs /\ log \in Seq(LogRows)
  BY DEF Record, callVars, IInv, TypeOK
<1>2. Working = {job} /\ Working' = {}
  BY <1>1 DEF Working
<1>3. Unsent' /\ Accounted' /\ Seen' /\ AtMostOnce'
  BY <1>1, <1>2 DEF IInv, Unsent, Accounted, Seen, AtMostOnce
<1>4. Ordered' /\ InOrder'
  BY <1>1, <1>2 DEF IInv, Ordered, InOrder, Before
<1>5. LogFaithful'
  <2>1. CASE ~written
    BY <1>1, <2>1 DEF Record, IInv, LogFaithful
  <2>2. CASE written
    <3> DEFINE row == [job |-> job, delivered |-> outcome = "ok"]
    <3>1. row \in LogRows /\ row.job = job /\ (row.delivered => job \in Range(got))
      BY <1>1 DEF LogRows, IInv, Seen
    <3>2. log' = Append(log, row)
      BY <2>2 DEF Record
    <3> HIDE DEF row
    <3>3. /\ DOMAIN log' = 1..(Len(log) + 1) /\ DOMAIN log = 1..Len(log)
          /\ \A i \in 1..Len(log) : log'[i] = log[i]
          /\ log'[Len(log) + 1] = row /\ Len(log) \in Nat
      BY <1>1, <3>1, <3>2, AppendRange
    <3>4. \A i \in DOMAIN log' : i \in 1..Len(log) \/ i = Len(log) + 1
      BY <3>3
    <3>5. job \notin done
      BY <1>2 DEF IInv, Accounted
    <3> QED BY <1>1, <3>1, <3>3, <3>4, <3>5 DEF IInv, LogFaithful
  <2> QED BY <2>1, <2>2
<1> QED BY <1>3, <1>4, <1>5 DEF IInv

LEMMA RestartStep ==
    ASSUME IInv, TypeOK', Restart
    PROVE  IInv'
<1>1. /\ queue' = <<>> /\ worker' = "idle" /\ outcome' = "none"
      /\ lost' = lost \cup Range(queue) \cup Working
      /\ call' = [c \in Calls |-> IF call[c] = "sending" THEN "cut" ELSE call[c]]
      /\ toSend' = [c \in Calls |-> {}]
      /\ UNCHANGED <<log, accepted, got, done>>
  BY DEF Restart, Working
<1>2. Range(queue') = {} /\ DOMAIN queue' = {} /\ Working' = {}
  BY <1>1 DEF Range, Working
<1>3. Unsent'
  BY <1>1 DEF IInv, TypeOK, Unsent
<1>4. Accounted'
  <2>1. IsInjective(queue')
    BY <1>2 DEF IsInjective
  <2> QED BY <1>1, <1>2, <2>1 DEF IInv, Accounted
<1>5. Seen' /\ AtMostOnce' /\ LogFaithful'
  BY <1>1, <1>2 DEF IInv, Seen, AtMostOnce, LogFaithful
<1>6. Ordered' /\ InOrder'
  BY <1>1, <1>2 DEF IInv, Ordered, InOrder, Before
<1> QED BY <1>3, <1>4, <1>5, <1>6 DEF IInv

LEMMA InductiveInvariant == Spec => []IInv
<1>1. Init => IInv
  <2> SUFFICES ASSUME Init, TypeOK PROVE IInv
    BY CapacityAssumption, MaxRestartsAssumption DEF Init, TypeOK
  <2>1. /\ Range(queue) = {} /\ Range(accepted) = {} /\ Range(got) = {}
        /\ DOMAIN queue = {} /\ DOMAIN accepted = {} /\ DOMAIN got = {} /\ DOMAIN log = {}
        /\ Working = {} /\ done = {} /\ lost = {} /\ worker = "idle" /\ outcome = "none"
        /\ toSend = [c \in Calls |-> {}]
    BY DEF Init, Range, Working
  <2> QED BY <2>1 DEF IInv, Unsent, Accounted, Seen, Ordered, AtMostOnce, InOrder,
                      LogFaithful, IsInjective
<1>2. IInv /\ TypeOK' /\ [Next]_vars => IInv'
  <2> SUFFICES ASSUME IInv, TypeOK', [Next]_vars PROVE IInv'
    OBVIOUS
  <2>1. CASE WorkerStep
    BY <2>1, TakeStep, ArriveStep, OutcomeStep, RecordStep DEF WorkerStep
  <2>2. ASSUME NEW c \in Calls, Query(c) \/ CallStep(c) \/ CallFault(c) PROVE IInv'
    <3>1. ASSUME NEW h \in Hooks,
                 \/ Query(c) \/ QueryFails(c) \/ Drop(c, h)
                 \/ Return(c) \/ CutShort(c)
          PROVE  IInv'
      BY <3>1, CallOnlyStep
    <3>2. ASSUME NEW h \in Hooks, Offer(c, h) PROVE IInv'
      BY <3>2, OfferStep
    <3>3. CASE Hooks = {}
      <4>1. UNCHANGED <<queue, worker, job, outcome, log, accepted, got, done, lost>>
        BY <2>2, <3>3 DEF CallStep, CallFault, Query, QueryFails, Return, CutShort, workVars
      <4>2. Unsent'
        BY <2>2, <3>3, <4>1 DEF IInv, TypeOK, Unsent
      <4> QED BY <4>1, <4>2, DeliveriesKept
    <3> QED BY <2>2, <3>1, <3>2, <3>3 DEF CallStep, CallFault
  <2>3. CASE UNCHANGED vars
    <3>1. UNCHANGED <<queue, worker, job, outcome, log, accepted, got, done, lost, call,
                      toSend>>
      BY <2>3 DEF vars, callVars, workVars
    <3>2. Unsent'
      BY <3>1 DEF IInv, Unsent
    <3> QED BY <3>1, <3>2, DeliveriesKept
  <2> QED BY <2>1, <2>2, <2>3, HookStep, RestartStep DEF Next, Idle
<1> QED BY <1>1, <1>2, TypeCorrect, PTL DEF Spec

-----------------------------------------------------------------------------

\* Accepted deliveries are never forgotten nor doubled.
THEOREM DeliveriesAccounted == Spec => []Accounted
BY InductiveInvariant, PTL DEF IInv

\* No receiver gets an event occurrence twice.
THEOREM PostedAtMostOnce == Spec => []AtMostOnce
BY InductiveInvariant, PTL DEF IInv

\* POSTs arrive in the order of acceptance.
THEOREM PostedInOrder == Spec => []InOrder
BY InductiveInvariant, PTL DEF IInv

\* The delivery log has one row per delivery and never claims a POST not made.
THEOREM LogIsFaithful == Spec => []LogFaithful
BY InductiveInvariant, PTL DEF IInv

-----------------------------------------------------------------------------
(***************************************************************************)
(* The refinement of LossyFifo.                                            *)
(***************************************************************************)

Pipe == (IF worker = "posting" THEN <<job>> ELSE <<>>) \o queue

LEMMA ConsProperties ==
    ASSUME NEW S, NEW j \in S, NEW q \in Seq(S)
    PROVE  /\ <<j>> \o q # <<>>
           /\ Head(<<j>> \o q) = j
           /\ Tail(<<j>> \o q) = q
           /\ q # <<>> => <<Head(q)>> \o Tail(q) = q
           /\ <<>> \o q = q
           /\ \A e \in S : Append(<<j>> \o q, e) = <<j>> \o Append(q, e)
OBVIOUS

LEMMA StepImplements ==
    ASSUME IInv, [Next]_vars
    PROVE  [Fifo!Next]_(<<Range(accepted), Pipe, got>>)
<1> USE DEF Fifo!Next
<1>0. queue \in Seq(Jobs)
  BY DEF IInv, TypeOK
<1>1. ASSUME NEW c \in Calls, NEW h \in Hooks, Offer(c, h)
      PROVE  \E m \in Jobs : Fifo!Send(m)
  <2>1. PICK j \in Jobs : j = Job(h, c)
    BY DEF Job, Jobs
  <2>2. /\ queue' = Append(queue, j) /\ accepted' = Append(accepted, j)
        /\ UNCHANGED <<worker, job, got>> /\ accepted \in Seq(Jobs)
    BY <1>1, <2>1 DEF Offer, workVars, IInv, TypeOK
  <2>3. j \notin Range(accepted)
    BY <1>1, <2>1 DEF IInv, Unsent, Offer
  <2>4. Range(accepted') = Range(accepted) \cup {j}
    BY <2>2, AppendRange
  <2>5. Pipe' = Append(Pipe, j)
    <3>1. CASE worker = "posting"
      <4>1. job \in Jobs
        BY <3>1 DEF IInv, TypeOK
      <4> QED BY <1>0, <2>2, <3>1, <4>1, ConsProperties DEF Pipe
    <3>2. CASE worker # "posting"
      <4>1. Append(queue, j) \in Seq(Jobs)
        BY <1>0, AppendRange
      <4>2. Pipe = queue /\ Pipe' = Append(queue, j)
        BY <1>0, <2>2, <3>2, <4>1, ConsProperties DEF Pipe
      <4> QED BY <4>2
    <3> QED BY <3>1, <3>2
  <2> QED BY <2>2, <2>3, <2>4, <2>5 DEF Fifo!Send, Pipe
<1>2. CASE Take
  <2>1. /\ Head(queue) \in Jobs /\ Tail(queue) \in Seq(Jobs)
        /\ <<Head(queue)>> \o Tail(queue) = queue
    <3>1. Head(queue) \in Jobs /\ Tail(queue) \in Seq(Jobs)
      BY <1>0, <1>2, TailRange DEF Take
    <3> QED BY <1>0, <1>2, <3>1, ConsProperties DEF Take
  <2>2. Pipe' = Pipe
    BY <1>0, <1>2, <2>1, ConsProperties, SMTT(30) DEF Take, Pipe
  <2> QED BY <1>2, <2>2 DEF Take
<1>3. CASE Arrive
  <2>1. job \in Jobs /\ worker = "posting" /\ worker' = "answer"
        /\ queue' = queue /\ accepted' = accepted /\ got' = Append(got, job)
    BY <1>3 DEF Arrive, IInv, TypeOK
  <2>2. Pipe = <<job>> \o queue /\ Pipe' = queue
    BY <1>0, <2>1, ConsProperties DEF Pipe
  <2>3. Pipe # <<>> /\ Head(Pipe) = job /\ Tail(Pipe) = queue
    BY <1>0, <2>1, <2>2, ConsProperties, SMTT(30)
  <2> QED BY <2>1, <2>2, <2>3 DEF Fifo!Emerge, Pipe
<1>4. CASE Unreached
  <2>1. job \in Jobs /\ worker = "posting" /\ worker' = "recording"
        /\ queue' = queue /\ accepted' = accepted /\ got' = got
    BY <1>4 DEF Unreached, IInv, TypeOK
  <2>2. Pipe = <<job>> \o queue /\ Pipe' = queue
    BY <1>0, <2>1, ConsProperties DEF Pipe
  <2>3. Pipe # <<>> /\ Tail(Pipe) = queue
    BY <1>0, <2>1, <2>2, ConsProperties
  <2> QED BY <2>1, <2>2, <2>3 DEF Fifo!GiveUp, Pipe
<1>5. ASSUME NEW o \in {"ok", "bad", "error"}, Answer(o)
      PROVE  UNCHANGED <<Range(accepted), Pipe, got>>
  BY <1>5 DEF Answer, Pipe
<1>6. ASSUME NEW written \in BOOLEAN, Record(written)
      PROVE  UNCHANGED <<Range(accepted), Pipe, got>>
  BY <1>6 DEF Record, Pipe
<1>7. CASE Restart
  <2>1. Pipe' = <<>>
    <3>1. queue' = <<>> /\ worker' = "idle"
      BY <1>7 DEF Restart
    <3> QED BY <3>1 DEF Pipe
  <2> QED BY <1>7, <2>1 DEF Restart, Fifo!Reset, Pipe
<1>8. ASSUME UNCHANGED <<accepted, worker, job, queue, got>>
      PROVE  UNCHANGED <<Range(accepted), Pipe, got>>
  BY <1>8 DEF Pipe
<1>9. ASSUME NEW h \in Hooks, Create(h) \/ Delete(h)
      PROVE  UNCHANGED <<accepted, worker, job, queue, got>>
  BY <1>9 DEF Create, Delete, workVars
<1>10. ASSUME NEW c \in Calls, Query(c) \/ CallStep(c) \/ CallFault(c),
              ~ \E h \in Hooks : Offer(c, h)
       PROVE  UNCHANGED <<accepted, worker, job, queue, got>>
  BY <1>10 DEF CallStep, CallFault, Query, QueryFails, Drop, Return, CutShort, workVars
<1>11. UNCHANGED vars => UNCHANGED <<accepted, worker, job, queue, got>>
  BY DEF vars, workVars
<1> QED BY <1>1, <1>2, <1>3, <1>4, <1>5, <1>6, <1>7, <1>8, <1>9, <1>10, <1>11
        DEF Next, WorkerStep, Idle

\* Delivery is a first-in first-out channel that carries a message at most once.
THEOREM FifoRefinement == Spec => ImplementsFifo
<1>1. Init => Fifo!Init
  BY DEF Init, Fifo!Init, Range
<1>2. IInv /\ [Next]_vars => [Fifo!Next]_(<<Range(accepted),
          (IF worker = "posting" THEN <<job>> ELSE <<>>) \o queue, got>>)
  BY StepImplements DEF Pipe
<1> QED BY <1>1, <1>2, InductiveInvariant, PTL DEF Spec, ImplementsFifo, Fifo!Spec
=============================================================================
