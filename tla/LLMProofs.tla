----------------------------- MODULE LLMProofs ------------------------------
(***************************************************************************)
(* The two calls of the LLM gateway.  Chat: what it may cost and when it may *)
(* give up, for every set of providers, every configuration and every value *)
(* of LLM_MAX_RETRIES.  ChatStream: what its client receives, for every      *)
(* capacity of the channel, every length of an answer and every middleware. *)
(***************************************************************************)
EXTENDS LLMGateway, LLMStream, SequenceTheorems, TLAPS

-----------------------------------------------------------------------------
(***************************************************************************)
(* Chat.                                                                   *)
(***************************************************************************)
\* Nothing is left to try with provider p.
Spent(p) == p \notin configured \/ calls[p] = Attempts \/ cancelled

\* The loop counter says how often the current provider was called.
Counted ==
    /\ pc = "lookup" => calls[current] = 0
    /\ pc \in {"begin", "backoff"} => calls[current] = attempt
    /\ pc = "call" => calls[current] = attempt + 1

\* A round runs on a configured provider, with an attempt to make.
InRound ==
    pc \in {"begin", "call", "backoff"} => current \in configured /\ 0 <= maxRetries

\* Providers whose turn has not come were not called, and the fallback's turn comes
\* when the primary is spent.
InTurn ==
    /\ \A p \in Providers : p \notin {primary, current} => calls[p] = 0
    /\ current # primary => Spent(primary)
    /\ pc = "error" => Spent(current) /\ (HasFallback => current = fallback)

\* Calls begun after the end of the context: one per provider at most.
Turns == IF current = primary THEN 0 ELSE 1
LateBound ==
    /\ doomed => cancelled
    /\ ~cancelled => late = 0
    /\ pc \in {"lookup", "begin", "backoff"} => late <= Turns
    /\ pc = "call" => late <= Turns + (IF doomed THEN 1 ELSE 0)
    /\ pc \in Finished => late <= Turns + 1

IInv == TypeOK /\ CallBudget /\ Counted /\ InRound /\ InTurn /\ LateBound

-----------------------------------------------------------------------------

LEMMA InitInductive == Init => IInv
<1>. SUFFICES ASSUME Init PROVE IInv
  OBVIOUS
<1>. USE RetrySettingsAssumption DEF Init
<1>1. TypeOK
  BY DEF TypeOK, Finished, Targets, HasFallback
<1>2. CallBudget
  <2>1. maxRetries \in Int /\ \A p \in Providers : calls[p] = 0
    OBVIOUS
  <2>2. Attempts >= 0
    BY <2>1 DEF Attempts
  <2>3. ASSUME NEW p \in Providers
        PROVE  calls[p] <= Attempts /\ ~(calls[p] > 0)
    BY <2>1, <2>2
  <2>. QED
    BY <2>3 DEF CallBudget
<1>3. Counted /\ InRound /\ InTurn /\ LateBound
  BY DEF Counted, InRound, InTurn, LateBound, Turns, Finished
<1>. QED
  BY <1>1, <1>2, <1>3 DEF IInv

\* chatWithRetry ends with an error while its provider is spent.
LEMMA GiveUpKeeps ==
    ASSUME IInv, GiveUp, Spent(current), attempt' \in {0} \cup 1..maxRetries,
           UNCHANGED <<settings, content, cancelled, doomed, calls, late>>,
           late <= Turns + 1
    PROVE  IInv'
<1>. USE DEF IInv
<1>1. calls[current] <= Attempts /\ calls[current] \in Nat /\ Attempts \in Nat
  BY RetrySettingsAssumption DEF CallBudget, TypeOK, Attempts, Targets, HasFallback
<1>2. CASE HasFallback /\ current = primary
  <2>1. pc' = "lookup" /\ current' = fallback /\ fallback \in Providers
    BY <1>2 DEF GiveUp, HasFallback, TypeOK
  <2>2. TypeOK'
    BY <1>2, <2>1 DEF TypeOK, settings, Targets, HasFallback, Finished
  <2>3. CallBudget'
    BY DEF CallBudget, settings, Attempts, Targets, HasFallback
  <2>4. calls[fallback] = 0
    BY <1>2, <2>1 DEF InTurn, HasFallback
  <2>5. Counted' /\ InRound' /\ InTurn'
    BY <1>2, <2>1, <2>4 DEF Counted, InRound, InTurn, Spent, Attempts, settings, HasFallback
  <2>6. LateBound'
    BY <1>2, <2>1 DEF LateBound, Turns, HasFallback, Finished, settings
  <2>. QED
    BY <2>2, <2>3, <2>5, <2>6
<1>3. CASE ~(HasFallback /\ current = primary)
  <2>1. pc' = "error" /\ current' = current
    BY <1>3 DEF GiveUp
  <2>2. TypeOK'
    BY <2>1 DEF TypeOK, settings, Targets, HasFallback, Finished
  <2>3. CallBudget'
    BY DEF CallBudget, settings, Attempts, Targets, HasFallback
  <2>4. HasFallback => current = fallback
    BY <1>3 DEF TypeOK, Targets
  <2>5. Counted' /\ InRound' /\ InTurn'
    BY <2>1, <2>4 DEF Counted, InRound, InTurn, Spent, Attempts, settings, HasFallback
  <2>6. LateBound'
    BY <2>1 DEF LateBound, Turns, Finished, settings
  <2>. QED
    BY <2>2, <2>3, <2>5, <2>6
<1>. QED
  BY <1>2, <1>3

LEMMA NextInductive == IInv /\ [Next]_vars => IInv'
<1>. SUFFICES ASSUME IInv, [Next]_vars PROVE IInv'
  OBVIOUS
<1>. USE DEF IInv
<1>t. /\ maxRetries \in Int /\ attempt \in Int /\ late \in Nat
      /\ current \in Providers /\ calls[current] \in Nat
  BY RetrySettingsAssumption DEF TypeOK, Targets, HasFallback
<1>1. CASE Lookup
  <2>1. CASE current \in configured /\ 0 <= maxRetries
    <3>1. TypeOK'
      BY <1>1, <2>1 DEF Lookup, TypeOK, settings, Targets, HasFallback
    <3>2. CallBudget'
      BY <1>1 DEF Lookup, CallBudget, settings, Attempts, Targets, HasFallback
    <3>3. Counted' /\ InRound' /\ InTurn' /\ LateBound'
      BY <1>1, <2>1 DEF Lookup, Counted, InRound, InTurn, Spent, Attempts, LateBound, Turns,
                        Finished, settings
    <3>. QED
      BY <3>1, <3>2, <3>3
  <2>2. CASE ~(current \in configured /\ 0 <= maxRetries)
    <3>1. GiveUp /\ attempt' = 0
             /\ UNCHANGED <<settings, content, cancelled, doomed, calls, late>>
      BY <1>1, <2>2 DEF Lookup
    <3>2. Spent(current)
      BY <1>1, <2>2, <1>t DEF Lookup, Counted, Spent, Attempts
    <3>3. late <= Turns + 1
      BY <1>1, <1>t DEF Lookup, LateBound, Turns
    <3>. QED
      BY <3>1, <3>2, <3>3, GiveUpKeeps
  <2>. QED
    BY <2>1, <2>2
<1>2. CASE BeginCall
  <2>1. PICK p \in Providers : p = current
    BY <1>t
  <2>2. p \in configured /\ p \in Targets /\ 0 <= maxRetries /\ attempt <= maxRetries
    BY <1>2, <2>1 DEF BeginCall, InRound, TypeOK
  <2>3. calls' = [calls EXCEPT ![p] = @ + 1] /\ calls[p] = attempt
    BY <1>2, <2>1 DEF BeginCall, Counted
  <2>4. /\ calls' \in [Providers -> Nat]
        /\ calls'[p] = attempt + 1
        /\ \A q \in Providers : q # p => calls'[q] = calls[q]
    BY <2>3, <1>t DEF TypeOK
  <2>5. TypeOK'
    BY <1>2, <2>4, <1>t DEF BeginCall, TypeOK, settings, Targets, HasFallback
  <2>6. CallBudget'
    BY <1>2, <2>2, <2>4, <1>t DEF BeginCall, CallBudget, settings, Attempts, Targets, HasFallback
  <2>7. Counted' /\ InRound'
    BY <1>2, <2>1, <2>2, <2>4 DEF BeginCall, Counted, InRound, settings
  <2>8. InTurn'
    <3>1. current # primary => Spent(primary)'
      BY <1>2, <2>1, <2>4 DEF BeginCall, InTurn, Spent, Attempts, settings, TypeOK
    <3>2. pc' = "call" /\ current' = current /\ primary' = primary
      BY <1>2 DEF BeginCall, settings
    <3>. QED
      BY <2>1, <2>4, <3>1, <3>2 DEF InTurn
  <2>9. LateBound'
    BY <1>2, <1>t DEF BeginCall, LateBound, Turns, Finished, settings
  <2>. QED
    BY <2>5, <2>6, <2>7, <2>8, <2>9
<1>3. ASSUME NEW c \in {"real", "blank", "refusal"}, Succeed(c) PROVE IInv'
  <2>1. TypeOK'
    BY <1>3 DEF Succeed, TypeOK, settings, Targets, HasFallback, Finished
  <2>2. CallBudget' /\ Counted' /\ InRound' /\ InTurn'
    BY <1>3 DEF Succeed, CallBudget, Counted, InRound, InTurn, Spent, settings, Attempts,
                Targets, HasFallback
  <2>3. LateBound'
    BY <1>3, <1>t DEF Succeed, LateBound, Turns, Finished, settings
  <2>. QED
    BY <2>1, <2>2, <2>3
<1>4. CASE CallFails
  <2>1. pc = "call" /\ UNCHANGED <<settings, content, cancelled, doomed, calls, late>>
    BY <1>4 DEF CallFails
  <2>2. /\ calls[current] = attempt + 1
        /\ late <= Turns + (IF doomed THEN 1 ELSE 0)
        /\ doomed => cancelled
    BY <2>1 DEF Counted, LateBound
  <2>3. CASE /\ attempt < maxRetries /\ ~cancelled
             /\ attempt' = attempt + 1
             /\ pc' = "backoff" /\ UNCHANGED current
    <3>1. TypeOK'
      BY <2>1, <2>3, <1>t DEF TypeOK, settings, Targets, HasFallback
    <3>2. CallBudget' /\ Counted' /\ InRound' /\ InTurn'
      BY <2>1, <2>2, <2>3, <1>t DEF CallBudget, Counted, InRound, InTurn, Spent, settings,
                                    Attempts, Targets, HasFallback
    <3>3. LateBound'
      BY <2>1, <2>2, <2>3, <1>t DEF LateBound, Turns, Finished, settings
    <3>. QED
      BY <3>1, <3>2, <3>3
  <2>4. CASE /\ attempt >= maxRetries \/ cancelled
             /\ GiveUp /\ UNCHANGED attempt
    <3>1. Spent(current)
      <4>1. attempt <= maxRetries
        BY <2>1, <1>t DEF TypeOK, InRound
      <4>. QED
        BY <2>1, <2>2, <2>4, <4>1, <1>t DEF Spent, Attempts, InRound
    <3>2. late <= Turns + 1
      BY <2>2, <1>t DEF Turns
    <3>. QED
      BY <2>1, <2>4, <3>1, <3>2, GiveUpKeeps DEF TypeOK
  <2>. QED
    BY <1>4, <2>3, <2>4 DEF CallFails
<1>5. CASE TimerFires
  <2>1. TypeOK'
    BY <1>5 DEF TimerFires, TypeOK, settings, Targets, HasFallback
  <2>2. CallBudget' /\ Counted' /\ InRound' /\ InTurn'
    BY <1>5 DEF TimerFires, CallBudget, Counted, InRound, InTurn, Spent, settings, Attempts,
                Targets, HasFallback
  <2>3. LateBound'
    BY <1>5, <1>t DEF TimerFires, LateBound, Turns, Finished, settings
  <2>. QED
    BY <2>1, <2>2, <2>3
<1>6. CASE BackoffCut
  <2>1. late <= Turns + 1
    BY <1>6, <1>t DEF BackoffCut, LateBound, Turns
  <2>2. Spent(current)
    BY <1>6 DEF BackoffCut, Spent
  <2>. QED
    BY <1>6, <2>1, <2>2, GiveUpKeeps DEF BackoffCut, TypeOK
<1>7. CASE Cancel
  <2>1. TypeOK'
    BY <1>7 DEF Cancel, TypeOK, settings, Targets, HasFallback
  <2>2. CallBudget' /\ Counted' /\ InRound' /\ InTurn'
    BY <1>7 DEF Cancel, CallBudget, Counted, InRound, InTurn, Spent, settings, Attempts,
                Targets, HasFallback, Finished
  <2>3. LateBound'
    BY <1>7, <1>t DEF Cancel, LateBound, Turns, Finished, settings
  <2>. QED
    BY <2>1, <2>2, <2>3
<1>8. CASE UNCHANGED vars
  BY <1>8 DEF vars, settings, TypeOK, CallBudget, Counted, InRound, InTurn, Spent, LateBound,
              Turns, Attempts, Targets, HasFallback
<1>. QED
  BY <1>1, <1>2, <1>3, <1>4, <1>5, <1>6, <1>7, <1>8
     DEF Next, Progress, Answered, RefusalTaken, Terminated

LEMMA InductiveInvariant == Spec => []IInv
  BY InitInductive, NextInductive, PTL DEF Spec

-----------------------------------------------------------------------------

\* The types of the state of gateway.Chat.
THEOREM TypeCorrect == Spec => []TypeOK
<1>1. IInv => TypeOK
  BY DEF IInv
<1>. QED
  BY <1>1, InductiveInvariant, PTL

\* A Chat makes LLM_MAX_RETRIES + 1 calls of each of its two providers at most, and
\* calls no other.
THEOREM CallsAreBounded == Spec => []CallBudget
<1>1. IInv => CallBudget
  BY DEF IInv
<1>. QED
  BY <1>1, InductiveInvariant, PTL

\* The fallback is called only after the primary is spent.
THEOREM FallbackIsLast == Spec => []FallbackComesLast
<1>1. IInv => FallbackComesLast
  BY DEF IInv, TypeOK, InTurn, Spent, FallbackComesLast, HasFallback
<1>. QED
  BY <1>1, InductiveInvariant, PTL

\* An error is returned only when both providers are spent.
THEOREM ErrorsAreFinal == Spec => []ErrorIsExhausted
<1>1. IInv => ErrorIsExhausted
  BY DEF IInv, TypeOK, InTurn, Spent, ErrorIsExhausted, Targets, HasFallback
<1>. QED
  BY <1>1, InductiveInvariant, PTL

\* Once its context is done a Chat begins two calls at most.
THEOREM CancelIsObeyed == Spec => []CancelStops
<1>1. IInv => CancelStops
  BY DEF IInv, TypeOK, LateBound, Turns, Finished, CancelStops
<1>. QED
  BY <1>1, InductiveInvariant, PTL

\* Whichever provider answers and however often the others failed, the answer comes
\* from one that the request may use and that can answer, unless a client that ignores
\* the status (ollama.go) took a refusal for it.
THEOREM AnswersHaveAnOrigin == Spec => []AnswersAreGenuine
<1>1. Init => AnswersAreGenuine
  BY DEF Init, AnswersAreGenuine
<1>2. IInv /\ AnswersAreGenuine /\ [Next]_vars => AnswersAreGenuine'
  <2>. SUFFICES ASSUME IInv, AnswersAreGenuine, [Next]_vars PROVE AnswersAreGenuine'
    OBVIOUS
  <2>1. CASE Lookup \/ BeginCall \/ CallFails \/ TimerFires \/ BackoffCut
    <3>1. pc' # "ok"
      BY <2>1 DEF Lookup, BeginCall, CallFails, TimerFires, BackoffCut, GiveUp
    <3>. QED
      BY <3>1 DEF AnswersAreGenuine
  <2>2. CASE Answered \/ RefusalTaken
    <3>1. current \in Targets \cap configured
      BY <2>2 DEF Answered, RefusalTaken, Succeed, IInv, TypeOK, InRound
    <3>2. UNCHANGED <<settings, current>>
      BY <2>2 DEF Answered, RefusalTaken, Succeed
    <3>3. \/ MayAnswer(current) /\ content' \in {"real", "blank"}
          \/ current \in Lenient /\ content' = "refusal"
      BY <2>2 DEF Answered, RefusalTaken, Succeed
    <3>. QED
      BY <3>1, <3>2, <3>3 DEF AnswersAreGenuine, settings, Targets, HasFallback, MayAnswer
  <2>3. CASE Cancel \/ UNCHANGED vars
    <3>1. UNCHANGED <<settings, pc, current, content>>
      BY <2>3 DEF Cancel, vars
    <3>. QED
      BY <3>1 DEF AnswersAreGenuine, settings, Targets, HasFallback, MayAnswer
  <2>. QED
    BY <2>1, <2>2, <2>3 DEF Next, Progress, Terminated
<1>. QED
  BY <1>1, <1>2, InductiveInvariant, PTL DEF Spec

-----------------------------------------------------------------------------
(***************************************************************************)
(* ChatStream.                                                             *)
(***************************************************************************)
Chunk == [type : {"text", "blank", "done", "error"}, part : Nat]

StreamTypeOK ==
    /\ handler \in {"start", "reading"} \cup HandlerOver
    /\ producer \in {"none", "recv", "send", "last", "closed"}
    /\ held \in Chunk
    /\ chan \in Seq(Chunk)
    /\ parts \in Nat
    /\ ending \in {"none"} \cup Ends
    /\ refused \in BOOLEAN
    /\ here \in BOOLEAN
    /\ expired \in BOOLEAN
    /\ wrote \in Seq(Chunk)

\* The chunk that ends the stream, if there is one.
Closing == Final(IF ending = "error" THEN "error" ELSE "done")
WithoutFinal == ending = "cut" /\ kind = "anthropic"

\* The i-th chunk of the whole stream.
Nth(i) == IF i <= parts THEN Part(i) ELSE Closing

\* What the goroutine has sent so far.
Sent == CASE producer = "send" -> parts - 1
          [] producer = "closed" /\ ~WithoutFinal -> parts + 1
          [] OTHER -> parts

\* While all that is written arrives, what the client has and what is in the channel
\* are the first chunks of the stream.
Delivered == Arrives => Len(wrote) + Len(chan) = Sent
Forwarded == Arrives => \A i \in 1..Len(wrote) : wrote[i] = Nth(i)
Queued == Arrives => \A i \in 1..Len(chan) : chan[i] = Nth(Len(wrote) + i)

\* The chunk about to be sent is the next one.
Holding ==
    /\ producer = "send" => held = Part(parts) /\ parts > 0
    /\ producer = "last" => held = Closing /\ ~WithoutFinal

\* Before the stream is open nothing was received; when a client that stayed is done
\* with, nothing is left for it.
Phases ==
    /\ handler \notin {"reading", "ended"} =>
          producer = "none" /\ parts = 0 /\ ~refused /\ wrote = <<>> /\ chan = <<>>
    /\ handler = "ended" /\ Arrives => producer = "closed" /\ chan = <<>>

StreamIInv == StreamTypeOK /\ Delivered /\ Forwarded /\ Queued /\ Holding /\ Phases /\ WroteInOrder

-----------------------------------------------------------------------------

LEMMA StreamInitInductive == StreamInit => StreamIInv
<1>. SUFFICES ASSUME StreamInit PROVE StreamIInv
  OBVIOUS
<1>1. StreamTypeOK /\ Phases
  <2>1. StreamTypeOK
    <3>1. held \in Chunk
      BY DEF StreamInit, Chunk, Final
    <3>2. handler = "start" /\ producer = "none" /\ ending = "none" /\ parts = 0
      BY DEF StreamInit
    <3>3. refused \in BOOLEAN /\ here \in BOOLEAN /\ expired \in BOOLEAN
      BY DEF StreamInit
    <3>4. chan \in Seq(Chunk) /\ wrote \in Seq(Chunk)
      BY DEF StreamInit
    <3>. QED
      BY <3>1, <3>2, <3>3, <3>4 DEF StreamTypeOK
  <2>2. Phases
    BY DEF StreamInit, Phases
  <2>. QED
    BY <2>1, <2>2
<1>2. wrote = <<>> /\ chan = <<>> /\ producer = "none" /\ parts = 0
  BY DEF StreamInit
<1>3. Delivered /\ Forwarded /\ Queued /\ Holding /\ WroteInOrder
  BY <1>2 DEF Delivered, Sent, Forwarded, Queued, Holding, WroteInOrder
<1>. QED
  BY <1>1, <1>3 DEF StreamIInv

\* While all that is written arrives, the order is a matter of the two counts.
LEMMA OrderFollows ==
  ASSUME StreamTypeOK, Arrives, Delivered, Forwarded
  PROVE  WroteInOrder
<1>1. Len(wrote) <= parts + 1
  BY DEF StreamTypeOK, Delivered, Sent
<1>2. ASSUME NEW i \in DOMAIN wrote
      PROVE  wrote[i] \in {Text(i), Blank(i)} \/ (IsFinal(wrote[i]) /\ i = Len(wrote))
  <2>1. i \in 1..Len(wrote) /\ Len(wrote) \in Nat
    BY <1>2 DEF StreamTypeOK
  <2>2. wrote[i] = Nth(i)
    BY <2>1 DEF Forwarded
  <2>3. CASE i <= parts
    BY <2>2, <2>3 DEF Nth, Part
  <2>4. CASE ~(i <= parts)
    <3>1. i = Len(wrote)
      BY <1>1, <2>1, <2>4 DEF StreamTypeOK
    <3>2. IsFinal(wrote[i])
      BY <2>2, <2>4 DEF Nth, Closing, Final, IsFinal
    <3>. QED
      BY <3>1, <3>2
  <2>. QED
    BY <2>3, <2>4
<1>. QED
  BY <1>2 DEF WroteInOrder

-----------------------------------------------------------------------------

\* The client's departure, or the deadline, takes the promises about the future away.
LEMMA Departure == StreamIInv /\ (ClientLeaves \/ DeadlinePasses) => StreamIInv'
<1>. SUFFICES ASSUME StreamIInv, ClientLeaves \/ DeadlinePasses
              PROVE  StreamIInv'
  OBVIOUS
<1>. USE DEF StreamIInv
<1>1. /\ UNCHANGED <<kind, handler, producer, held, chan, parts, ending, refused, wrote>>
      /\ ~Arrives' /\ here' \in BOOLEAN /\ expired' \in BOOLEAN
  BY DEF ClientLeaves, DeadlinePasses, Arrives, StreamTypeOK
<1>2. StreamTypeOK'
  BY <1>1 DEF StreamTypeOK
<1>3. Delivered' /\ Forwarded' /\ Queued'
  BY <1>1 DEF Delivered, Forwarded, Queued
<1>4. Holding' /\ Phases'
  BY <1>1 DEF Holding, Phases, Part, Closing, WithoutFinal
<1>5. WroteInOrder'
  BY <1>1 DEF WroteInOrder
<1>. QED
  BY <1>2, <1>3, <1>4, <1>5

LEMMA Opening == StreamIInv /\ (Unsupported \/ OpenFails \/ Open) => StreamIInv'
<1>. SUFFICES ASSUME StreamIInv, Unsupported \/ OpenFails \/ Open
              PROVE  StreamIInv'
  OBVIOUS
<1>1. UNCHANGED <<held, chan, parts, ending, refused, here, expired, wrote>>
  BY DEF Unsupported, OpenFails, Open
<1>2. handler = "start" /\ \/ handler' = "reading" /\ producer' = "recv"
                           \/ handler' \in {"unsupported", "bad gateway"} /\ producer' = producer
  BY DEF Unsupported, OpenFails, Open
<1>3. wrote = <<>> /\ chan = <<>> /\ parts = 0 /\ producer = "none" /\ ~refused
  BY <1>2 DEF StreamIInv, Phases
<1>4. StreamTypeOK'
  BY <1>1, <1>2 DEF StreamIInv, StreamTypeOK, HandlerOver
<1>5. Delivered'
  <2>1. Sent' = 0
    BY <1>1, <1>2, <1>3 DEF Sent
  <2>2. Len(wrote') = 0 /\ Len(chan') = 0
    BY <1>1, <1>3
  <2>. QED
    BY <2>1, <2>2 DEF Delivered
<1>6. Forwarded' /\ Queued'
  BY <1>1, <1>3 DEF Forwarded, Queued
<1>7. Holding' /\ Phases'
  BY <1>1, <1>2, <1>3 DEF Holding, Phases
<1>8. WroteInOrder'
  BY <1>1 DEF StreamIInv, WroteInOrder
<1>. QED
  BY <1>4, <1>5, <1>6, <1>7, <1>8 DEF StreamIInv

\* A part is received, or Ollama's error as the last one.
LEMMA PartReceived ==
  ASSUME StreamIInv, producer = "recv", ~refused, parts' = parts + 1, producer' = "send",
         refused' \in BOOLEAN, held' = Part(parts)',
         UNCHANGED <<kind, handler, chan, ending, here, expired, wrote>>
  PROVE  StreamIInv'
<1>. USE DEF StreamIInv
<1>1. parts \in Nat /\ parts' \in Nat
  BY DEF StreamTypeOK
<1>2. StreamTypeOK'
  <2>1. held' \in Chunk
    BY <1>1 DEF Chunk, Part, Text, Blank
  <2>. QED
    BY <1>1, <2>1 DEF StreamTypeOK
<1>3. Arrives' = Arrives
  BY DEF Arrives
<1>4. Delivered'
  BY <1>1, <1>3 DEF Delivered, Sent
<1>5. \A i \in 1..parts : Nth(i)' = Nth(i)
  BY <1>1 DEF Nth, Part
<1>6. Arrives => Len(wrote) + Len(chan) = parts /\ Len(wrote) \in Nat /\ Len(chan) \in Nat
  BY DEF Delivered, Sent, StreamTypeOK, WithoutFinal
<1>7. Forwarded' /\ Queued'
  <2>1. ASSUME Arrives, NEW i \in 1..Len(wrote) PROVE wrote[i] = Nth(i)'
    BY <1>1, <1>5, <1>6, <2>1 DEF Forwarded
  <2>2. ASSUME Arrives, NEW i \in 1..Len(chan) PROVE chan[i] = Nth(Len(wrote) + i)'
    <3>1. PICK n \in 1..parts : n = Len(wrote) + i
      BY <1>1, <1>6, <2>2
    <3>2. chan[i] = Nth(n)
      BY <2>2, <3>1 DEF Queued
    <3>3. chan[i] = Nth(n)'
      BY <1>5, <3>2
    <3>. QED
      BY <3>1, <3>3
  <2>. QED
    BY <1>3, <2>1, <2>2 DEF Forwarded, Queued
<1>8. Holding'
  BY <1>1 DEF Holding
<1>9. Phases'
  <2>1. handler \in {"reading", "ended"} /\ ~(handler = "ended" /\ Arrives)
    BY DEF Phases
  <2>. QED
    BY <1>3, <2>1 DEF Phases
<1>10. WroteInOrder'
  BY DEF WroteInOrder
<1>. QED
  BY <1>2, <1>4, <1>7, <1>8, <1>9, <1>10

LEMMA TextReceived == StreamIInv /\ ReceiveText => StreamIInv'
<1>. SUFFICES ASSUME StreamIInv, ReceiveText
              PROVE  StreamIInv'
  OBVIOUS
<1>1. held' = Part(parts)' /\ refused' \in BOOLEAN
  BY DEF ReceiveText, Part, StreamIInv, StreamTypeOK
<1>. QED
  BY <1>1, PartReceived DEF ReceiveText

LEMMA RefusalReceived == StreamIInv /\ ReceiveRefusal => StreamIInv'
<1>. SUFFICES ASSUME StreamIInv, ReceiveRefusal
              PROVE  StreamIInv'
  OBVIOUS
<1>1. held' = Part(parts)' /\ refused' \in BOOLEAN
  BY DEF ReceiveRefusal, Part
<1>. QED
  BY <1>1, PartReceived DEF ReceiveRefusal

LEMMA EndReceived == StreamIInv /\ ReceiveEnd => StreamIInv'
<1>. SUFFICES ASSUME StreamIInv, ReceiveEnd
              PROVE  StreamIInv'
  OBVIOUS
<1>. USE DEF StreamIInv, ReceiveEnd, Arrives, Part
<1>1. StreamTypeOK'
  BY DEF StreamTypeOK, Chunk, Final, Last
<1>2. Delivered'
  BY DEF Delivered, Sent, WithoutFinal, StreamTypeOK, Last
<1>3. Forwarded' /\ Queued'
  <2>1. Arrives => Len(wrote) + Len(chan) = parts /\ Len(wrote) \in Nat /\ Len(chan) \in Nat
    BY DEF Delivered, Sent, StreamTypeOK
  <2>. QED
    BY <2>1 DEF Forwarded, Queued, Nth, StreamTypeOK
<1>4. Holding' /\ Phases'
  BY DEF Holding, Phases, StreamTypeOK, HandlerOver, Last, WithoutFinal, Closing
<1>5. WroteInOrder'
  BY DEF WroteInOrder
<1>. QED
  BY <1>1, <1>2, <1>3, <1>4, <1>5

\* A chunk that is sent is the one that comes next.
LEMMA ChunkSent == StreamIInv /\ Send => StreamIInv'
<1>. SUFFICES ASSUME StreamIInv, Send
              PROVE  StreamIInv'
  OBVIOUS
<1>. USE DEF StreamIInv, Send, Arrives, Part
<1>1. StreamTypeOK'
  BY DEF StreamTypeOK
<1>2. Len(chan') = Len(chan) + 1 /\ chan'[Len(chan) + 1] = held
      /\ \A i \in 1..Len(chan) : chan'[i] = chan[i]
  BY DEF StreamTypeOK
<1>3. Arrives => Len(wrote) + Len(chan) = IF producer = "send" THEN parts - 1 ELSE parts
  BY DEF Delivered, Sent, Holding, StreamTypeOK
<1>4. Delivered'
  <2>1. Arrives => Len(wrote') + Len(chan') = IF producer = "send" THEN parts ELSE parts + 1
    BY <1>2, <1>3 DEF StreamTypeOK
  <2>2. Sent' = IF producer = "send" THEN parts ELSE parts + 1
    BY DEF Sent, Holding, WithoutFinal
  <2>. QED
    BY <2>1, <2>2 DEF Delivered
<1>5. Forwarded'
  BY DEF Forwarded, Nth, Closing
<1>6. Queued'
  <2>1. Arrives => held = Nth(Len(wrote) + Len(chan) + 1)
    BY <1>3 DEF Holding, Nth, StreamTypeOK
  <2>2. ASSUME Arrives, NEW i \in 1..Len(chan) + 1
        PROVE  chan'[i] = Nth(Len(wrote) + i)
    <3>1. Len(chan) \in Nat /\ Len(wrote) \in Nat
      BY DEF StreamTypeOK
    <3>2. CASE i \in 1..Len(chan)
      BY <1>2, <2>2, <3>2 DEF Queued
    <3>3. CASE i = Len(chan) + 1
      BY <1>2, <2>1, <2>2, <3>1, <3>3
    <3>. QED
      BY <3>1, <3>2, <3>3
  <2>. QED
    BY <1>2, <2>2 DEF Queued, Nth, Closing
<1>7. Holding' /\ Phases'
  BY DEF Holding, Phases, StreamTypeOK, HandlerOver
<1>8. WroteInOrder'
  BY DEF WroteInOrder
<1>. QED
  BY <1>1, <1>4, <1>5, <1>6, <1>7, <1>8

\* A chunk that is forwarded is the next one for the client; a final one is the last
\* that was sent.
LEMMA ChunkForwarded == StreamIInv /\ Forward => StreamIInv'
<1>. SUFFICES ASSUME StreamIInv, Forward
              PROVE  StreamIInv'
  OBVIOUS
<1>. USE DEF StreamIInv, Forward, Arrives, Part
<1>1. /\ Head(chan) \in Chunk /\ Head(chan) = chan[1]
      /\ chan' \in Seq(Chunk) /\ Len(chan) \in Nat /\ Len(chan) > 0 /\ Len(chan') = Len(chan) - 1
      /\ \A i \in 1..Len(chan') : chan'[i] = chan[i + 1]
  BY DEF StreamTypeOK
<1>2. StreamTypeOK'
  BY <1>1 DEF StreamTypeOK, HandlerOver
<1>3. CASE ~Arrives
  <2>1. Delivered' /\ Forwarded' /\ Queued'
    BY <1>3 DEF Delivered, Forwarded, Queued
  <2>2. Holding' /\ Phases'
    BY <1>3 DEF Holding, Phases, WithoutFinal, Closing, HandlerOver
  <2>3. WroteInOrder'
    BY <1>3 DEF WroteInOrder
  <2>. QED
    BY <1>2, <2>1, <2>2, <2>3
<1>4. CASE Arrives
  <2>1. /\ Len(wrote) \in Nat /\ Len(wrote') = Len(wrote) + 1 /\ wrote'[Len(wrote) + 1] = chan[1]
        /\ \A i \in 1..Len(wrote) : wrote'[i] = wrote[i]
    BY <1>1, <1>4 DEF StreamTypeOK
  <2>2. chan[1] = Nth(Len(wrote) + 1)
    BY <1>1, <1>4 DEF Queued
  <2>3. Delivered'
    BY <1>1, <1>4, <2>1 DEF Delivered, Sent, WithoutFinal
  <2>4. Forwarded'
    <3>1. ASSUME NEW i \in 1..Len(wrote) + 1
          PROVE  wrote'[i] = Nth(i)
      <4>1. CASE i \in 1..Len(wrote)
        BY <1>4, <2>1, <4>1 DEF Forwarded
      <4>2. CASE i = Len(wrote) + 1
        BY <2>1, <2>2, <4>2
      <4>. QED
        BY <2>1, <4>1, <4>2
    <3>. QED
      BY <2>1, <3>1 DEF Forwarded, Nth, Closing
  <2>5. Queued'
    <3>1. ASSUME NEW i \in 1..Len(chan')
          PROVE  chan'[i] = Nth(Len(wrote') + i)
      <4>1. i + 1 \in 1..Len(chan) /\ Len(wrote) + (i + 1) = Len(wrote') + i
        BY <1>1, <2>1
      <4>. QED
        BY <1>1, <1>4, <4>1 DEF Queued
    <3>. QED
      BY <3>1 DEF Queued, Nth, Closing
  <2>6. Holding'
    BY DEF Holding, WithoutFinal, Closing
  <2>7. IsFinal(chan[1]) => producer = "closed" /\ Len(chan) = 1
    <3>1. IsFinal(chan[1]) => Len(wrote) + 1 > parts
      BY <2>1, <2>2 DEF Nth, Part, Text, Blank, IsFinal, StreamTypeOK
    <3>. QED
      BY <1>1, <1>4, <2>1, <3>1 DEF Delivered, Sent, StreamTypeOK
  <2>8. Phases'
    <3>1. handler' = "ended" => producer = "closed" /\ chan' = <<>>
      BY <1>1, <2>7
    <3>. QED
      BY <3>1 DEF Phases, HandlerOver
  <2>9. Arrives'
    BY <1>4
  <2>10. WroteInOrder'
    <3>1. (StreamTypeOK /\ Arrives /\ Delivered /\ Forwarded => WroteInOrder)'
      BY OrderFollows, PTL
    <3>. QED
      BY <1>2, <2>3, <2>4, <2>9, <3>1
  <2>. QED
    BY <1>2, <2>3, <2>4, <2>5, <2>6, <2>8, <2>10
<1>. QED
  BY <1>3, <1>4 DEF StreamTypeOK

LEMMA ChannelClosed == StreamIInv /\ RangeEnds => StreamIInv'
<1>. SUFFICES ASSUME StreamIInv, RangeEnds
              PROVE  StreamIInv'
  OBVIOUS
<1>. USE DEF StreamIInv, RangeEnds, Arrives, Part
<1>1. StreamTypeOK'
  BY DEF StreamTypeOK, HandlerOver
<1>2. Delivered' /\ Forwarded' /\ Queued'
  BY DEF Delivered, Forwarded, Queued, Nth, Sent, WithoutFinal, Closing
<1>3. Holding' /\ Phases'
  BY DEF Holding, Phases, WithoutFinal, Closing
<1>4. WroteInOrder'
  BY DEF WroteInOrder
<1>. QED
  BY <1>1, <1>2, <1>3, <1>4

LEMMA Stuttering == StreamIInv /\ UNCHANGED streamVars => StreamIInv'
  BY DEF StreamIInv, streamVars, StreamTypeOK, Delivered, Forwarded, Queued, Holding, Phases, WroteInOrder, Sent,
         WithoutFinal, Closing, Nth, Arrives, Part

LEMMA StreamNextInductive == StreamIInv /\ [StreamNext]_streamVars => StreamIInv'
<1>. SUFFICES ASSUME StreamIInv, [StreamNext]_streamVars
              PROVE  StreamIInv'
  OBVIOUS
<1>1. CASE ClientLeaves \/ DeadlinePasses
  BY <1>1, Departure
<1>2. CASE HandlerStep
  BY <1>2, Opening, ChunkForwarded, ChannelClosed DEF HandlerStep
<1>3. CASE ProducerStep
  BY <1>3, TextReceived, RefusalReceived, EndReceived, ChunkSent DEF ProducerStep
<1>4. CASE Over \/ UNCHANGED streamVars
  BY <1>4, Stuttering DEF Over
<1>. QED
  BY <1>1, <1>2, <1>3, <1>4 DEF StreamNext

LEMMA StreamInductive == StreamSpec => []StreamIInv
  BY StreamInitInductive, StreamNextInductive, PTL DEF StreamSpec

-----------------------------------------------------------------------------

\* llm.go:63, the loop of the handler: the client receives the parts of the answer in
\* order and without a gap, and nothing after the final chunk.
THEOREM PartsInOrder == StreamSpec => []WroteInOrder
<1>1. StreamIInv => WroteInOrder
  BY DEF StreamIInv
<1>. QED
  BY <1>1, StreamInductive, PTL

\* llm.go:63-77: a client that stayed has every part when the handler returns, and
\* how the stream ended.
THEOREM EndingIsTold == StreamSpec => []EndIsTold
<1>1. StreamIInv => EndIsTold
  <2>. SUFFICES ASSUME StreamIInv, handler = "ended", Arrives
                PROVE  wrote = [i \in 1..parts |-> Part(i)] \o
                         (IF ending = "error" THEN <<Final("error")>>
                          ELSE IF ending = "cut" /\ kind = "anthropic" THEN <<>>
                          ELSE <<Final("done")>>)
    BY DEF EndIsTold
  <2>. DEFINE texts == [i \in 1..parts |-> Part(i)]
              final == IF WithoutFinal THEN <<>> ELSE <<Closing>>
  <2>1. /\ parts \in Nat /\ wrote \in Seq(Chunk)
        /\ Len(wrote) = IF WithoutFinal THEN parts ELSE parts + 1
        /\ \A i \in 1..Len(wrote) : wrote[i] = Nth(i)
    BY DEF StreamIInv, StreamTypeOK, Delivered, Forwarded, Phases, Sent
  <2>2. texts \in Seq(Chunk) /\ Len(texts) = parts
    BY <2>1 DEF Chunk, Part, Text, Blank
  <2>3. final \in Seq(Chunk)
    <3>1. Closing \in Chunk
      BY DEF Chunk, Closing, Final
    <3>. QED
      BY <3>1
  <2>4. wrote = texts \o final
    <3>1. Len(texts \o final) = Len(wrote)
      BY <2>1, <2>2, <2>3
    <3>2. ASSUME NEW i \in 1..Len(wrote)
          PROVE  wrote[i] = (texts \o final)[i]
      BY <2>1, <2>2, <2>3 DEF Nth
    <3>3. texts \o final \in Seq(Chunk)
      BY <2>2, <2>3, ConcatProperties
    <3>. HIDE DEF texts, final
    <3>. QED
      BY <2>1, <3>1, <3>2, <3>3, SeqEqual
  <2>5. final = IF ending = "error" THEN <<Final("error")>>
                ELSE IF ending = "cut" /\ kind = "anthropic" THEN <<>>
                ELSE <<Final("done")>>
    BY DEF WithoutFinal, Closing
  <2>. QED
    BY <2>4, <2>5
<1>. QED
  BY <1>1, StreamInductive, PTL
=============================================================================
