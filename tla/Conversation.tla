---------------------------- MODULE Conversation ----------------------------
(***************************************************************************)
(* Agents that share their memories: Agent.Run (internal/agent/agent.go),   *)
(* the Orchestrator and MultiAgentConversation (orchestrator.go) that call   *)
(* it, and the three memories (internal/memory/memory.go, summary.go), each  *)
(* behind its mutex.  SummaryMemory.Add keeps its mutex during the LLM call  *)
(* that folds the older half of the entries into the summary.              *)
(*                                                                         *)
(* An entry is the number under which it was added to its memory; what is  *)
(* left of its text is its size in tokens.                                 *)
(***************************************************************************)
EXTENDS Naturals, Sequences, FiniteSets, SequencesExt

CONSTANTS
    Agents, Callers,
    Nobody,          \* not a caller: the mutex is free
    Memories,        \* choices of a memory for each agent
    MaxSize,         \* entries of a BufferMemory
    MaxTokens,       \* tokens of a TokenWindowMemory
    Sizes,           \* sizes of an entry, in tokens
    SummarizeAfter,  \* entries of a SummaryMemory
    MaxSteps,        \* LLM calls of one Agent.Run
    Rounds,          \* rounds of a Discuss
    MaxClears        \* bound on the calls of Clear

ASSUME NobodyAssumption == Nobody \notin Callers
ASSUME MemoriesAssumption == Memories \subseteq [Agents -> {"buffer", "window", "summary"}]
ASSUME LimitsAssumption ==
    /\ Sizes \subseteq Nat
    /\ {MaxTokens, Rounds, MaxClears} \subseteq Nat
    /\ {MaxSize, SummarizeAfter, MaxSteps} \subseteq Nat \ {0}

VARIABLES
    kind,      \* the memory of each agent
    said,      \* sizes of all entries ever added, by number
    cleared,   \* number of the last entry before the last Clear
    entries,   \* numbers of the entries the memory holds
    summary,   \* numbers of the entries its summary stands for
    blanked,   \* a summary came back blank since the last Clear
    mutex,     \* the caller that holds the mutex during an LLM call
    pc, turns, discussing, step,
    batch,     \* the text given to the LLM in summarize: numbers of its entries
    after,     \* where the caller goes on after summarize
    clears

memories == <<kind, said, cleared, entries, summary, blanked, mutex, clears>>
callers == <<pc, turns, discussing, step, batch, after>>
vars == <<memories, callers>>

\* The agent whose turn it is.
Agent(c) == Head(turns[c])

\* The numbers low + 1 .. high, in order.
Numbers(low, high) == [i \in 1..high - low |-> low + i]

-----------------------------------------------------------------------------
(***************************************************************************)
(* The memories.                                                           *)
(***************************************************************************)
\* Faulty variant: summarize runs without the mutex.
FreeAlways(a) == TRUE

\* The mutex can be taken.
Free(a) == mutex[a] = Nobody

TotalTokens(sizes, seq) == FoldLeft(LAMBDA total, i : total + sizes[i], 0, seq)

LastFrom(seq, i) == SubSeq(seq, i, Len(seq))

\* Faulty variant: an if where trim has its loop.
TrimOnce(k, sizes, seq) ==
    IF \/ k = "buffer" /\ Len(seq) > MaxSize
       \/ k = "window" /\ Len(seq) > 1 /\ TotalTokens(sizes, seq) > MaxTokens
      THEN Tail(seq)
      ELSE seq

\* What Add leaves of the entries: a buffer its last MaxSize, a window the rest
\* after dropping from the front until it is within the budget or alone.
Trim(k, sizes, seq) ==
    LET Fits(i) == i = Len(seq) \/ TotalTokens(sizes, LastFrom(seq, i)) <= MaxTokens
    IN CASE k = "buffer" /\ Len(seq) > MaxSize -> LastFrom(seq, Len(seq) - MaxSize + 1)
         [] k = "window" -> LastFrom(seq, CHOOSE i \in DOMAIN seq :
                                Fits(i) /\ \A j \in 1..i - 1 : ~Fits(j))
         [] OTHER -> seq

\* Only a window looks at the size of an entry.
SizesOf(a) == IF kind[a] = "window" THEN Sizes ELSE {0}

\* Add of the three memories.  A SummaryMemory that has grown past its limit goes on
\* to its LLM call and keeps the mutex.
Add(c, then) ==
    LET a == Agent(c)
        grown == Append(entries[a], Len(said[a]) + 1)
        fold == kind[a] = "summary" /\ Len(grown) > SummarizeAfter
    IN /\ Free(a)
       /\ \E size \in SizesOf(a) : said' = [said EXCEPT ![a] = Append(@, size)]
       /\ entries' = [entries EXCEPT ![a] = Trim(kind[a], said'[a], grown)]
       /\ mutex' = [mutex EXCEPT ![a] = IF fold THEN c ELSE Nobody]
       /\ batch' = [batch EXCEPT ![c] =
              IF fold THEN summary[a] \o SubSeq(grown, 1, Len(grown) \div 2) ELSE <<>>]
       /\ pc' = [pc EXCEPT ![c] = IF fold THEN "fold" ELSE then]
       /\ after' = [after EXCEPT ![c] = then]
       /\ UNCHANGED <<kind, cleared, summary, blanked, clears, turns, discussing, step>>

Unlock(c) ==
    /\ mutex' = [mutex EXCEPT ![Agent(c)] = Nobody]
    /\ batch' = [batch EXCEPT ![c] = <<>>]
    /\ pc' = [pc EXCEPT ![c] = after[c]]
    /\ UNCHANGED <<kind, said, cleared, clears, turns, discussing, step, after>>

\* The LLM has answered summarize: the new text replaces summary and older half, a
\* blank one too.
Folded(c) ==
    LET a == Agent(c)
    IN /\ pc[c] = "fold"
       /\ \/ summary' = [summary EXCEPT ![a] = batch[c]] /\ UNCHANGED blanked
          \/ /\ summary' = [summary EXCEPT ![a] = <<>>]
             /\ blanked' = [blanked EXCEPT ![a] = TRUE]
       /\ entries' = [entries EXCEPT ![a] = LastFrom(@, Len(@) \div 2 + 1)]
       /\ Unlock(c)

\* Faulty variant: an error returns without Unlock.
NotFoldedLocked(c) ==
    /\ pc[c] = "fold"
    /\ pc' = [pc EXCEPT ![c] = after[c]]
    /\ UNCHANGED <<memories, turns, discussing, step, batch, after>>

\* It answered with an error: the memory stays as it is.
NotFolded(c) ==
    /\ pc[c] = "fold"
    /\ Unlock(c)
    /\ UNCHANGED <<entries, summary, blanked>>

\* Clear, by anybody.
Clear(a) ==
    /\ Free(a) /\ clears < MaxClears
    /\ clears' = clears + 1
    /\ entries' = [entries EXCEPT ![a] = <<>>]
    /\ summary' = [summary EXCEPT ![a] = <<>>]
    /\ cleared' = [cleared EXCEPT ![a] = Len(said[a])]
    /\ blanked' = [blanked EXCEPT ![a] = FALSE]
    /\ UNCHANGED <<kind, said, mutex, callers>>

-----------------------------------------------------------------------------
(***************************************************************************)
(* The callers.                                                            *)
(***************************************************************************)
Init ==
    /\ kind \in Memories
    /\ said = [a \in Agents |-> <<>>]
    /\ cleared = [a \in Agents |-> 0]
    /\ entries = [a \in Agents |-> <<>>]
    /\ summary = [a \in Agents |-> <<>>]
    /\ blanked = [a \in Agents |-> FALSE]
    /\ mutex = [a \in Agents |-> Nobody]
    /\ pc = [c \in Callers |-> "start"]
    /\ turns = [c \in Callers |-> <<>>]
    /\ discussing = [c \in Callers |-> FALSE]
    /\ step = [c \in Callers |-> 0]
    /\ batch = [c \in Callers |-> <<>>]
    /\ after = [c \in Callers |-> "start"]
    /\ clears = 0

Begin(c, plan, discuss) ==
    /\ pc[c] = "start"
    /\ turns' = [turns EXCEPT ![c] = plan]
    /\ discussing' = [discussing EXCEPT ![c] = discuss]
    /\ pc' = [pc EXCEPT ![c] = IF plan = <<>> THEN "done" ELSE "ask"]
    /\ UNCHANGED <<memories, step, batch, after>>

\* Orchestrator.Run: the only agent, or the one whose name the LLM gives, or the
\* first of the map when the LLM fails.
Route(c) == \E a \in Agents : Begin(c, <<a>>, FALSE)

\* No agent has the name the LLM gives.
Unrouted(c) == Cardinality(Agents) > 1 /\ Begin(c, <<>>, FALSE)

\* Discuss: each agent in each round, in the order of AddAgent.
Discuss(c) ==
    \E order \in SetToSeqs(Agents) :
        Begin(c, FlattenSeq([round \in 1..Rounds |-> order]), TRUE)

\* Agent.Run returns.  Only Discuss goes on after an error.
Return(c, ok) ==
    LET rest == IF ok \/ discussing[c] THEN Tail(turns[c]) ELSE <<>>
    IN /\ turns' = [turns EXCEPT ![c] = rest]
       /\ pc' = [pc EXCEPT ![c] = IF rest = <<>> THEN "done" ELSE "ask"]
       /\ step' = [step EXCEPT ![c] = 0]
       /\ UNCHANGED <<memories, discussing, batch, after>>

Ask(c) == pc[c] = "ask" /\ Add(c, "recall")

\* Get waits for the mutex as well.
Recall(c) ==
    /\ pc[c] = "recall" /\ Free(Agent(c))
    /\ pc' = [pc EXCEPT ![c] = "think"]
    /\ UNCHANGED <<memories, turns, discussing, step, batch, after>>

\* An answer without "Final Answer": a tool is run, is not found, fails, or nothing
\* is asked for; the observation is fed back.
Observe(c) ==
    /\ pc[c] = "think" /\ step[c] < MaxSteps
    /\ step' = [step EXCEPT ![c] = @ + 1]
    /\ UNCHANGED <<memories, pc, turns, discussing, batch, after>>

Conclude(c) ==
    /\ pc[c] = "think" /\ step[c] < MaxSteps
    /\ pc' = [pc EXCEPT ![c] = "answer"]
    /\ UNCHANGED <<memories, turns, discussing, step, batch, after>>

ChatFails(c) == pc[c] = "think" /\ step[c] < MaxSteps /\ Return(c, FALSE)

\* The loop ends without an answer; the apology is not remembered.
GiveUp(c) == pc[c] = "think" /\ step[c] = MaxSteps /\ Return(c, TRUE)

Answer(c) == pc[c] = "answer" /\ Add(c, "return")

Finish(c) == pc[c] = "return" /\ Return(c, TRUE)

CallerStep(c) ==
    \/ Route(c) \/ Unrouted(c) \/ Discuss(c) \/ Ask(c) \/ Recall(c) \/ Observe(c)
    \/ Conclude(c) \/ ChatFails(c) \/ GiveUp(c) \/ Answer(c) \/ Finish(c)
    \/ Folded(c) \/ NotFolded(c)

Over == (\A c \in Callers : pc[c] = "done") /\ UNCHANGED vars

Next ==
    \/ \E c \in Callers : CallerStep(c)
    \/ \E a \in Agents : Clear(a)
    \/ Over

Spec == Init /\ [][Next]_vars

\* A call of the LLM returns, and a caller whose mutex stays free takes it.
FairSpec == Spec /\ \A c \in Callers : WF_vars(CallerStep(c))

-----------------------------------------------------------------------------
(***************************************************************************)
(* Properties.                                                             *)
(***************************************************************************)

Suffix(a) == Numbers(cleared[a], Len(said[a]))

\* A buffer holds the last MaxSize entries since Clear; a window the longest end of
\* the conversation within its budget, and at least the last entry, whatever was
\* trimmed before.
RecentKept ==
    \A a \in Agents :
        LET n == Len(said[a])
            Cost(i) == TotalTokens(said[a], Numbers(i - 1, n))
            Kept(i) == IF kind[a] = "buffer" THEN i > n - MaxSize
                       ELSE i = n \/ Cost(i) <= MaxTokens
        IN kind[a] # "summary" => ToSet(entries[a]) = {i \in ToSet(Suffix(a)) : Kept(i)}

\* summary.go:131 "keep entries as-is on failure": summary and entries together
\* stand for the whole conversation since Clear, each entry once and in order, even
\* while others add and clear; after a blank summary for an end of it.
NothingForgotten ==
    \A a \in Agents : kind[a] = "summary" =>
        /\ IsSuffix(summary[a] \o entries[a], Suffix(a))
        /\ ~blanked[a] => summary[a] \o entries[a] = Suffix(a)

\* Every run ends, although runs wait for each other's summaries.
RunsEnd == \A c \in Callers : (pc[c] # "start") ~> (pc[c] = "done")
=============================================================================
