------------------------------ MODULE Reasoning ------------------------------
(***************************************************************************)
(* One request to /reasoning or /agents/chain: TreeOfThought and             *)
(* SelfConsistency (internal/reasoning/tot.go), ReflectionChain and          *)
(* StructuredOutput (structured.go), ChainOfThought (cot.go) and PromptChain  *)
(* (internal/agent/orchestrator.go).  Each is a number of LLM calls that may  *)
(* fail; SelfConsistency makes them from goroutines that share a slice.      *)
(***************************************************************************)
EXTENDS Integers, Sequences, FiniteSets, SequencesExt, FiniteSetsExt

CONSTANTS
    Goroutines,    \* the samples of a SelfConsistency
    Nobody,        \* not a goroutine: the mutex is free
    Answers,       \* final answers, up to case and blanks
    Branches, MaxDepth,
    MaxThoughts,   \* bound on the thoughts an LLM returns
    Scores,        \* scores an LLM gives, in tenths; it may leave 0..10
    Iterations,    \* rounds of a Reflection
    ChainLength    \* steps of a PromptChain

ASSUME GoroutinesAssumption == IsFiniteSet(Goroutines) /\ Nobody \notin Goroutines
ASSUME BoundsAssumption ==
    /\ {Branches, MaxDepth, MaxThoughts, Iterations, ChainLength} \subseteq Nat \ {0}
    /\ Scores \subseteq Int

Ops == {"tree", "consistency", "reflect", "chain", "single"}
NoAnswer == "no answer"

ASSUME AnswersAssumption == NoAnswer \notin Answers

VARIABLES
    op, stage,
    roots,     \* tree: scores of the first thoughts, best first, and how many were dropped
    paths,     \* tree: the paths so far, each the steps taken
    best,      \* tree: the index of the path that is returned
    routine,   \* consistency: where each goroutine is
    reply,     \* consistency: what its LLM call gave
    mutex, read, samples,
    majority,
    round,     \* reflect, chain: calls that succeeded
    rounds     \* reflect: the rounds reported, as draft and revision

tree == <<roots, paths, best>>
consistency == <<routine, reply, mutex, read, samples, majority>>
sequential == <<round, rounds>>
reasoningVars == <<op, stage, tree, consistency, sequential>>

ReasoningInit ==
    /\ op \in Ops
    /\ stage = "start"
    /\ roots = [kept |-> <<>>, dropped |-> <<>>]
    /\ paths = <<>>
    /\ best = 0
    /\ routine = [g \in Goroutines |-> "none"]
    /\ reply = [g \in Goroutines |-> NoAnswer]
    /\ mutex = Nobody
    /\ read = [g \in Goroutines |-> <<>>]
    /\ samples = <<>>
    /\ majority = NoAnswer
    /\ round = 0
    /\ rounds = <<>>

Ended == {"answered", "failed", "panicked"}

\* The first LLM call of a tree, a reflection or a single call fails.
FirstFails ==
    /\ stage = "start" /\ op \in {"tree", "reflect", "single"}
    /\ stage' = "failed"
    /\ UNCHANGED <<op, tree, consistency, sequential>>

\* ChainOfThought, StructuredOutput: one call whose text is parsed.
SingleAnswered ==
    /\ stage = "start" /\ op = "single"
    /\ stage' = "answered"
    /\ UNCHANGED <<op, tree, consistency, sequential>>

-----------------------------------------------------------------------------
(***************************************************************************)
(* TreeOfThought.                                                          *)
(***************************************************************************)
\* Thoughts with the scores evaluateThought gives them: the LLM's number, or 5 tenths
\* when the call fails or its JSON cannot be read.  An answer that is no JSON array is
\* one thought; an empty array or null is none.
Thoughts == UNION {[1..n -> Scores \cup {5}] : n \in 0..MaxThoughts}

\* One step of a path: its score and those it was chosen from.
Step(score, rivals) == [score |-> score, rivals |-> rivals]

\* sort.Slice: the thoughts in another order, none of them before a better one.
Sorted(thoughts) ==
    LET n == Len(thoughts)
    IN {s \in {[i \in 1..n |-> thoughts[p[i]]] : p \in SetToSeqs(1..n)} :
            \A i, j \in 1..n : i < j => s[i] >= s[j]}

\* Without a first thought allPaths[0] is out of range, and the Recoverer answers.
Plant ==
    /\ stage = "start" /\ op = "tree"
    /\ \E thoughts \in Thoughts : \E sorted \in Sorted(thoughts) :
         LET kept == IF Len(sorted) < Branches THEN Len(sorted) ELSE Branches
         IN /\ roots' = [kept |-> SubSeq(sorted, 1, kept),
                         dropped |-> SubSeq(sorted, kept + 1, Len(sorted))]
            /\ stage' = IF kept = 0 THEN "panicked" ELSE "next root"
    /\ UNCHANGED <<op, paths, best, consistency, sequential>>

\* A null among the thoughts is a nil pointer, whose text is to be evaluated.
NullThought ==
    /\ \/ stage = "start" /\ op = "tree"
       \/ stage = "expand" /\ Len(Last(paths)) < MaxDepth
    /\ stage' = "panicked"
    /\ UNCHANGED <<op, tree, consistency, sequential>>

NextRoot ==
    /\ stage = "next root" /\ Len(paths) < Len(roots.kept)
    /\ paths' = Append(paths, <<Step(roots.kept[Len(paths) + 1], {})>>)
    /\ stage' = "expand"
    /\ UNCHANGED <<op, roots, best, consistency, sequential>>

\* expandPath: the first thought, unless a later one has a greater score, above 0.
BestThought(thoughts) ==
    FoldLeft(LAMBDA b, s : IF s > b.bestScore THEN [best |-> s, bestScore |-> s] ELSE b,
             [best |-> Head(thoughts), bestScore |-> 0], thoughts).best

Expand ==
    /\ stage = "expand" /\ Len(Last(paths)) < MaxDepth
    /\ \E thoughts \in Thoughts \ {<<>>} :
         paths' = [paths EXCEPT ![Len(paths)] =
                     Append(@, Step(BestThought(thoughts), ToSet(thoughts)))]
    /\ UNCHANGED <<op, stage, roots, best, consistency, sequential>>

\* The path is deep enough, or the LLM fails or returns no thought.
PathEnds ==
    /\ stage = "expand"
    /\ stage' = "next root"
    /\ UNCHANGED <<op, tree, consistency, sequential>>

\* Faulty variant: pathScore without the division.
SumScore(path) ==
    [num |-> FoldLeft(LAMBDA total, step : total + step.score, 0, path), den |-> 1]

\* The mean of the scores, as numerator and denominator.
PathScore(path) ==
    [num |-> FoldLeft(LAMBDA total, step : total + step.score, 0, path), den |-> Len(path)]

Above(p, q) == p.num * q.den > q.num * p.den

\* The first path, unless a later one is above it and those between.
BestPath ==
    FoldLeft(LAMBDA b, i : IF Above(PathScore(paths[i]), PathScore(paths[b])) THEN i ELSE b,
             1, [i \in DOMAIN paths |-> i])

SelectBest ==
    /\ stage = "next root" /\ Len(paths) = Len(roots.kept)
    /\ best' = BestPath
    /\ stage' = "answered"
    /\ UNCHANGED <<op, roots, paths, consistency, sequential>>

-----------------------------------------------------------------------------
(***************************************************************************)
(* SelfConsistency.                                                        *)
(***************************************************************************)
Go ==
    /\ stage = "start" /\ op = "consistency"
    /\ routine' = [g \in Goroutines |-> "reason"]
    /\ stage' = "wait"
    /\ UNCHANGED <<op, tree, reply, mutex, read, samples, majority, sequential>>

Reason(g) ==
    /\ routine[g] = "reason"
    /\ \E answer \in Answers : reply' = [reply EXCEPT ![g] = answer]
    /\ routine' = [routine EXCEPT ![g] = "append"]
    /\ UNCHANGED <<op, stage, tree, mutex, read, samples, majority, sequential>>

\* Faulty variant: wg.Done is not deferred.
ReasonFailsUndone(g) ==
    /\ routine[g] = "reason"
    /\ routine' = [routine EXCEPT ![g] = "stopped"]
    /\ UNCHANGED <<op, stage, tree, reply, mutex, read, samples, majority, sequential>>

ReasonFails(g) ==
    /\ routine[g] = "reason"
    /\ routine' = [routine EXCEPT ![g] = "done"]
    /\ UNCHANGED <<op, stage, tree, reply, mutex, read, samples, majority, sequential>>

\* Faulty variant: the samples are appended without the mutex.
FreeAlways == TRUE

Free == mutex = Nobody

\* append reads the slice and writes it back.
Lock(g) ==
    /\ routine[g] = "append" /\ Free
    /\ mutex' = g
    /\ read' = [read EXCEPT ![g] = samples]
    /\ routine' = [routine EXCEPT ![g] = "write"]
    /\ UNCHANGED <<op, stage, tree, reply, samples, majority, sequential>>

WriteBack(g) ==
    /\ routine[g] = "write"
    /\ samples' = Append(read[g], reply[g])
    /\ mutex' = Nobody
    /\ routine' = [routine EXCEPT ![g] = "done"]
    /\ UNCHANGED <<op, stage, tree, reply, read, majority, sequential>>

Count(answer) == Quantify(DOMAIN samples, LAMBDA i : samples[i] = answer)

\* A later answer must have more, so that among equals the first one wins.
Winner(order) ==
    FoldLeft(LAMBDA m, a : IF Count(a) > Count(m) THEN a ELSE m, NoAnswer, order)

\* wg.Wait is over.  The map of counts is visited in any order.
Majority ==
    /\ stage = "wait" /\ \A g \in Goroutines : routine[g] = "done"
    /\ IF samples = <<>>
         THEN stage' = "failed" /\ UNCHANGED majority
         ELSE /\ stage' = "answered"
              /\ \E order \in SetToSeqs(ToSet(samples)) : majority' = Winner(order)
    /\ UNCHANGED <<op, tree, routine, reply, mutex, read, samples, sequential>>

-----------------------------------------------------------------------------
(***************************************************************************)
(* ReflectionChain and PromptChain.  Drafts are numbered as they come.       *)
(***************************************************************************)
Draft ==
    /\ stage = "start" /\ op = "reflect"
    /\ stage' = "critique"
    /\ UNCHANGED <<op, tree, consistency, sequential>>

Critique ==
    /\ stage = "critique" /\ round < Iterations
    /\ stage' = "revise"
    /\ UNCHANGED <<op, tree, consistency, sequential>>

Revise ==
    /\ stage = "revise"
    /\ round' = round + 1
    /\ rounds' = Append(rounds, [draft |-> round, revised |-> round'])
    /\ stage' = "critique"
    /\ UNCHANGED <<op, tree, consistency>>

\* All rounds are done, or a critique or a revision failed: the last draft counts.
Reflected ==
    /\ stage = "critique" \/ stage = "revise"
    /\ stage' = "answered"
    /\ UNCHANGED <<op, tree, consistency, sequential>>

ChainStep ==
    /\ stage = "start" /\ op = "chain" /\ round < ChainLength
    /\ round' = round + 1
    /\ UNCHANGED <<op, stage, tree, consistency, rounds>>

ChainFails ==
    /\ stage = "start" /\ op = "chain" /\ round < ChainLength
    /\ stage' = "failed"
    /\ UNCHANGED <<op, tree, consistency, sequential>>

ChainEnds ==
    /\ stage = "start" /\ op = "chain" /\ round = ChainLength
    /\ stage' = "answered"
    /\ UNCHANGED <<op, tree, consistency, sequential>>

TreeStep == Plant \/ NullThought \/ NextRoot \/ Expand \/ PathEnds \/ SelectBest
ReflectStep == Draft \/ Critique \/ Revise \/ Reflected
ChainCall == ChainStep \/ ChainFails \/ ChainEnds
HandlerStep ==
    FirstFails \/ SingleAnswered \/ TreeStep \/ Go \/ Majority \/ ReflectStep \/ ChainCall
Goroutine(g) == Reason(g) \/ ReasonFails(g) \/ Lock(g) \/ WriteBack(g)

ReasoningOver == stage \in Ended /\ UNCHANGED reasoningVars

ReasoningNext == HandlerStep \/ (\E g \in Goroutines : Goroutine(g)) \/ ReasoningOver

ReasoningSpec == ReasoningInit /\ [][ReasoningNext]_reasoningVars

\* Calls of the LLM return, and goroutines run.
FairReasoningSpec ==
    ReasoningSpec /\ WF_reasoningVars(HandlerStep) /\ \A g \in Goroutines : WF_reasoningVars(Goroutine(g))

-----------------------------------------------------------------------------
(***************************************************************************)
(* Properties.                                                             *)
(***************************************************************************)

Total(path) == MapThenSumSet(LAMBDA i : path[i].score, DOMAIN path)

\* tot.go:15 "explores multiple reasoning paths ... and selects the best one": no
\* first thought that was dropped beats one that was kept, every further step is the
\* best of its rivals (or none of them is above 0), and no other path has a better
\* mean than the one returned.
TreeIsGreedy ==
    /\ \A s \in ToSet(roots.kept), d \in ToSet(roots.dropped) : s >= d
    /\ \A path \in ToSet(paths) : \A step \in ToSet(Tail(path)) :
          step.score = Max(step.rivals) \/ Max(step.rivals) <= 0
    /\ op = "tree" /\ stage = "answered" =>
          \A path \in ToSet(paths) :
              Total(path) * Len(paths[best]) <= Total(paths[best]) * Len(path)

\* The answer of a SelfConsistency is one that most goroutines gave, and its
\* confidence counts each goroutine that got an answer once, however their appends
\* interleave.
MajorityOfAll ==
    op = "consistency" /\ stage = "answered" =>
        LET Votes(a) == Cardinality({g \in Goroutines : reply[g] = a})
        IN /\ \A a \in Answers : Votes(a) <= Votes(majority)
           /\ Len(samples) = Cardinality(Goroutines) - Votes(NoAnswer)

\* Every request is answered, be it by the Recoverer: nobody waits for a goroutine
\* that failed.
RequestsEnd == <>(stage \in Ended)
=============================================================================
