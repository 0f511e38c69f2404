------------------------------ MODULE RagQuery ------------------------------
(***************************************************************************)
(* One POST to /rag/query or /rag/search: Query and Search of               *)
(* internal/rag/pipeline.go with the router, the decomposer, the rewriter,   *)
(* HyDE, the fusion, the reranker and the generator they call, over the      *)
(* searches of internal/vectorstore/pgvector.go.  Chunks are ingested and    *)
(* deleted meanwhile.  Each helper is an LLM call that may fail, and each    *)
(* failure has a way around it.                                            *)
(***************************************************************************)
EXTENDS Naturals, Sequences, FiniteSets, SequencesExt, FiniteSetsExt

CONSTANTS
    Own,          \* chunks that the requesting tenant has, had or will have
    Foreign,      \* those of another tenant
    TopK,
    MaxVariants,  \* bound on the sub-questions or rewritings an LLM returns
    Lookups,      \* how the tenant is found: see Visible
    Exact,        \* are searches complete? see Found
    MaxChanges    \* bound on the changes of the store during the request

ASSUME SizesAssumption ==
    /\ {TopK, MaxVariants} \subseteq Nat \ {0}
    /\ MaxChanges \in Nat
ASSUME ChunksAssumption == IsFiniteSet(Own)
ASSUME DeploymentAssumption ==
    Lookups \subseteq {"local key", "tenant context"} /\ Exact \in BOOLEAN

Chunks == Own \cup Foreign

VARIABLES
    request,   \* operation and flags of the request
    lookup,    \* the deployment
    life,      \* of each chunk: "planned", "stored" or "deleted"
    changes,
    pc,
    rewrite,   \* is the query to be rewritten?
    left,      \* variants still to search for
    lists,     \* the result sets of the variants
    results,
    searched   \* how the searches without an error went: see Retrieved

deployment == <<request, lookup>>
store == <<life, changes>>
vars == <<deployment, store, pc, rewrite, left, lists, results, searched>>

Requests ==
    [op : {"query", "search"}, strategy : {"", "simple", "complex", "comparison"},
     rewrite : BOOLEAN, hyde : BOOLEAN, rerank : BOOLEAN]

-----------------------------------------------------------------------------
(***************************************************************************)
(* The store.                                                              *)
(***************************************************************************)
\* Faulty variant: a search without tenant_id = $2.
VisibleToAll == {c \in Chunks : life[c] = "stored"}

\* The rows a search filters by tenant.  getTenantIDFromContext looks under a key of a
\* type of its own, finds nothing and searches as uuid.Nil, which no tenant has;
\* "tenant context" is a deployment that asks tenant.IDFromContext instead.
Visible == {c \in Own : lookup = "tenant context" /\ life[c] = "stored"}

\* What a search may return.  IVFFlat reads a part of the index before the tenant is
\* looked at, MinScore drops rows, and a search that breaks while it is executed ends
\* the rows: only where none of this happens are the best TopK returned.
Found ==
    LET full == IF Cardinality(Visible) < TopK THEN Cardinality(Visible) ELSE TopK
    IN {ranked \in SetToAllKPermutations(Visible) :
          Len(ranked) <= full /\ (Exact => Len(ranked) = full)}

Ingest(c) ==
    /\ life[c] = "planned" /\ changes < MaxChanges
    /\ life' = [life EXCEPT ![c] = "stored"]
    /\ changes' = changes + 1
    /\ UNCHANGED <<deployment, pc, rewrite, left, lists, results, searched>>

Delete(c) ==
    /\ life[c] = "stored" /\ changes < MaxChanges
    /\ life' = [life EXCEPT ![c] = "deleted"]
    /\ changes' = changes + 1
    /\ UNCHANGED <<deployment, pc, rewrite, left, lists, results, searched>>

-----------------------------------------------------------------------------
(***************************************************************************)
(* Reciprocal rank fusion.  The score of a chunk is the sum of 1 / (60 +   *)
(* rank) over its result sets; here it is multiplied by the product of all  *)
(* denominators that occur, which keeps it exact.                           *)
(***************************************************************************)
Weight(rank) ==
    FoldLeft(LAMBDA product, r : IF r = rank THEN product ELSE (60 + r) * product,
             1, [r \in 1..TopK |-> r])

Rank(set, c) == SelectInSeq(set, LAMBDA d : d = c)

\* What one result set gives to the score of c.
Share(set, c) == IF c \in ToSet(set) THEN Weight(Rank(set, c)) ELSE 0

\* Faulty variant: the score of a chunk seen before is replaced, not added to.
LastScore(sets, c) ==
    FoldLeft(LAMBDA score, set : IF c \in ToSet(set) THEN Share(set, c) ELSE score, 0, sets)

Score(sets, c) == FoldLeft(LAMBDA score, set : score + Share(set, c), 0, sets)

\* Every chunk once, best first, at most TopK.  sort.Slice leaves chunks of the same
\* score in any order.
Fused(sets) ==
    LET all == UNION {ToSet(sets[i]) : i \in DOMAIN sets}
        Sorted(s) == \A i, j \in DOMAIN s : i < j => Score(sets, s[i]) >= Score(sets, s[j])
    IN {SubSeq(s, 1, IF Len(s) < TopK THEN Len(s) ELSE TopK) :
            s \in {s \in SetToSeqs(all) : Sorted(s)}}

-----------------------------------------------------------------------------
(***************************************************************************)
(* The request.                                                            *)
(***************************************************************************)
Init ==
    /\ request \in Requests
    /\ lookup \in Lookups
    /\ life \in [Chunks -> {"planned", "stored"}]
    /\ changes = 0
    /\ pc = IF request.op = "query" THEN "route"
            ELSE IF request.hyde THEN "hyde"
            ELSE IF request.rewrite THEN "rewrite" ELSE "search"
    /\ rewrite = request.rewrite
    /\ left = 0
    /\ lists = <<>>
    /\ results = <<>>
    /\ searched = {}

\* The router's LLM call gives a strategy, or fails and gives "simple"; the one of the
\* request goes before.  Sub-questions go before HyDE and rewriting.
Route ==
    /\ pc = "route"
    /\ \E routed \in {"simple", "complex", "comparison"} :
         LET strategy == IF request.strategy = "" THEN routed ELSE request.strategy
             rewriting == request.rewrite \/ strategy = "comparison"
         IN /\ rewrite' = rewriting
            /\ pc' = IF strategy = "complex" THEN "decompose"
                     ELSE IF request.hyde THEN "hyde"
                     ELSE IF rewriting THEN "rewrite" ELSE "search"
    /\ UNCHANGED <<deployment, store, left, lists, results, searched>>

\* Retrieve embeds a text and searches for it.  A search that breaks at its execution
\* (dimensions that differ, a cancel, a lost connection) is no error either: rows.Next
\* ends, nobody asks rows.Err, and the rows so far, often none, are all there is.
Retrieved(list) ==
    /\ list \in Found
    /\ \E outcome \in IF Exact THEN {"whole"} ELSE {"whole", "broken"} :
         searched' = searched \cup {outcome}

GoTo(place) ==
    /\ pc' = place
    /\ UNCHANGED <<deployment, store, rewrite, left>>

PastHyDE == IF rewrite THEN "rewrite" ELSE "search"

\* A hypothetical answer is searched for; when it cannot be had, or the search fails or
\* finds nothing, the query goes on as if it had not been asked for.
HyDEFinds ==
    /\ pc = "hyde"
    /\ \E list \in Found \ {<<>>} : Retrieved(list) /\ results' = list
    /\ GoTo("rerank") /\ UNCHANGED lists

HyDEFindsNothing ==
    /\ pc = "hyde"
    /\ Retrieved(<<>>)
    /\ GoTo(PastHyDE) /\ UNCHANGED <<lists, results>>

HyDEFails ==
    /\ pc = "hyde"
    /\ GoTo(PastHyDE) /\ UNCHANGED <<lists, results, searched>>

\* The decomposer falls back on the query itself, one variant.
Decompose ==
    /\ pc = "decompose"
    /\ left' \in 1..MaxVariants
    /\ pc' = "sub-questions"
    /\ UNCHANGED <<deployment, store, rewrite, lists, results, searched>>

\* The rewriter adds to the query itself what the LLM returns.
Rewrite ==
    /\ pc = "rewrite"
    /\ left' \in 2..MaxVariants + 1
    /\ pc' = "rewritings"
    /\ UNCHANGED <<deployment, store, rewrite, lists, results, searched>>

RewriteFails ==
    /\ pc = "rewrite"
    /\ GoTo("search") /\ UNCHANGED <<lists, results, searched>>

Variants == pc \in {"sub-questions", "rewritings"}

SearchVariant ==
    /\ Variants /\ left > 0
    /\ left' = left - 1
    /\ \E list \in Found : Retrieved(list) /\ lists' = Append(lists, list)
    /\ UNCHANGED <<deployment, store, pc, rewrite, results>>

\* A variant whose search fails is left out.
VariantFails ==
    /\ Variants /\ left > 0
    /\ left' = left - 1
    /\ UNCHANGED <<deployment, store, pc, rewrite, lists, results, searched>>

Fuse ==
    /\ Variants /\ left = 0 /\ lists # <<>>
    /\ results' \in Fused(lists)
    /\ GoTo("rerank") /\ UNCHANGED <<lists, searched>>

\* Faulty variant: no result sets, no results, whatever they were for.
NothingToFuseGivesNothing ==
    /\ Variants /\ left = 0 /\ lists = <<>>
    /\ GoTo("rerank")
    /\ UNCHANGED <<lists, results, searched>>

\* All searches failed: the query itself is searched for instead of sub-questions,
\* whereas multiQueryRetrieve returns no results and no error.
NothingToFuse ==
    /\ Variants /\ left = 0 /\ lists = <<>>
    /\ GoTo(IF pc = "sub-questions" THEN "search" ELSE "rerank")
    /\ UNCHANGED <<lists, results, searched>>

Search ==
    /\ pc = "search"
    /\ \E list \in Found : Retrieved(list) /\ results' = list
    /\ GoTo("rerank") /\ UNCHANGED lists

\* The text could not be embedded, the query not be sent or a row not be read.
SearchFails ==
    /\ pc = "search"
    /\ GoTo("failed") /\ UNCHANGED <<lists, results, searched>>

Reranked == IF request.op = "query" THEN "generate" ELSE "answered"

\* The scores of the LLM sort the results anew.
Rerank ==
    /\ pc = "rerank" /\ request.rerank
    /\ results' \in SetToSeqs(ToSet(results))
    /\ lists' = <<>>
    /\ GoTo(Reranked) /\ UNCHANGED searched

\* Not asked for, an error or scores that cannot be read: the order stays.
RerankFails ==
    /\ pc = "rerank"
    /\ lists' = <<>>
    /\ GoTo(Reranked) /\ UNCHANGED <<results, searched>>

\* The answer cites all results.
Generate ==
    /\ pc = "generate"
    /\ GoTo("answered") /\ UNCHANGED <<lists, results, searched>>

GenerateFails ==
    /\ pc = "generate"
    /\ GoTo("failed") /\ UNCHANGED <<lists, results, searched>>

Over == pc \in {"answered", "failed"} /\ UNCHANGED vars

Helper == HyDEFinds \/ HyDEFindsNothing \/ HyDEFails \/ Decompose \/ Rewrite \/ RewriteFails
Retrieval ==
    SearchVariant \/ VariantFails \/ Fuse \/ NothingToFuse \/ Search \/ SearchFails
Answer == Rerank \/ RerankFails \/ Generate \/ GenerateFails

Next ==
    \/ Route \/ Helper \/ Retrieval \/ Answer
    \/ \E c \in Chunks : Ingest(c) \/ Delete(c)
    \/ Over

Spec == Init /\ [][Next]_vars

-----------------------------------------------------------------------------
(***************************************************************************)
(* Properties.                                                             *)
(***************************************************************************)

\* Whatever way the results came, there are TopK at most, none twice, none of another
\* tenant and none that was not stored at some time during the request.
Cited ==
    /\ Len(results) <= TopK
    /\ IsInjective(results)
    /\ \A c \in ToSet(results) : c \in Own /\ life[c] # "planned"

\* No result set puts c below d, and some result set puts it above.
Beats(sets, c, d) ==
    LET Place(set, x) == IF x \in ToSet(set) THEN Rank(set, x) ELSE TopK + 1
    IN /\ c # d
       /\ \A i \in DOMAIN sets : Place(sets[i], c) <= Place(sets[i], d)
       /\ \E i \in DOMAIN sets : Place(sets[i], c) < Place(sets[i], d)

\* Fusion respects a consensus of the result sets: a chunk that none of them puts
\* below another is not below it after the fusion, nor cut off while that one stays.
ConsensusKept ==
    pc = "rerank" => \A c \in Own, i \in DOMAIN results :
        Beats(lists, c, results[i]) => c \in ToSet(SubSeq(results, 1, i))

\* A request none of whose searches succeeded is not answered, with two exceptions:
\* rewriting, because multiQueryRetrieve returns no error when it has no result sets,
\* and a search that broke at its execution, which passes for one that found nothing.
FailureIsTold ==
    pc = "answered" /\ "whole" \notin searched => rewrite \/ "broken" \in searched

\* README.md:22 "tenant isolation", README.md:192 "RAG query (retrieve + rerank +
\* generate with citations)": a search that succeeded finds chunks of the tenant when
\* there are any.
TenantIsServed ==
    pc = "answered" /\ "whole" \in searched /\ (\E c \in Own : life[c] = "stored") => results # <<>>
=============================================================================
