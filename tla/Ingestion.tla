----------------------------- MODULE Ingestion ------------------------------
(***************************************************************************)
(* One Ingest of internal/rag/pipeline.go: chunking, embedding and one of the *)
(* three indexes, the plain one, multi_rep.go and raptor.go, which stores a   *)
(* tree of summaries level by level, each in a transaction of its own.       *)
(***************************************************************************)
EXTENDS Chunkers

CONSTANTS
    MaxLength,    \* bound on the text
    ChunkSizes, Overlaps,
    ClusterSize,  \* chunks under one summary (5 in the code)
    MaxLevel      \* levels of summaries (10 in the code)

ASSUME IngestionAssumption ==
    /\ MaxLength \in Nat
    /\ ChunkSizes \subseteq Nat \ {0} /\ Overlaps \subseteq Nat
    /\ MaxLevel \in Nat \ {0} /\ ClusterSize \in Nat \ {0, 1}

VARIABLES
    pc, index,
    strategy, size, overlap, text,  \* forgotten once the text is cut
    cuts,      \* what it was cut into
    current,   \* chunks of the level in hand, and its number
    level,
    stored,    \* chunks stored, by level
    lost       \* was the answer to a COMMIT lost?

input == <<strategy, size, overlap, text, cuts>>
ingestionVars == <<pc, index, input, current, level, stored, lost>>

\* The text has any length up to MaxLength; only "fixed" looks at the overlap.  Cutting
\* it is done before anything else happens.
IngestionInit ==
    /\ pc = "chunked"
    /\ index = "unread"
    /\ strategy \in {"fixed", "recursive", "sentence", "semantic"}
    /\ size \in ChunkSizes
    /\ overlap \in IF strategy = "fixed" THEN Overlaps ELSE {0}
    /\ text \in SeqOf({Letter, Space, NewLine, Stop}, MaxLength)
    /\ cuts \in Chunkings(text, strategy, size, overlap)
    /\ current = 0
    /\ level = 0
    /\ stored = <<>>
    /\ lost = FALSE

\* No chunks are an error.  The index that the request asks for matters from here on,
\* the text no more.
Count ==
    /\ pc = "chunked"
    /\ pc' = IF cuts = <<>> THEN "failed" ELSE "embed"
    /\ current' = Len(cuts)
    /\ index' \in {"standard", "raptor", "multi_rep"}
    /\ cuts' = <<>> /\ text' = <<>> /\ strategy' = "fixed" /\ size' = 0 /\ overlap' = 0
    /\ UNCHANGED <<level, stored, lost>>

GoTo(place) == pc' = place /\ UNCHANGED <<index, input, current, level, stored, lost>>

Fails(place) == pc = place /\ GoTo("failed")

\* Embeddings of the chunks, of the summaries that stand for them in multi_rep, and
\* of the summaries of a level.
Embed == pc = "embed" /\ GoTo(IF index = "multi_rep" /\ level = 0 THEN "represent" ELSE "store")
EmbedFails == Fails("embed")

\* generateSummaries never fails: a chunk without a summary stands for itself.
Represent == pc = "represent" /\ GoTo("embed summaries")

EmbedSummaries == pc = "embed summaries" /\ GoTo("store")
EmbedSummariesFails == Fails("embed summaries")

\* Faulty variant: the levels end when what is left would fit under one summary.
AfterLevelEarly ==
    IF index # "raptor" \/ current <= ClusterSize \/ level = MaxLevel THEN "done" ELSE "summarise"

\* The levels of raptor.go go on until one chunk is left, or MaxLevel is reached.
AfterLevel ==
    IF index # "raptor" \/ current = 1 \/ level = MaxLevel THEN "done" ELSE "summarise"

\* Upsert, one transaction.
Store ==
    /\ pc = "store"
    /\ stored' = Append(stored, current)
    /\ \/ pc' = AfterLevel /\ UNCHANGED lost
       \/ pc' = "failed" /\ lost' = TRUE
    /\ UNCHANGED <<index, input, current, level>>

\* Faulty variant: a level that could not be stored is embedded again.
StoreRetried == pc = "store" /\ GoTo("embed")

StoreFails == Fails("store")

RoundedUp(n) == (n + ClusterSize - 1) \div ClusterSize

\* How many clusters n chunks make.  A seed takes the chunks nearest to it until its
\* cluster is full, but never one with the opposite embedding: a cluster stays small
\* only when all the rest lie opposite to it, and so together.
Clusters(n) == RoundedUp(n)..1 + RoundedUp(n - 1)

Summarise ==
    /\ pc = "summarise"
    /\ current' \in Clusters(current)
    /\ level' = level + 1
    /\ pc' = "embed"
    /\ UNCHANGED <<index, input, stored, lost>>

SummariseFails == Fails("summarise")

Over == pc \in {"done", "failed"} /\ UNCHANGED ingestionVars

Step ==
    \/ Count
    \/ Embed \/ EmbedFails \/ Represent \/ EmbedSummaries \/ EmbedSummariesFails
    \/ Store \/ StoreFails \/ Summarise \/ SummariseFails

IngestionNext == Step \/ Over

IngestionSpec == IngestionInit /\ [][IngestionNext]_ingestionVars

\* Calls of the LLM, of the embedding service and of the database return.
FairIngestionSpec == IngestionSpec /\ WF_ingestionVars(Step)

-----------------------------------------------------------------------------
(***************************************************************************)
(* Properties.                                                             *)
(***************************************************************************)

\* Every letter of the text is in a chunk; the chunks are in the order of the text,
\* and apart from the overlap of fixed ones no two share a letter.  No fixed or
\* recursive chunk is longer than the chunk size.
ChunksSound ==
    pc = "chunked" =>
        /\ \A i \in DOMAIN text : text[i] = Letter => \E k \in DOMAIN cuts : i \in Positions(cuts[k])
        /\ \A k \in 1..Len(cuts) - 1 :
              /\ cuts[k].from < cuts[k + 1].from
              /\ strategy # "fixed" => cuts[k].to < cuts[k + 1].from
        /\ strategy \in {"fixed", "recursive"} => \A k \in DOMAIN cuts : Size(cuts[k]) \in 1..size

\* An Ingest that succeeded has stored its chunks and, for raptor, every level up to a
\* single root or to MaxLevel; each level is smaller than the one below it, but for two
\* chunks that never get into one cluster; one that failed has stored nothing,
\* unless raptor had completed lower levels or the answer of the database was lost.
TreeSound ==
    /\ \A k \in 1..Len(stored) - 1 : stored[k + 1] < stored[k] \/ stored[k] = 2
    /\ pc = "done" =>
          /\ stored # <<>>
          /\ index = "raptor" => Last(stored) = 1 \/ Len(stored) = MaxLevel + 1
          /\ index # "raptor" => Len(stored) = 1
    /\ pc = "failed" /\ stored # <<>> => index = "raptor" \/ lost

\* Index comes to an end, degenerate as the embeddings may be.
IngestEnds == <>(pc \in {"done", "failed"})
=============================================================================
