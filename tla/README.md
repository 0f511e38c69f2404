# A TLA+ model of the AI backend

TLA+ modules, TLC configurations and TLAPS proofs for the Go service in `src/`:
an HTTP API (`cmd/api`) and a worker (`cmd/worker`) over PostgreSQL, Redis
(Asynq), Supabase storage and three LLM providers. The repository has no tests;
this directory states what its stateful parts promise and checks it.

Line numbers refer to files under `src/`. `PROJECT.json` maps every definition to
the lines it stands for.

## 1. Inventory

| Component (code) | State | Operations | Works with |
|---|---|---|---|
| Prompt versions (`internal/prompt`) | rows of `prompts` and `prompt_versions` | Create, CreateVersion, GetByID, RenderPrompt, List... | PostgreSQL transactions and row locks; one goroutine per request |
| Webhooks (`internal/webhook`) | `webhooks`, `webhook_deliveries`, a channel of 1000, one delivering goroutine | Create, Delete, Dispatch, deliver, recordDelivery | receivers over HTTP; nothing in `src/` calls Dispatch yet |
| Document processing (`internal/document`, `internal/queue/workers`) | `documents`, `document_chunks`, stored objects, Asynq tasks | Upload, Delete, tasks `document:process` and `embedding:generate` | storage, Asynq, RAG Ingest |
| LLM gateway (`internal/llm`) | configuration only; per call a provider, a loop counter, a back-off | Chat, ChatStream, Embed, ListModels | OpenAI, Anthropic, Ollama |
| LLM streaming (`llm.go` handler, `internal/llm`) | a channel of 64 per stream, a producer goroutine | ChatStream | middleware, provider, HTTP client |
| Migrations (`internal/database`) | `schema_migrations`, the schema | RunMigrations at startup, `make migrate` | every starting instance |
| RAG (`internal/rag`, `internal/vectorstore`, `pkg/chunker`) | `document_chunks` | Ingest with four chunkers and three indexes; Query and Search with router, decomposer, rewriter, HyDE, fusion, reranker, generator | gateway, embeddings, PostgreSQL |
| Conversation memory (`internal/memory`) | entries under a mutex, a summary | Add, Get, Clear of three memories, summarize, Assemble | gateway, called with the mutex held |
| Fine-tuning (`internal/finetune`) | `finetune_datasets`, `finetune_jobs`, model registry | UploadDataset, StartJob, task `finetune:run` | storage, Asynq; the worker is a placeholder |
| Tenancy and authentication (`internal/auth`, `internal/tenant`) | `tenants`, `users`, `api_keys` | Authenticate by key, by JWT | every handler |
| Queue and worker (`internal/queue`, `cmd/worker`) | tasks in Redis | enqueue, handle | only `finetune:run` is registered |
| API server (`cmd/api`, `internal/api`) | none of its own | routing, startup, shutdown | everything |
| Rate limiter (`middleware/ratelimit.go`) | token buckets by remote address | Limit, cleanup | every request |
| Agents (`internal/agent`) | the messages of a run, a memory shared by all runs | Run, Orchestrator, PromptChain, Discuss | gateway, tools, memories |
| Reasoning (`internal/reasoning`) | thoughts, samples, drafts of one request | TreeOfThought, SelfConsistency, ReflectionChain, ChainOfThought, StructuredOutput | gateway; goroutines for the samples |
| Guardrails, Evaluation, Multimodal | none between calls | chains of LLM or HTTP calls | gateway |
| Audit, Cache | `audit_logs`, `llm_usage_logs`; Redis keys | single statements | nothing calls them |
| Storage, Configuration, Tokenizer | none | pure input and output | all |

What is hard here, and what makes each part correct:

* **Prompt versions.** Concurrent writers of one prompt, readers that use two
  statements without a transaction, commits whose answer is lost. Correct: version
  numbers are contiguous and unique, acknowledged versions stay, reads are not older
  than what the client already knew (a list that breaks off may lack older versions),
  nobody waits for ever.
* **Webhooks.** A bounded in-memory queue between many callers and one worker, a
  process that may stop, receivers and an INSERT that may fail separately. Correct:
  no delivery doubled, reordered or forgotten while the process lives, the log tells
  the truth, Dispatch never blocks.
* **Documents.** Five stores or statements without a common transaction, tasks that
  are retried and may overlap with deletion and with themselves. Correct: "ready"
  means searchable, a deleted document leaves nothing searchable, the status tells
  how processing ended wherever a handler ran that could tell.
* **Gateway.** Retries inside a fallback, with a context that may end anywhere.
  Correct: bounded cost, fallback last, errors only when nothing is left to try,
  a prompt stop on cancellation.
* **Streaming.** Two goroutines, a bounded channel, no context at the sends.
  Correct: everything in order, the end is told truthfully, no goroutine is left.
* **Migrations.** Several instances check and apply without a common lock, may crash
  at each statement, and may be of different releases; `make migrate` applies the
  same files in its own way. Correct: each file once and in order, records and
  success mean applied.
* **RAG query.** Six helpers, each an LLM call with a fallback of its own, several
  searches of a store that changes meanwhile, and a fusion of their rankings.
  Correct: whatever way the results came they are the tenant's, distinct and TopK at
  most; fusion respects what all rankings agree on; a request whose searches all
  reported a failure is not answered as if nothing had been found.
* **Ingestion.** Chunkers with separators, blanks and sizes at every edge; an index
  whose levels are separate transactions and may not shrink. Correct: no letter is
  lost or doubled, no level is skipped, it ends.
* **Conversation.** A mutex held during an LLM call, callers that share several
  memories, failing and blank summaries, Clear in between. Correct: buffers and
  windows hold the latest entries, a summary memory forgets nothing, nobody waits for
  ever.
* **Reasoning.** Scores and lists an LLM makes up, goroutines that share a slice and
  may fail. Correct: the path returned is the best one found, each sample counts
  once, every request is answered.

`PROJECT.json` lists each of these hazards at its line, with the properties that
cover it, and those not covered yet with a note.

## 2. Modules

| Module | Role |
|---|---|
| `PromptVersions` | Prompt service statement by statement |
| `PromptHistory`, `PromptRefinement` | its abstract specification (an append-only history per prompt) and the mapping |
| `PromptVersionsProofs` | proofs, the refinement included |
| `WebhookDelivery` | Dispatch, channel, worker, log, restart |
| `LossyFifo` | its abstract specification (a first-in first-out channel that may lose) |
| `WebhookDeliveryProofs` | proofs, the refinement included |
| `DocumentPipeline` | upload, deletion and both tasks of a document |
| `LLMGateway`, `MCLLMGateway` | one Chat; constants for TLC |
| `LLMStream` | one streaming chat |
| `LLMProofs` | proofs about both |
| `Migrations`, `MCMigrations` | RunMigrations of several instances and make migrate; releases and files for TLC |
| `MigrationsProofs` | proofs |
| `RagQuery`, `MCRagQuery` | one Query or Search over a changing store; symmetry for TLC |
| `Chunkers` | the four chunkers as operators |
| `Ingestion` | one Ingest: `Chunkers`, then the plain, multi-representation or RAPTOR index |
| `DocumentProofs` | proofs about `DocumentPipeline`, `Chunkers` and `Ingestion` |
| `Conversation`, `MCConversation` | agents, orchestrator and discussions over shared memories; the memories of an instance for TLC |
| `ConversationProofs` | proofs |
| `Reasoning`, `MCReasoning` | one request to a reasoning strategy or a prompt chain; scores for TLC |
| `AnswerProofs` | proofs about `RagQuery` and `Reasoning`, which choose their answers by the same kind of folds |
| `FoldFacts` | lemmas about the folds the models are built from: what a fold that keeps the better of two ends with, sums, and sequences put one behind the other |

Two components that share a module of proofs name their parts apart
(`StreamInit`, `ReasoningNext`...).

Definitions whose comment begins with "Faulty variant" are plausible mistakes (a
dropped guard, a missing rollback, a swapped order). They are not part of any
specification; each property is known to fail when one of them takes the place of
the definition that follows it (`mutants` in `PROJECT.json`).

### PromptVersions

`current` and `rows` are the two tables as committed. `pc[r]` is the statement a
request runs next; what an open transaction has written is not in the tables until
the commit action, as READ COMMITTED has it. `lock` is the row lock of
`SELECT ... FOR UPDATE`. Create is `BeginCreate`, `InsertPrompt`, `InsertFirst`,
`CommitCreate`; CreateVersion is `BeginVersion`, `SelectForUpdate`,
`InsertVersion`, `UpdateCurrent`, `CommitVersion`; RenderPrompt is `BeginRender`,
`ReadCurrent`, `FetchVersion`; GetByID is `BeginGet`, `ReadPrompt`,
`ListVersions` or `ListCut`, because `rows.Err()` is not asked (`service.go:98`): a
list that breaks off is returned, newest versions first, without an error. `Fail` is any failing statement (with the deferred Rollback), the
commit actions with `reply = FALSE` a COMMIT that took effect but reported an
error. `acked`, `known` and `listed` only record what clients were told.

### WebhookDelivery and LossyFifo

`queue` is the channel, `worker`, `job` and `outcome` the delivering goroutine,
`log` the rows of `webhook_deliveries`. A Dispatch is `Query`, one `Offer` or
`Drop` per webhook in any order, then `Return` (or `CutShort`, because
`rows.Err()` is not asked). A delivery is `Take`, `Arrive` or `Unreached`,
`Answer`, `Record`. `Restart` ends the process at any point: the channel and the
delivery in hand are gone. `accepted`, `got`, `done` and `lost` are for the
properties. LossyFifo says what channel and worker are together: messages leave in
the order they entered, once at most, some never.

### DocumentPipeline

`status`, `file` and `chunks` are the row, the object and the batches of chunks of
a document; `tasks` holds every Asynq task with the step its handler is at. Asynq
is external and modelled by its use here: at least once, in any order,
concurrently, retried until `MaxRetry`, then archived. Uploads and deletions have
one action per store they touch. Faults are status updates that fail with or
without effect, lost answers, timeouts that do not stop the handler, and dead
workers.

Five parts are unfinished in `src/`: no caller enqueues `document:process`, so nobody
puts a tenant in its payload, which `document.go:85` hands on unparsed to the
embedding task; `cmd/worker/main.go:44` registers a handler for `finetune:run` only;
no task context carries a tenant; and `embedding.go:54` hands `Content: ""` to Ingest.
The variable `supplied` says which of them a deployment supplies. The empty set is
the code as it is, in which no document task exists; the properties are checked for
it and for the five steps towards a working pipeline, in the order in which a document
meets them: the task is enqueued and archived without a handler (status "pending"),
handled and "failed" without a tenant, refused by the embedding handler
(`embedding.go:43`, status "processing"), and so on. `Start` has the first and the
third of these ends; `Refused` names the third in the properties.

### LLMGateway

The configuration (`configured`, `primary`, `fallback`, `maxRetries`) and the
behaviour of the providers (`health`, `speaks`) are chosen in `Init`; the actions
follow `Chat` and `chatWithRetry`: `Lookup`, `BeginCall`, the three ends of a call,
and the select of the back-off (`TimerFires`, `BackoffCut`). A provider client is
reduced to how a call ends: in an error, or in an answer whose content is real, blank
(any client, when a good reply has no choice or no text: `openai.go:61`,
`anthropic.go:81`) or decoded from a refusal; `Lenient` are the clients that decode a
reply whatever its status (`ollama.go:94`). The gateway does not change after `NewGateway`, so one
call stands for all concurrent ones.

### LLMStream

`handler` and `producer` are the two goroutines, `chan` the channel, `kind` the
client that feeds it. `ReceiveEnd` has the differences between the three clients:
for OpenAI and Ollama the end of the body is the end of the answer, Anthropic's
stream may end without a final chunk. The client for Ollama never looks at a status:
`ReceiveRefusal` is its error object, decoded as a part without text (`ollama.go:159`),
after which the stream ends as usual. `DeadlinePasses` is the server's `WriteTimeout`
(`cmd/api/main.go:65`): what is written later does not arrive although the client is
there, and the handler, which ignores the errors of its writes, reads on. `stack` is the middleware; behind
`Logging` the writer is no `http.Flusher`.

### Migrations

A file is its statements, numbered through all files (`FileOf`), because
`make migrate` commits each on its own. `Needs` says which other statements' objects one
refers to; `Named` ones (CREATE TABLE, ADD COLUMN) fail when their object exists,
`Unnamed` ones (`CREATE INDEX ON`) make one more each time, the others are guarded by
IF NOT EXISTS. `copies` counts the committed objects of each statement, `recorded` are
the rows of `schema_migrations`, `applied` only counts for the properties; `pc` and
`at` are the loop of each instance. `Check` is outside the transaction of `Exec`,
`Record`, `Commit`, as in the code; `Exec` fails as a whole when one statement of its
file is not `Runnable`. `Busy` is how PostgreSQL makes a second CREATE of the same
objects wait. `Fails` and `Stop` are failures and crashes. Instances may carry
different numbers of files.

`MakeMigrate` starts psql (`Makefile:23`) at the first statement: `PsqlRuns` commits
one, `PsqlFails` passes over one that fails, since there is no ON_ERROR_STOP, and
`PsqlBroken` is a failure of its own, of a statement, of the rest of a file (the loop
does not look at what psql returned) or of everything that is left. Nothing is recorded.

### RagQuery

`request` has the operation and its flags, `life` says of each chunk whether it is
planned, stored or deleted; `Ingest` and `Delete` change it while the request runs.
`pc` follows `Query` (`Route`, then one of the ways of its switch) and `Search`
through `retrieve`: `HyDEFinds`, `HyDEFindsNothing`, `HyDEFails`, `Rewrite`,
`Decompose`, one `SearchVariant` or `VariantFails` per variant, `Fuse`, `Search`,
`Rerank`, `Generate`. What a search returns is any ranking of the visible chunks
that is no longer than TopK (`Found`): similarity, MinScore and the approximate
index decide which. `searched` tells a search that succeeded ("whole") from one that
broke at its execution ("broken"), which `SimilaritySearch` and `HybridSearch` return
without an error, because they do not ask `rows.Err()` (`pgvector.go:71`, `:126`). The
scores of the fusion are exact integers. `lookup` is the way
the tenant is found: `"local key"` is the code, `"tenant context"` a deployment in
which `getTenantIDFromContext` asks `tenant.IDFromContext`; the properties are
checked for both, since with the first every search finds nothing.

### Chunkers and Ingestion

A chunk is an interval of positions of the text, because the chunkers put back the
separators they took out inside a chunk. `Merge` is the loop that joins parts again,
`Split` the recursion over the separators (level by level, each level a `Finer`
splitting of the one before), `Chunkings` the choice of a strategy (any
partition of the sentences for the semantic one, whose cuts depend on embeddings,
or the recursive chunks when those fail). Ingestion cuts in `IngestionInit` and then goes
through `Ingest` and the indexers: `stored` are the numbers of chunks stored, by
level. `Clusters` says how many clusters the greedy clustering of RAPTOR may make.

### Conversation

An entry is its number in the memory, so that "in order", "once" and "the latest"
can be said; `summary` are the numbers its text stands for. `mutex` is held by a
caller between the append and the end of `summarize` (`Folded`, `NotFolded`); the
other operations take and release it within one action. `turns` is what a caller
still has to run: one agent (`Route`) or the rounds of a discussion (`Discuss`), each
an `Ask`, `Recall`, some `Observe`, then `Conclude` and `Answer`, or `ChatFails`, or
`GiveUp`. `Clear` may come from anybody.

### Reasoning

`op` is the strategy. A tree is `roots` and `paths` with the scores of the thoughts
each step was chosen from; an LLM may return no thought, or a null one (`Plant`,
`NullThought`), upon which the code panics and the Recoverer answers.
SelfConsistency has a program counter per goroutine and the read and the write of
`append` apart (`Lock`, `WriteBack`), so that the mutex matters. Reflections and
chains are loops of calls.

## 3. Runs

| Run | Instance | Shows |
|---|---|---|
| `prompts` | 3 requests of any kind, 1 prompt, 2 templates, versions 1-2 asked for | `HistoryContiguous`, `AckedDurable`, `NoSpuriousConflict`, `ReadsSeeAcked`, `ImplementsHistory`, `AllAnswered` |
| `webhooks` | 1 webhook, 3 Dispatch calls, channel of 2, 1 restart | `Accounted`, `LogFaithful`, `ImplementsFifo`, `AcceptedIsSettled`, `DispatchReturns` |
| `documents` | 1 document, 6 deployments, 2 retries, 2 faults | `ReadyHasChunks`, `DeletedHasNoChunks`, `DuplicatesNeedFaults`, `HonestOutcome`, `ProcessingEnds` |
| `gateway_chat` | 2 providers (one lenient), every configuration and health, retries -1, 0, 2 | `CallBudget`, `FallbackComesLast`, `ErrorIsExhausted`, `CancelStops`, `AnswersAreGenuine`, `ChatReturns` |
| `streams` | each client, channel of 2, answers of up to 4 parts, with and without Logging, refusals of Ollama, a client that leaves, a deadline that passes | `WroteInOrder`, `EndIsTold`, `ProducerEnds` |
| `migrations` | 3 instances of releases with 2, 4 and 4 files, 5 statements with the shapes of 001, 002, 003 and 007, 2 runs of make migrate, 2 faults | `InOrder`, `RunOnce`, `OkMeansApplied` |
| `rag_query` | 3 own chunks and 1 foreign, TopK 2, up to 3 variants, 1 change of the store | `Cited`, `ConsensusKept`, `FailureIsTold` |
| `conversation` | 2 callers, 2 agents, a summary memory beside a buffer or a window of two entries, 1 Clear | `RecentKept`, `NothingForgotten`, `RunsEnd` |
| `reasoning` | 3 goroutines, trees of 2 branches, depth 3 and 3 thoughts, scores -1, 5, 10 | `TreeIsGreedy`, `MajorityOfAll`, `RequestsEnd` |
| `ingest` | every text of up to 5 letters, blanks, newlines and stops, chunk sizes 1-3, clusters of 2, 3 levels | `ChunksSound`, `TreeSound`, `IngestEnds` |

The type invariants of `PromptVersions`, `WebhookDelivery`, `LLMGateway` and
`Migrations` are theorems and need no run; those of `DocumentPipeline`, `LLMStream`,
`Conversation`, `RagQuery`, `Reasoning` and `Ingestion` are part of the invariant that
is proved.

Why the bounds are enough: a conflict between writers of a prompt needs a Create
and two CreateVersions, a stale read a Create, a CreateVersion and a reader, and
different prompts share nothing. Three deliveries fill a channel of two behind a
busy worker, and reordering needs two. Documents share nothing either; two retries
and two faults give overlapping runs of both tasks with a deletion. The gateway
never looks beyond two providers, and three attempts have a first, a middle and a
last one. A channel of two is full and empty again within an answer of four parts.
Two instances of one release race for each file beside one of an older release; more
only repeat that, and the proofs cover any number of them. The five statements have a
table, one that needs it, an unnamed index, a file that needs another but its
predecessor, and a column with IF NOT EXISTS; two runs of make migrate double an index
and give a second chance to what the first one missed. Three chunks and TopK 2 have a chunk that is cut off, and three
rankings of them can agree and disagree about any pair. Two callers in a discussion
append to each memory while the other holds its mutex, fold it several times and
clear it in between. A tree of three steps has paths of different length with equal
and negative scores; three goroutines give a majority, a tie and a lost append. Five
characters hold every two-character separator at the beginning, the middle and the
end of a text that is longer than a chunk.

### Divergences from the documentation

Two runs show a statement of the documentation to be false of the code:

| Run | What happens |
|---|---|
| `stream_behind_logging` | Every request for `/llm/chat/stream` is answered with 500: the Logging middleware's writer has no `Flush` (`logging.go:9`, `llm.go:47`) |
| `rag_no_tenant` | Every Query and Search looks for chunks of `uuid.Nil` and finds none, because the tenant is looked up under a key nobody sets (`pipeline.go:338`) |

The models contain more such facts, each as the action named:

* An error reply of Ollama is decoded into an empty answer and returned as a success
  (`RefusalTaken`, `ollama.go:94`); `AnswersAreGenuine` says that the other clients do
  not. A good reply without a choice or a text is an empty answer for all of them
  (`Answered`, `openai.go:61`, `anthropic.go:81`).
* A streaming request that Ollama refuses ends as an empty stream with `Done: true`
  (`ReceiveRefusal`, `ollama.go:131-160`), and a stream longer than 60 s is cut for a
  client that is still there (`DeadlinePasses`, `cmd/api/main.go:65`).
* A list of versions, and the rows of a search, that break off are returned without an
  error (`ListCut`, `prompt/service.go:98`; `Retrieved`, `pgvector.go:71` and `:126`): a
  query may be answered as if nothing had been found.
* The worker has no handler for `document:process` and `embedding:generate`: asynq
  archives them and a document stays "pending" (`Start`, `cmd/worker/main.go:44`). An
  embedding task without a tenant leaves its document in "processing" (`Start`,
  `embedding.go:43`).
* With a handler, a `document:process` task finds no document because its context has no tenant
  (`GetDocument`, `document.go:52`), and nobody enqueues one (`EnqueueProcess`).
* A webhook delivery that failed is not repeated (`Answer`, `dispatcher.go:76`), and
  a webhook with a logged delivery cannot be deleted (`Delete`,
  `005_audit_webhooks.sql:41`), whatever `README.md:25` and `:287` say. A full
  channel and a cancelled Dispatch lose deliveries with success reported.
* A new release that loses a race against an old one serves without its own
  migration, and after `make migrate` the startup fails on the first file whose objects
  exist and never applies a later one (`Exec`, `migrations.go:53`).
* `make migrate` goes on after a failing statement and a failing file, so that later
  files are applied with a gap before them, and each run of it adds another copy of the
  four unnamed indexes (`PsqlFails`, `PsqlRuns`, `Makefile:23`, `002:28` and `:32`,
  `005:51` and `:52`). `InOrder` is about what is recorded, which make migrate never does.
* A negative `LLM_MAX_RETRIES` makes every Chat fail without a call, two calls may
  begin after the context is done, and the fallback is asked for the primary's model
  (`gateway.go:61`).
* A failed Upload leaves its object in the storage, a retried embedding task stores
  its chunks a second time.
* When all rewritings of a query fail to be searched, the answer is one without
  sources instead of an error (`NothingToFuse`, `pipeline.go:331`).
* A blank summary replaces the older half of a conversation (`Folded`,
  `summary.go:134`), and a run that fails leaves its question in the memory without
  an answer (`ChatFails`, `GiveUp`).
* A tree without a first thought, or with a null one, panics (`Plant`,
  `NullThought`, `tot.go:89`); its branches are not explored in parallel as
  `tot.go:15` has it.
* A RAPTOR index that fails at a higher level leaves the lower ones stored, and two
  chunks with opposite embeddings are summarised separately up to the tenth level.
* The recursive and the sentence chunker take no notice of the overlap, the
  recursive one loses the stop at which it cuts, the sentence one keeps blank chunks.

### Fairness

* `prompts`: a request that can run its next statement does (WF per request). The
  server ends every statement and a lock wait ends with the holder's transaction;
  failures are not forced to happen or not to happen.
* `webhooks`: only the callers are fair (WF per call), so `DispatchReturns` holds
  even if the worker hangs. `AcceptedIsSettled` assumes in addition, in its own
  statement, that the worker goes on: its POST and its INSERT have deadlines (10 s
  and 15 s).
* `documents`: Asynq runs the tasks it holds and a running handler goes on (WF per
  task); whoever enqueues after an upload does so. Requests are under no fairness.
* `gateway_chat`: a call returns and a timer fires. The HTTP clients have timeouts
  or use the request's context.
* `streams`: both goroutines run, and the provider's next event comes, be it an error.
* `conversation`: a caller goes on (WF per caller): LLM calls return, since the
  clients have timeouts, and Go's mutexes are not withheld for ever from one that
  waits; Clear is under no fairness.
* `reasoning`: the handler and each goroutine go on; so does `ingest`. Their calls
  return for the same reason.

`rag_query` and `migrations` check safety only, and their specifications have no
fairness.

No property needs strong fairness.

## 4. Proofs

All proofs are checked by TLAPS for every value of the constants, under the
assumptions named in the modules (`NoRequestAssumption`, `CapacityAssumption`...),
which only say what kind of value a constant is.

| Module | Theorems | Argument |
|---|---|---|
| `PromptVersionsProofs` | `TypeCorrect`, `HistoryIsContiguous`, `AckedIsDurable`, `NoConflict`, `RenderNeverMisses`, `ReadersAreFresh` | `IInv` adds `Locked` (from `SELECT ... FOR UPDATE` to the commit the lock is held and the number read is still current), `Claimed` (a prompt being created is invisible and nobody else's) and `Fresh` (what a reader knows or has read is committed). `HistoryContiguous` alone is not inductive: a commit needs `Locked` to publish exactly `current + 1` |
| `PromptVersionsProofs` | `HistoryRefinement` | a commit appends one text, every other step stutters; uses `IInv` for the uniqueness of the row that `TextOf` chooses |
| `WebhookDeliveryProofs` | `TypeCorrect`, `DeliveriesAccounted`, `PostedAtMostOnce`, `PostedInOrder`, `LogIsFaithful`, `FifoRefinement` | `IInv` adds `Unsent` (what is still to be offered was never accepted), `Seen` (what receivers have, in terms of the worker's step) and `Ordered` (receivers, worker and channel hold ever later deliveries) |
| `LLMProofs` (gateway) | `TypeCorrect`, `CallsAreBounded`, `FallbackIsLast`, `ErrorsAreFinal`, `CancelIsObeyed`, `AnswersHaveAnOrigin` | `IInv` adds `Counted` (the loop counter is the number of calls made), `InRound`, `InTurn` (providers whose turn has not come were not called; the fallback's turn means the primary is spent) and `LateBound` (one late call per turn) |
| `MigrationsProofs` | `TypeCorrect`, `AppliedInOrder`, `AppliedOnce`, `OkIsTrue` | `IInv` adds `Past` (what an instance is past is recorded), `Alone` (an open transaction has its version to itself: nobody else opens it, makes its tables or records it meanwhile), `Counted` (a version is applied once if it is recorded and else never, and a statement has one copy at most, or one per run of make migrate that has reached it and one of RunMigrations if it is unnamed) and `Rounds` |
| `LLMProofs` (streaming) | `PartsInOrder`, `EndingIsTold` | while the client is here, what it has and what is in the channel are the first `Sent` chunks of the stream (`Counted`, `Forwarded`, `Queued`), and the chunk the goroutine holds is the next one (`Holding`), the part without text of a refusal included. No capacity and no length occurs in the argument |
| `DocumentProofs` (pipeline) | `ReadyIsSearchable`, `DeletionIsFinal`, `RetriesDuplicateNothing`, `StatusIsHonest` | `IInv` adds `Budget` (the batches of a document and its unfinished tasks together are at most one more than the faults: a task comes back to life, or adds another, only by a fault), `Embedded` (a task about to write "ready" has its chunks, or the row is gone) and `Early` (an upload that is not over has no task). `StatusIsHonest` is inductive with it: without faults each document is settled or still has a task, and `Budget` says that a task that fails has stored nothing; `Deployed` has what the missing parts add: `Marked` (the document of an embedding task, or of a process task past its first statement, is past "pending") and `Unhandled` (without handlers every task is queued or archived, and no status is past "pending") |
| `DocumentProofs` (chunkers) | `ChunkersKeepTheText`, `ChunksAreSound` | a `Splitting` of an interval stays inside it, has gaps between its cuts and holds every letter. `strings.Split` makes one (`SplitAtFacts`: a separator has no letter), joining parts again keeps it one (`MergeFacts`, with `MergeGood` as the invariant of the loop), and so does splitting each cut (`FlattenSplitting`); pieces without a separator cover what they were cut from because the step is at most the size (`PiecesFacts`); dropping blanks and trimming lose no letter. Sentences are a splitting too, wherever the embeddings cut (`JoinedFacts`) |
| `DocumentProofs` (index) | `IngestionInductive`, `TreeIsSound` | `TreeIInv` ties the number of stored levels to the level in hand (`Levels`) and the level in hand to the last one stored (`InHand`); `ClustersShrink`: n chunks make fewer than n clusters, but for n = 2 |
| `ConversationProofs` | `SummaryForgetsNothing` | `IInv` adds `Summarizing` (during its LLM call a caller has the mutex, so what it sent is still the summary and the older half of the entries). The plan of a discussion does not matter |
| `ConversationProofs` | `TrimKeepsRecent` | `IInv` adds `Recent` (the entries of a buffer or a window are the last of the conversation since Clear, within the limit). What a window keeps is the first suffix that fits; that there is one, and that every shorter one fits too, follows from `TotalIsSum`: the fold over the sizes is a sum, so the cost of a suffix is a difference of two sums and falls as entries are dropped |
| `AnswerProofs` (RAG) | `CitesOwnChunks`, `FusionKeepsConsensus`, `FailureIsNotSilent` | `IInv` adds `AllKnown` (every chunk in a result set was stored at some time), `Unfused` and `Searched` (result sets come from searches that gave rows, all of them or those before they broke). Fusion: the weights 1 / (60 + rank) are kept as integers over a common denominator; `WeightFalls` (a better rank has the greater weight, by comparing two runs of the same fold), `BeatsInScore` (nowhere below and somewhere above is above in the sum) |
| `AnswerProofs` (reasoning) | `ReasoningInductive`, `TreeTakesTheBest`, `VoteIsOfAll` | `ReasoningIInv` has the tree (`BestRootsKept`, `GreedyPaths`, and `IsBest` once it is answered) and the vote: `RoutineInv` (who is at "write" has the mutex, and what it read is still the slice) and `VotesCounted` (for each answer, as many samples as goroutines that are done with it). `BestThoughtIsGreedy`, `BestPathIsBest` and `WinnerHasMost` are the folds; a mean is compared by cross-multiplying, which is transitive (`MeansCompare`) |

Each `IInv` is proved initial, preserved by every action (one step per action) and
to imply the property; the temporal step is PTL.

`FoldLeft`, `FlattenSeq` and `MapThenSumSet` of the community modules choose, with
CHOOSE, the function that satisfies the equation of the fold. That there is one is proved by
induction over the natural numbers in the form of a lemma about a set that has 0 and
each successor (`SetInduction`), since no backend can instantiate the library's
induction over a predicate. `BestOfFold` then says what a fold that keeps the better
of two ends with, for any relation that is reflexive and transitive, and
`SumInAnyOrder` that a sum does not depend on the order.

The proofs about folds need assumptions that the code justifies: the chunks of a
tenant and the goroutines of a vote are finitely many, and `NoAnswer` is not an
answer. What `sort.Slice` may return is `Sorted`, every descending order, rather than
one chosen by TLC's `SortSeq`, whose definition the prover cannot expand.

Only model-checked: all liveness (`AllAnswered`, `AcceptedIsSettled`,
`DispatchReturns`, `ProcessingEnds`, `ChatReturns`, `ProducerEnds`, `RunsEnd`,
`RequestsEnd`, `IngestEnds`), which the prover does not reach. Every other property
of a passing run is a theorem. The recursion of `splitRecursive` is written as a fold
over the separators: tlapm cannot prove anything about a RECURSIVE operator.

## 5. Not modelled

* Tenant filters in the modelled statements: they narrow the rows a request sees and
  never let two tenants share one, so each model is of one tenant. Where the tenant
  is missing altogether (`document.go:52`) it is modelled.
* Texts: template substitution, JSON, signatures, prompts, extraction, HTTP headers,
  what a tool of an agent does, how a ReAct answer is parsed.
* The similarity of vectors: any ranking, clustering or cut that the code can make of
  some embeddings is considered.
* `context_engine.go`, which packs texts into a budget and keeps nothing.
* Components without state between calls (guardrails, evaluation, multimodal,
  configuration, tokenizer), wrappers nothing uses (cache, audit).
* Fine-tuning, whose worker is a placeholder, the rate limiter and authentication:
  see the plan.
* The isolation level other than READ COMMITTED, clock arithmetic, Asynq's own
  storage.

## 6. Plan

The order was: what concurrent clients can corrupt (prompts), what is lost in a
process (webhooks), what spans several stores (documents), then the calls all
other parts rest on (gateway, streams) and the startup; then what stands on them:
queries and ingestion, agents with their memories, reasoning. Next comes
`FinetuneJobs` (datasets and jobs with storage, rows, tasks and a worker that never
reports), then `RateLimiter` and the authentication chain.
