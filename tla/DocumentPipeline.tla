-------------------------- MODULE DocumentPipeline --------------------------
(***************************************************************************)
(* Documents from upload to retrieval: internal/document/service.go (rows   *)
(* of documents and files in the object storage), the Asynq handlers of    *)
(* internal/queue/workers/document.go and embedding.go, and the commit of  *)
(* the chunks (rag.Pipeline.Ingest, vectorstore.Upsert).                   *)
(*                                                                         *)
(* Asynq, which is not in this repository, is modelled from its use: tasks *)
(* are delivered at least once, in any order and concurrently; an error, a *)
(* timeout or the death of the worker makes a task run again until its     *)
(* MaxRetry is used up, and then it is archived.                           *)
(***************************************************************************)
EXTENDS Integers, Sequences, FiniteSets

CONSTANTS
    Docs,             \* document ids uuid.New() may draw
    MaxRetry,         \* asynq.MaxRetry of both task types (3 in the code)
    MaxFaults,        \* bound on infrastructure faults
    Deployments       \* which of the missing Parts a deployment may supply

ASSUME MaxRetryAssumption == MaxRetry \in Nat
ASSUME MaxFaultsAssumption == MaxFaults \in Nat

(***************************************************************************)
(* Five parts of the pipeline are left to be completed: nobody enqueues    *)
(* document:process after an upload, so that nobody puts a tenant in its   *)
(* payload either; cmd/worker registers a handler for neither task; the    *)
(* context of a task carries no tenant; and an embedding task hands no     *)
(* text to Ingest (embedding.go:54, "Would come from extracted text        *)
(* storage").  The empty set is the code as it is.                         *)
(***************************************************************************)
Parts == {"enqueue", "payload", "handlers", "tenant", "text"}
ASSUME DeploymentsAssumption == Deployments \subseteq SUBSET Parts

VARIABLES
    status,    \* documents.status, "none" while there is no row
    file,      \* is the document's object in the storage?
    chunks,    \* committed batches of document_chunks rows
    upload,    \* progress of the document's Upload request
    deletion,  \* progress of its (latest) Delete request
    asked,     \* documents for which document:process was enqueued
    tasks,     \* every task ever enqueued, with the step its handler is at
    faults,    \* infrastructure faults so far
    supplied   \* the parts this deployment supplies

vars == <<status, file, chunks, upload, deletion, asked, tasks, faults, supplied>>

Steps == {"queued", "done", "archived",
          "mark", "get", "extract", "enqueue",  \* document:process
          "ingest", "ready",                    \* embedding:generate
          "fail"}                               \* both: record the failure

Ended == {"done", "archived"}
Active == Steps \ (Ended \cup {"queued"})

Task(type, d) == [type |-> type, doc |-> d, step |-> "queued", retried |-> 0]

HasRow(d) == status[d] # "none"

At(k, step) == k \in DOMAIN tasks /\ tasks[k].step = step
MoveTo(k, step) == [tasks EXCEPT ![k].step = step]

\* asynq: run again later, or archive when the retries are used up.
Again(k) ==
    IF tasks[k].retried < MaxRetry
    THEN [tasks EXCEPT ![k].step = "queued", ![k].retried = @ + 1]
    ELSE MoveTo(k, "archived")

\* UPDATE ... WHERE id = $2 succeeds on no row too.
SetStatus(d, s) == status' = IF HasRow(d) THEN [status EXCEPT ![d] = s] ELSE status

Fault == faults < MaxFaults /\ faults' = faults + 1

-----------------------------------------------------------------------------

Init ==
    /\ status = [d \in Docs |-> "none"]
    /\ file = [d \in Docs |-> FALSE]
    /\ chunks = [d \in Docs |-> 0]
    /\ upload = [d \in Docs |-> "idle"]
    /\ deletion = [d \in Docs |-> "idle"]
    /\ asked = {}
    /\ tasks = <<>>
    /\ faults = 0
    /\ supplied \in Deployments

(***************************************************************************)
(* Upload: the object first, then the row, "pending".                      *)
(***************************************************************************)
StoreFile(d) ==
    /\ upload[d] = "idle"
    /\ \/ /\ file' = [file EXCEPT ![d] = TRUE]
          /\ upload' = [upload EXCEPT ![d] = "stored"]
       \/ /\ file' \in {file, [file EXCEPT ![d] = TRUE]}
          /\ upload' = [upload EXCEPT ![d] = "error"]
    /\ UNCHANGED <<status, chunks, deletion, asked, tasks, faults, supplied>>

\* A failed INSERT leaves the object behind, and the row when only its answer was
\* lost.
InsertRow(d) ==
    /\ upload[d] = "stored"
    /\ \/ /\ status' = [status EXCEPT ![d] = "pending"]
          /\ upload' = [upload EXCEPT ![d] = "created"]
       \/ /\ status' \in {status, [status EXCEPT ![d] = "pending"]}
          /\ upload' = [upload EXCEPT ![d] = "error"]
    /\ UNCHANGED <<file, chunks, deletion, asked, tasks, faults, supplied>>

\* The caller src/ lacks: EnqueueDocumentProcess for an uploaded document.
EnqueueProcess(d) ==
    /\ "enqueue" \in supplied
    /\ upload[d] = "created" /\ d \notin asked
    /\ asked' = asked \cup {d}
    /\ tasks' = Append(tasks, Task("process", d))
    /\ UNCHANGED <<status, file, chunks, upload, deletion, faults, supplied>>

(***************************************************************************)
(* Delete: read the row, delete the object whatever comes of it, delete    *)
(* the row; document_chunks go with it (ON DELETE CASCADE).  The last      *)
(* statement may fail, with or without effect.                             *)
(***************************************************************************)
BeginDelete(d) ==
    /\ deletion[d] \in {"idle", "error"}
    /\ HasRow(d)
    /\ deletion' = [deletion EXCEPT ![d] = "found"]
    /\ UNCHANGED <<status, file, chunks, upload, asked, tasks, faults, supplied>>

DeleteFile(d) ==
    /\ deletion[d] = "found"
    /\ file' \in {file, [file EXCEPT ![d] = FALSE]}
    /\ deletion' = [deletion EXCEPT ![d] = "file"]
    /\ UNCHANGED <<status, chunks, upload, asked, tasks, faults, supplied>>

\* Faulty variant: the chunks are left to their own (no ON DELETE CASCADE).
DeleteRowOnly(d) ==
    /\ deletion[d] = "file"
    /\ status' = [status EXCEPT ![d] = "none"]
    /\ deletion' = [deletion EXCEPT ![d] = "deleted"]
    /\ UNCHANGED <<file, chunks, upload, asked, tasks, faults, supplied>>

DeleteRow(d) ==
    /\ deletion[d] = "file"
    /\ \/ /\ status' = [status EXCEPT ![d] = "none"]
          /\ chunks' = [chunks EXCEPT ![d] = 0]
          /\ deletion' = [deletion EXCEPT ![d] = "deleted"]
       \/ /\ \/ UNCHANGED <<status, chunks>>
             \/ /\ status' = [status EXCEPT ![d] = "none"]
                /\ chunks' = [chunks EXCEPT ![d] = 0]
          /\ deletion' = [deletion EXCEPT ![d] = "error"]
    /\ UNCHANGED <<file, upload, asked, tasks, faults, supplied>>

(***************************************************************************)
(* The two handlers.  Asynq answers a task without a handler with an error; *)
(* and a tenant that is no uuid (document.go:85 hands on what it was given) *)
(* ends an embedding before it touches the status.                         *)
(***************************************************************************)
Start(k) ==
    /\ At(k, "queued")
    /\ tasks' = IF \/ "handlers" \notin supplied
                   \/ tasks[k].type = "embed" /\ "payload" \notin supplied
                THEN Again(k)
                ELSE MoveTo(k, IF tasks[k].type = "process" THEN "mark" ELSE "ingest")
    /\ UNCHANGED <<status, file, chunks, upload, deletion, asked, faults, supplied>>

MarkProcessing(k) ==
    /\ At(k, "mark")
    /\ SetStatus(tasks[k].doc, "processing")
    /\ tasks' = MoveTo(k, "get")
    /\ UNCHANGED <<file, chunks, upload, deletion, asked, faults, supplied>>

\* GetByID filters by the tenant of the context.
GetDocument(k) ==
    /\ At(k, "get")
    /\ tasks' = MoveTo(k, IF HasRow(tasks[k].doc) /\ "tenant" \in supplied
                          THEN "extract" ELSE "fail")
    /\ UNCHANGED <<status, file, chunks, upload, deletion, asked, faults, supplied>>

\* Download, read and extract: without the object it must fail.
Extract(k) ==
    /\ At(k, "extract")
    /\ \/ file[tasks[k].doc] /\ tasks' = MoveTo(k, "enqueue")
       \/ tasks' = MoveTo(k, "fail")
    /\ UNCHANGED <<status, file, chunks, upload, deletion, asked, faults, supplied>>

\* Faulty variant: an error is returned although the embedding was enqueued.
EnqueueAndRetry(k) ==
    /\ At(k, "enqueue")
    /\ tasks' = Append(Again(k), Task("embed", tasks[k].doc))
    /\ UNCHANGED <<status, file, chunks, upload, deletion, asked, faults, supplied>>

EnqueueEmbedding(k) ==
    /\ At(k, "enqueue")
    /\ tasks' = Append(MoveTo(k, "done"), Task("embed", tasks[k].doc))
    /\ UNCHANGED <<status, file, chunks, upload, deletion, asked, faults, supplied>>

\* A failed enqueue is logged, and the task counts as done.
EnqueueLost(k) ==
    /\ At(k, "enqueue")
    /\ Fault
    /\ tasks' = MoveTo(k, "done")
    /\ UNCHANGED <<status, file, chunks, upload, deletion, asked, supplied>>

\* Faulty variant: an Ingest error is not checked.
IngestUnchecked(k) ==
    /\ At(k, "ingest")
    /\ \/ /\ "text" \in supplied /\ HasRow(tasks[k].doc)
          /\ chunks' = [chunks EXCEPT ![tasks[k].doc] = @ + 1]
       \/ UNCHANGED chunks
    /\ tasks' = MoveTo(k, "ready")
    /\ UNCHANGED <<status, file, upload, deletion, asked, faults, supplied>>

\* Ingest: chunk, embed, store all chunks in one transaction under fresh ids.
\* Without text there are no chunks, which is an error; so is a document that is
\* gone (the foreign key), or a refusal of the embedding provider.
Ingest(k) ==
    /\ At(k, "ingest")
    /\ \/ /\ "text" \in supplied /\ HasRow(tasks[k].doc)
          /\ chunks' = [chunks EXCEPT ![tasks[k].doc] = @ + 1]
          /\ tasks' = MoveTo(k, "ready")
       \/ tasks' = MoveTo(k, "fail") /\ UNCHANGED chunks
    /\ UNCHANGED <<status, file, upload, deletion, asked, faults, supplied>>

MarkReady(k) ==
    /\ At(k, "ready")
    /\ SetStatus(tasks[k].doc, "ready")
    /\ tasks' = MoveTo(k, "done")
    /\ UNCHANGED <<file, chunks, upload, deletion, asked, faults, supplied>>

\* Faulty variant: the handler returns its error without recording it.
MarkFailedNever(k) ==
    /\ At(k, "fail")
    /\ tasks' = Again(k)
    /\ UNCHANGED <<status, file, chunks, upload, deletion, asked, faults, supplied>>

\* The status of a failed run is recorded, and the error returned.
MarkFailed(k) ==
    /\ At(k, "fail")
    /\ SetStatus(tasks[k].doc, "failed")
    /\ tasks' = Again(k)
    /\ UNCHANGED <<file, chunks, upload, deletion, asked, faults, supplied>>

(***************************************************************************)
(* Faults: a status UPDATE that fails, with or without effect (its error is *)
(* returned, or ignored on the failure path), a commit of the chunks whose *)
(* answer is lost, a task that times out or whose worker dies.  On a       *)
(* timeout asynq gives up on the handler but does not stop it: it may      *)
(* still enqueue, which needs no context, while the task is retried.       *)
(***************************************************************************)
Written == [mark |-> "processing", ready |-> "ready", fail |-> "failed"]

UpdateFails(k) ==
    /\ k \in DOMAIN tasks /\ tasks[k].step \in DOMAIN Written
    /\ Fault
    /\ \/ UNCHANGED status
       \/ SetStatus(tasks[k].doc, Written[tasks[k].step])
    /\ tasks' = Again(k)
    /\ UNCHANGED <<file, chunks, upload, deletion, asked, supplied>>

IngestAnswerLost(k) ==
    /\ At(k, "ingest")
    /\ "text" \in supplied /\ HasRow(tasks[k].doc)
    /\ Fault
    /\ chunks' = [chunks EXCEPT ![tasks[k].doc] = @ + 1]
    /\ tasks' = MoveTo(k, "fail")
    /\ UNCHANGED <<status, file, upload, deletion, asked, supplied>>

Interrupted(k) ==
    /\ k \in DOMAIN tasks /\ tasks[k].step \in Active
    /\ Fault
    /\ \/ tasks' = Again(k)
       \/ /\ At(k, "enqueue")
          /\ tasks' = Append(Again(k), Task("embed", tasks[k].doc))
    /\ UNCHANGED <<status, file, chunks, upload, deletion, asked, supplied>>

HandlerStep(k) ==
    \/ Start(k) \/ MarkProcessing(k) \/ GetDocument(k) \/ Extract(k)
    \/ EnqueueEmbedding(k) \/ Ingest(k) \/ MarkReady(k) \/ MarkFailed(k)

FaultStep(k) ==
    EnqueueLost(k) \/ UpdateFails(k) \/ IngestAnswerLost(k) \/ Interrupted(k)

Request(d) ==
    \/ StoreFile(d) \/ InsertRow(d) \/ EnqueueProcess(d)
    \/ BeginDelete(d) \/ DeleteFile(d) \/ DeleteRow(d)

\* Every upload is answered, every task over and no deletion under way.
Quiet ==
    /\ \A d \in Docs : upload[d] \in {"created", "error"}
    /\ \A k \in DOMAIN tasks : tasks[k].step \in Ended
    /\ UNCHANGED vars

Next ==
    \/ \E d \in Docs : Request(d)
    \/ \E k \in DOMAIN tasks : HandlerStep(k) \/ FaultStep(k)
    \/ Quiet

Spec == Init /\ [][Next]_vars

\* Asynq runs every task it holds and a handler that is running goes on; a caller
\* that enqueues does so.  A document gets one process task and one embedding
\* task, and a fault adds one task at most.
MaxTasks == 2 * Cardinality(Docs) + MaxFaults
FairSpec ==
    /\ Spec
    /\ \A k \in 1..MaxTasks : WF_vars(HandlerStep(k))
    /\ \A d \in Docs : WF_vars(EnqueueProcess(d))

-----------------------------------------------------------------------------
(***************************************************************************)
(* Properties.                                                             *)
(***************************************************************************)

\* A document is called ready only when it can be searched: its chunks are
\* committed before the status and go only with the row.
ReadyHasChunks == \A d \in Docs : status[d] = "ready" => chunks[d] > 0

\* A deleted document leaves no chunks, whatever its tasks were doing.
DeletedHasNoChunks == \A d \in Docs : ~HasRow(d) => chunks[d] = 0

\* Retries duplicate chunks (fresh ids each time), but only after a fault, and
\* a fault costs one extra batch at most.
DuplicatesNeedFaults == \A d \in Docs : chunks[d] <= 1 + faults

\* The embedding of d was given up because its payload names no tenant.
Refused(d) ==
    /\ "payload" \notin supplied
    /\ \E k \in DOMAIN tasks :
        tasks[k].doc = d /\ tasks[k].type = "embed" /\ tasks[k].step = "archived"

\* Without faults the status a document ends with is the truth: "ready" with its
\* chunks stored once, or "failed" with none.  There are two ways to a status that
\* says nothing: no worker has a handler ("pending"), or the embedding was refused
\* ("processing").  (Between two runs "failed" may show while a retry is still
\* going to succeed.)
HonestOutcome ==
    faults = 0 =>
        \A d \in asked :
            (\A k \in DOMAIN tasks : tasks[k].doc = d => tasks[k].step \in Ended) =>
                \/ status[d] = "ready" /\ chunks[d] = 1
                \/ status[d] \in {"failed", "none"} /\ chunks[d] = 0
                \/ status[d] = "pending" /\ chunks[d] = 0 /\ "handlers" \notin supplied
                \/ status[d] = "processing" /\ chunks[d] = 0 /\ Refused(d)

\* Without faults no document is left in "processing", but for a refused embedding,
\* whose errors (embedding.go:33, 38, 43) record nothing.
ProcessingEnds ==
    \A d \in Docs :
        status[d] = "processing" ~> (status[d] # "processing" \/ faults > 0 \/ Refused(d))

=============================================================================
