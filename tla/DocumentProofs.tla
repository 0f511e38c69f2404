--------------------------- MODULE DocumentProofs ---------------------------
(***************************************************************************)
(* What becomes of a document: first what retries, faults and deletions can  *)
(* do to its chunks, for any documents, deployments, number of retries and   *)
(* number of faults; then what the chunkers of an Ingest make of a text of    *)
(* any length, and what an Ingest stores.                                  *)
(***************************************************************************)
EXTENDS DocumentPipeline, Ingestion, FoldFacts, FiniteSetTheorems, SequenceTheorems, TLAPS

Statuses == {"none", "pending", "processing", "ready", "failed"}
StepsOf(type) ==
    IF type = "process" THEN Steps \ {"ingest", "ready"}
    ELSE Steps \ {"mark", "get", "extract", "enqueue"}
TaskRecords ==
    {t \in [type : {"process", "embed"}, doc : Docs, step : Steps, retried : Nat] :
        t.step \in StepsOf(t.type)}

TypeOK ==
    /\ status \in [Docs -> Statuses]
    /\ file \in [Docs -> BOOLEAN]
    /\ chunks \in [Docs -> Nat]
    /\ upload \in [Docs -> {"idle", "stored", "created", "error"}]
    /\ asked \subseteq Docs
    /\ tasks \in Seq(TaskRecords)
    /\ faults \in Nat

\* A task that may still lead to a batch of chunks.
Unfinished(t) == t.step \notin Ended /\ t.step # "ready"
UnfinishedOf(ts, d) == {k \in DOMAIN ts : ts[k].doc = d /\ Unfinished(ts[k])}
Pending(ts, d) == Cardinality(UnfinishedOf(ts, d))

\* Every batch, stored or to come, is paid for by the upload or by a fault.
Budget == \A d \in Docs : chunks[d] + Pending(tasks, d) <= 1 + faults

\* Before document:process is enqueued nothing has happened to a document.
Early ==
    /\ \A d \in asked : upload[d] = "created"
    /\ \A d \in Docs : d \notin asked => chunks[d] = 0
    /\ \A k \in DOMAIN tasks : tasks[k].doc \in asked

\* A task that is going to write "ready" has seen its chunks committed, and they are
\* there as long as the row is.
Embedded ==
    \A k \in DOMAIN tasks :
        tasks[k].step = "ready" /\ HasRow(tasks[k].doc) => chunks[tasks[k].doc] > 0

IInv == TypeOK /\ Budget /\ Early /\ Embedded /\ ReadyHasChunks /\ DeletedHasNoChunks

-----------------------------------------------------------------------------
(***************************************************************************)
(* Counting tasks.                                                         *)
(***************************************************************************)
Weight(t) == IF Unfinished(t) THEN 1 ELSE 0

LEMMA UnfinishedFinite ==
  ASSUME NEW ts \in Seq(TaskRecords), NEW d
  PROVE  IsFiniteSet(UnfinishedOf(ts, d)) /\ Pending(ts, d) \in Nat
<1>1. IsFiniteSet(DOMAIN ts)
  <2>1. DOMAIN ts = 1..Len(ts) /\ Len(ts) \in Int
    OBVIOUS
  <2>. QED
    BY <2>1, FS_Interval
<1>2. UnfinishedOf(ts, d) \in SUBSET DOMAIN ts
  BY DEF UnfinishedOf
<1>3. IsFiniteSet(UnfinishedOf(ts, d))
  BY <1>1, <1>2, FS_Subset
<1>. QED
  BY <1>3, FS_CardinalityType DEF Pending

\* How the count of a document changes when task k becomes t, and when t is added.
Recounted(ts, us, k, t, d) ==
    Pending(us, d) = IF d = t.doc THEN Pending(ts, d) + Weight(t) - Weight(ts[k])
                     ELSE Pending(ts, d)
Counted(ts, us, t, d) ==
    Pending(us, d) = IF d = t.doc THEN Pending(ts, d) + Weight(t) ELSE Pending(ts, d)

\* A task that changes counts for what it is now instead of what it was.
LEMMA PendingReplaced ==
  ASSUME NEW ts \in Seq(TaskRecords), NEW k \in DOMAIN ts, NEW t \in TaskRecords,
         t.doc = ts[k].doc, NEW us, us = [ts EXCEPT ![k] = t], NEW d \in Docs
  PROVE  Recounted(ts, us, k, t, d)
<1>. USE DEF Recounted
<1>. DEFINE before == UnfinishedOf(ts, d)
            after == UnfinishedOf(us, d)
<1>1. us \in Seq(TaskRecords) /\ DOMAIN us = DOMAIN ts /\ us[k] = t
      /\ \A j \in DOMAIN ts : j # k => us[j] = ts[j]
  OBVIOUS
<1>2. IsFiniteSet(before) /\ Cardinality(before) \in Nat
  BY UnfinishedFinite DEF Pending
<1>3. CASE d # t.doc
  <2>1. after = before
    BY <1>1, <1>3 DEF UnfinishedOf
  <2>. QED
    BY <1>1, <1>3, <2>1 DEF Pending
<1>4. CASE d = t.doc /\ Unfinished(t)
  <2>1. after = before \cup {k}
    BY <1>1, <1>4 DEF UnfinishedOf
  <2>2. k \in before <=> Unfinished(ts[k])
    BY <1>4 DEF UnfinishedOf
  <2>3. Cardinality(before \cup {k}) = IF k \in before THEN Cardinality(before) ELSE Cardinality(before) + 1
    BY <1>2, FS_AddElement
  <2>4. Pending(us, d) = Cardinality(before \cup {k}) /\ Pending(ts, d) = Cardinality(before)
    BY <2>1 DEF Pending
  <2>5. Weight(t) = 1 /\ Weight(ts[k]) = IF k \in before THEN 1 ELSE 0
    BY <1>4, <2>2 DEF Weight
  <2>6. Pending(us, d) = Pending(ts, d) + Weight(t) - Weight(ts[k])
    BY <1>2, <2>3, <2>4, <2>5
  <2>. QED
    BY <1>1, <1>4, <2>6
<1>5. CASE d = t.doc /\ ~Unfinished(t)
  <2>1. after = before \ {k}
    BY <1>1, <1>5 DEF UnfinishedOf
  <2>2. k \in before <=> Unfinished(ts[k])
    BY <1>5 DEF UnfinishedOf
  <2>3. Cardinality(before \ {k}) = IF k \in before THEN Cardinality(before) - 1 ELSE Cardinality(before)
    BY <1>2, FS_RemoveElement
  <2>4. Pending(us, d) = Cardinality(before \ {k}) /\ Pending(ts, d) = Cardinality(before)
    BY <2>1 DEF Pending
  <2>5. Weight(t) = 0 /\ Weight(ts[k]) = IF k \in before THEN 1 ELSE 0
    BY <1>5, <2>2 DEF Weight
  <2>6. Pending(us, d) = Pending(ts, d) + Weight(t) - Weight(ts[k])
    BY <1>2, <2>3, <2>4, <2>5
  <2>. QED
    BY <1>1, <1>5, <2>6
<1>. QED
  BY <1>3, <1>4, <1>5

\* A task that is added counts for its document.
LEMMA PendingAdded ==
  ASSUME NEW ts \in Seq(TaskRecords), NEW t \in TaskRecords, NEW us, us = Append(ts, t), NEW d \in Docs
  PROVE  Counted(ts, us, t, d)
<1>. USE DEF Counted
<1>. DEFINE n == Len(ts) + 1
            before == UnfinishedOf(ts, d)
            after == UnfinishedOf(us, d)
<1>1. us \in Seq(TaskRecords) /\ DOMAIN us = (DOMAIN ts) \cup {n} /\ us[n] = t /\ n \notin DOMAIN ts
      /\ \A j \in DOMAIN ts : us[j] = ts[j]
  OBVIOUS
<1>2. IsFiniteSet(before) /\ Cardinality(before) \in Nat
  BY UnfinishedFinite DEF Pending
<1>3. n \notin before
  BY <1>1 DEF UnfinishedOf
<1>4. CASE d = t.doc /\ Unfinished(t)
  <2>1. after = before \cup {n}
    BY <1>1, <1>4 DEF UnfinishedOf
  <2>2. Cardinality(before \cup {n}) = Cardinality(before) + 1
    BY <1>2, <1>3, FS_AddElement
  <2>. QED
    BY <1>1, <1>4, <2>1, <2>2 DEF Pending, Weight
<1>5. CASE ~(d = t.doc /\ Unfinished(t))
  <2>1. after = before
    BY <1>1, <1>5 DEF UnfinishedOf
  <2>. QED
    BY <1>1, <1>2, <1>5, <2>1 DEF Pending, Weight
<1>. QED
  BY <1>4, <1>5

-----------------------------------------------------------------------------

LEMMA InitInductive == Init => IInv
<1>. SUFFICES ASSUME Init PROVE IInv
  OBVIOUS
<1>1. TypeOK /\ Early /\ Embedded /\ ReadyHasChunks /\ DeletedHasNoChunks
  BY MaxFaultsAssumption
     DEF Init, TypeOK, Statuses, Early, Embedded, ReadyHasChunks, DeletedHasNoChunks, HasRow
<1>2. Budget
  <2>1. ASSUME NEW d \in Docs PROVE Pending(tasks, d) = 0
    <3>1. UnfinishedOf(tasks, d) = {}
      BY DEF Init, UnfinishedOf
    <3>. QED
      BY <3>1, FS_EmptySet DEF Pending
  <2>. QED
    BY <2>1 DEF Init, Budget
<1>. QED
  BY <1>1, <1>2 DEF IInv

(***************************************************************************)
(* A handler goes on: one task changes, and perhaps the status.  It may come *)
(* back to life only by a fault, and "ready" is written only by a task that   *)
(* was at that step.                                                       *)
(***************************************************************************)
LEMMA TaskMoves ==
  ASSUME IInv, NEW k \in DOMAIN tasks, NEW t \in TaskRecords, t.doc = tasks[k].doc,
         tasks' = [tasks EXCEPT ![k] = t],
         t.step = "ready" => tasks[k].step = "ready",
         NEW s \in Statuses \ {"none"}, s = "ready" => tasks[k].step = "ready",
         UNCHANGED status \/ SetStatus(t.doc, s),
         faults' \in {faults, faults + 1},
         Unfinished(t) /\ ~Unfinished(tasks[k]) => faults' = faults + 1,
         UNCHANGED <<file, chunks, upload, asked>>
  PROVE  IInv'
<1>. USE DEF IInv
<1>1. tasks \in Seq(TaskRecords) /\ t.doc \in Docs
  BY DEF TypeOK, TaskRecords
<1>2. \A d \in Docs : (HasRow(d))' <=> HasRow(d)
  BY <1>1 DEF HasRow, SetStatus, TypeOK, Statuses
<1>3. \A d \in Docs : status'[d] = "ready" => status[d] = "ready" \/ (d = t.doc /\ s = "ready" /\ HasRow(d))
  BY <1>1 DEF HasRow, SetStatus, TypeOK
<1>4. TypeOK'
  <2>1. tasks' \in Seq(TaskRecords)
    BY <1>1
  <2>2. status' \in [Docs -> Statuses]
    BY <1>1 DEF TypeOK, SetStatus
  <2>. QED
    BY <2>1, <2>2 DEF TypeOK
<1>5. Budget'
  <2>1. ASSUME NEW d \in Docs
        PROVE  chunks'[d] + Pending(tasks', d) <= 1 + faults'
    <3>1. /\ chunks[d] + Pending(tasks, d) <= 1 + faults
          /\ chunks'[d] = chunks[d] /\ chunks[d] \in Nat /\ faults \in Nat
          /\ Pending(tasks, d) \in Nat
      BY <1>1, UnfinishedFinite DEF TypeOK, Budget
    <3>2. Recounted(tasks, tasks', k, t, d)
      BY <1>1, PendingReplaced
    <3>3. \/ Weight(t) = 1 /\ Weight(tasks[k]) = 0 /\ faults' = faults + 1
          \/ Weight(t) = 0 /\ Weight(tasks[k]) = 0
          \/ Weight(t) \in {0, 1} /\ Weight(tasks[k]) = 1
      BY DEF Weight
    <3>. QED
      BY <3>1, <3>2, <3>3 DEF Recounted
  <2>. QED
    BY <2>1 DEF Budget
<1>6. DOMAIN tasks' = DOMAIN tasks /\ tasks'[k] = t /\ \A j \in DOMAIN tasks : j # k => tasks'[j] = tasks[j]
  BY <1>1
<1>7. Early'
  BY <1>6 DEF Early
<1>8. Embedded'
  <2>1. ASSUME NEW j \in DOMAIN tasks, tasks'[j].step = "ready", (HasRow(tasks[j].doc))'
        PROVE  chunks[tasks[j].doc] > 0
    <3>1. tasks[j].step = "ready" /\ tasks[j].doc \in Docs
      BY <1>1, <1>6, <2>1 DEF TaskRecords
    <3>2. HasRow(tasks[j].doc)
      BY <1>2, <2>1, <3>1 DEF HasRow
    <3>. QED
      BY <3>1, <3>2 DEF Embedded
  <2>. QED
    BY <1>6, <2>1 DEF Embedded, HasRow
<1>9. ReadyHasChunks'
  BY <1>3 DEF ReadyHasChunks, Embedded
<1>10. DeletedHasNoChunks'
  BY <1>2 DEF DeletedHasNoChunks
<1>. QED
  BY <1>4, <1>5, <1>7, <1>8, <1>9, <1>10

(***************************************************************************)
(* An embedding task is enqueued by document:process.                      *)
(***************************************************************************)
LEMMA TaskEnqueues ==
  ASSUME IInv, NEW k \in DOMAIN tasks, NEW t \in TaskRecords, t.doc = tasks[k].doc,
         tasks[k].step = "enqueue", t.step # "ready",
         tasks' = Append([tasks EXCEPT ![k] = t], Task("embed", tasks[k].doc)),
         faults' \in {faults, faults + 1}, Unfinished(t) => faults' = faults + 1,
         UNCHANGED <<status, file, chunks, upload, asked>>
  PROVE  IInv'
<1>. USE DEF IInv
<1>. DEFINE us == [tasks EXCEPT ![k] = t]
            e == Task("embed", tasks[k].doc)
<1>1. /\ tasks \in Seq(TaskRecords) /\ us \in Seq(TaskRecords) /\ t.doc \in Docs
      /\ DOMAIN us = DOMAIN tasks /\ us[k] = t /\ \A j \in DOMAIN tasks : j # k => us[j] = tasks[j]
  BY DEF TypeOK, TaskRecords
<1>2. e \in TaskRecords /\ e.doc = t.doc /\ e.step = "queued" /\ Weight(e) = 1
  BY <1>1 DEF Task, TaskRecords, Steps, StepsOf, Weight, Unfinished, Ended
<1>3. TypeOK'
  BY <1>1, <1>2 DEF TypeOK
<1>4. /\ DOMAIN tasks' = (DOMAIN tasks) \cup {Len(tasks) + 1}
      /\ tasks'[Len(tasks) + 1] = e /\ \A j \in DOMAIN tasks : tasks'[j] = us[j]
  <2>1. Len(us) = Len(tasks) /\ tasks' = Append(us, e)
    BY <1>1
  <2>. HIDE DEF us, e
  <2>. QED
    BY <1>1, <1>2, <2>1
<1>5. Budget'
  <2>1. ASSUME NEW d \in Docs
        PROVE  chunks'[d] + Pending(tasks', d) <= 1 + faults'
    <3>1. /\ chunks[d] + Pending(tasks, d) <= 1 + faults
          /\ chunks'[d] = chunks[d] /\ chunks[d] \in Nat /\ faults \in Nat
          /\ Pending(tasks, d) \in Nat
      BY <1>1, UnfinishedFinite DEF TypeOK, Budget
    <3>2. Recounted(tasks, us, k, t, d)
      BY <1>1, PendingReplaced
    <3>3. Counted(us, tasks', e, d)
      <4>. HIDE DEF us, e
      <4>1. tasks' = Append(us, e)
        BY DEF us, e
      <4>. QED
        BY <1>1, <1>2, <4>1, PendingAdded
    <3>4. Weight(tasks[k]) = 1 /\ Weight(t) = IF Unfinished(t) THEN 1 ELSE 0
      BY DEF Weight, Unfinished, Ended
    <3>. HIDE DEF us, e
    <3>. QED
      BY <1>2, <3>1, <3>2, <3>3, <3>4 DEF Recounted, Counted
  <2>. QED
    BY <2>1 DEF Budget
<1>. HIDE DEF us, e
<1>6. Early'
  BY <1>1, <1>2, <1>4 DEF Early
<1>7. Embedded'
  BY <1>1, <1>2, <1>4 DEF Embedded, HasRow
<1>8. ReadyHasChunks' /\ DeletedHasNoChunks'
  BY DEF ReadyHasChunks, DeletedHasNoChunks, HasRow
<1>. QED
  BY <1>3, <1>5, <1>6, <1>7, <1>8

(***************************************************************************)
(* A batch of chunks is committed, and its task goes on or takes it for a    *)
(* failure.                                                                *)
(***************************************************************************)
LEMMA BatchStored ==
  ASSUME IInv, NEW k \in DOMAIN tasks, NEW t \in TaskRecords, t.doc = tasks[k].doc,
         tasks[k].step = "ingest", HasRow(t.doc),
         tasks' = [tasks EXCEPT ![k] = t],
         chunks' = [chunks EXCEPT ![t.doc] = @ + 1],
         \/ t.step = "ready" /\ faults' = faults
         \/ t.step = "fail" /\ faults' = faults + 1,
         UNCHANGED <<status, file, upload, asked>>
  PROVE  IInv'
<1>. USE DEF IInv
<1>1. tasks \in Seq(TaskRecords) /\ t.doc \in Docs /\ t.doc \in asked
  BY DEF TypeOK, TaskRecords, Early
<1>2. DOMAIN tasks' = DOMAIN tasks /\ tasks'[k] = t /\ \A j \in DOMAIN tasks : j # k => tasks'[j] = tasks[j]
  BY <1>1
<1>3. chunks' \in [Docs -> Nat] /\ \A d \in Docs : chunks'[d] = IF d = t.doc THEN chunks[d] + 1 ELSE chunks[d]
  BY <1>1 DEF TypeOK
<1>4. TypeOK'
  <2>1. tasks' \in Seq(TaskRecords)
    BY <1>1
  <2>. QED
    BY <1>3, <2>1 DEF TypeOK
<1>5. Budget'
  <2>1. ASSUME NEW d \in Docs
        PROVE  chunks'[d] + Pending(tasks', d) <= 1 + faults'
    <3>1. /\ chunks[d] + Pending(tasks, d) <= 1 + faults
          /\ chunks[d] \in Nat /\ faults \in Nat /\ Pending(tasks, d) \in Nat
      BY <1>1, UnfinishedFinite DEF TypeOK, Budget
    <3>2. Recounted(tasks, tasks', k, t, d)
      BY <1>1, PendingReplaced
    <3>3. /\ Weight(tasks[k]) = 1
          /\ \/ Weight(t) = 0 /\ faults' = faults
             \/ Weight(t) = 1 /\ faults' = faults + 1
      BY DEF Weight, Unfinished, Ended
    <3>. QED
      BY <1>3, <3>1, <3>2, <3>3 DEF Recounted
  <2>. QED
    BY <2>1 DEF Budget
<1>6. Early'
  BY <1>1, <1>2, <1>3 DEF Early
<1>7. Embedded'
  <2>1. ASSUME NEW j \in DOMAIN tasks, tasks'[j].step = "ready", HasRow(tasks'[j].doc)
        PROVE  chunks'[tasks'[j].doc] > 0
    <3>1. CASE tasks'[j].doc = t.doc
      BY <1>1, <1>3, <3>1 DEF TypeOK
    <3>2. CASE tasks'[j].doc # t.doc
      <4>1. tasks'[j] = tasks[j] /\ tasks[j].doc \in Docs
        BY <1>1, <1>2, <3>2 DEF TaskRecords
      <4>. QED
        BY <1>3, <2>1, <3>2, <4>1 DEF Embedded
    <3>. QED
      BY <3>1, <3>2
  <2>. QED
    BY <1>2, <2>1 DEF Embedded, HasRow
<1>8. ReadyHasChunks' /\ DeletedHasNoChunks'
  BY <1>1, <1>3 DEF ReadyHasChunks, DeletedHasNoChunks, HasRow, TypeOK
<1>. QED
  BY <1>4, <1>5, <1>6, <1>7, <1>8

-----------------------------------------------------------------------------
(***************************************************************************)
(* Requests.                                                               *)
(***************************************************************************)
LEMMA UploadKeeps ==
  ASSUME IInv, NEW d \in Docs, StoreFile(d) \/ InsertRow(d)
  PROVE  IInv'
<1>. USE DEF IInv, StoreFile, InsertRow
<1>1. d \notin asked /\ \A k \in DOMAIN tasks : tasks[k].doc # d
  BY DEF Early
<1>2. TypeOK'
  BY DEF TypeOK, Statuses
<1>3. Budget'
  BY DEF Budget
<1>4. Early'
  BY <1>1 DEF Early, TypeOK
<1>5. Embedded'
  BY <1>1 DEF Embedded, HasRow, TypeOK, TaskRecords
<1>6. ReadyHasChunks' /\ DeletedHasNoChunks'
  BY <1>1 DEF ReadyHasChunks, DeletedHasNoChunks, HasRow, TypeOK, Early
<1>. QED
  BY <1>2, <1>3, <1>4, <1>5, <1>6

LEMMA DeletionKeeps ==
  ASSUME IInv, NEW d \in Docs, BeginDelete(d) \/ DeleteFile(d) \/ DeleteRow(d)
  PROVE  IInv'
<1>. USE DEF IInv
<1>1. CASE UNCHANGED <<status, chunks>>
  <2>1. UNCHANGED <<upload, asked, tasks, faults>> /\ file' \in [Docs -> BOOLEAN]
    BY DEF BeginDelete, DeleteFile, DeleteRow, TypeOK
  <2>. QED
    BY <1>1, <2>1 DEF TypeOK, Budget, Early, Embedded, ReadyHasChunks, DeletedHasNoChunks, HasRow
<1>2. CASE /\ status' = [status EXCEPT ![d] = "none"]
           /\ chunks' = [chunks EXCEPT ![d] = 0]
           /\ UNCHANGED <<file, upload, asked, tasks, faults>>
  <2>1. TypeOK' /\ Early'
    BY <1>2 DEF TypeOK, Statuses, Early
  <2>2. Budget'
    <3>1. \A c \in Docs : chunks'[c] \in Nat /\ chunks'[c] <= chunks[c] /\ Pending(tasks, c) \in Nat
      BY <1>2, UnfinishedFinite DEF TypeOK
    <3>. QED
      BY <1>2, <3>1 DEF Budget, TypeOK
  <2>3. Embedded'
    <3>1. ASSUME NEW k \in DOMAIN tasks, tasks[k].step = "ready", status'[tasks[k].doc] # "none"
          PROVE  chunks'[tasks[k].doc] > 0
      <4>1. tasks[k].doc \in Docs
        BY DEF TypeOK, TaskRecords
      <4>2. tasks[k].doc # d /\ status'[tasks[k].doc] = status[tasks[k].doc]
        BY <1>2, <3>1, <4>1 DEF TypeOK
      <4>3. chunks'[tasks[k].doc] = chunks[tasks[k].doc]
        BY <1>2, <4>1, <4>2 DEF TypeOK
      <4>. QED
        BY <3>1, <4>2, <4>3 DEF Embedded, HasRow
    <3>. QED
      BY <1>2, <3>1 DEF Embedded, HasRow
  <2>4. ReadyHasChunks' /\ DeletedHasNoChunks'
    BY <1>2 DEF ReadyHasChunks, DeletedHasNoChunks, HasRow, TypeOK
  <2>. QED
    BY <2>1, <2>2, <2>3, <2>4
<1>. QED
  BY <1>1, <1>2 DEF BeginDelete, DeleteFile, DeleteRow

LEMMA EnqueueKeeps ==
  ASSUME IInv, NEW d \in Docs, EnqueueProcess(d)
  PROVE  IInv'
<1>. USE DEF IInv
<1>. DEFINE t == Task("process", d)
<1>1. tasks \in Seq(TaskRecords) /\ chunks[d] = 0 /\ upload[d] = "created" /\ tasks' = Append(tasks, t)
      /\ asked' = asked \cup {d} /\ UNCHANGED <<status, file, chunks, upload, faults>>
  BY DEF EnqueueProcess, Early, TypeOK
<1>2. t \in TaskRecords /\ t.doc = d /\ t.step = "queued" /\ Weight(t) = 1
  BY DEF Task, TaskRecords, Steps, StepsOf, Weight, Unfinished, Ended
<1>. HIDE DEF t
<1>3. DOMAIN tasks' = (DOMAIN tasks) \cup {Len(tasks) + 1}
      /\ tasks'[Len(tasks) + 1] = t /\ \A j \in DOMAIN tasks : tasks'[j] = tasks[j]
  BY <1>1, <1>2
<1>4. TypeOK'
  BY <1>1, <1>2 DEF TypeOK
<1>5. Budget'
  <2>1. Pending(tasks, d) = 0
    <3>1. UnfinishedOf(tasks, d) = {}
      BY DEF EnqueueProcess, Early, UnfinishedOf
    <3>. QED
      BY <3>1, FS_EmptySet DEF Pending
  <2>2. ASSUME NEW c \in Docs
        PROVE  chunks'[c] + Pending(tasks', c) <= 1 + faults'
    <3>1. Counted(tasks, tasks', t, c)
      BY <1>1, <1>2, PendingAdded
    <3>2. /\ chunks[c] + Pending(tasks, c) <= 1 + faults
          /\ chunks[c] \in Nat /\ faults \in Nat /\ Pending(tasks, c) \in Nat
      BY <1>1, UnfinishedFinite DEF TypeOK, Budget
    <3>3. CASE c = d
      <4>1. Pending(tasks', c) = 1
        BY <1>2, <2>1, <3>1, <3>3 DEF Counted
      <4>. QED
        BY <1>1, <3>2, <3>3, <4>1
    <3>4. CASE c # d
      <4>1. Pending(tasks', c) = Pending(tasks, c)
        BY <1>2, <3>1, <3>4 DEF Counted
      <4>. QED
        BY <1>1, <3>2, <4>1
    <3>. QED
      BY <3>3, <3>4
  <2>. QED
    BY <2>2 DEF Budget
<1>6. Early'
  BY <1>1, <1>2, <1>3 DEF Early
<1>7. Embedded'
  BY <1>1, <1>2, <1>3 DEF Embedded, HasRow
<1>8. ReadyHasChunks' /\ DeletedHasNoChunks'
  BY <1>1 DEF ReadyHasChunks, DeletedHasNoChunks, HasRow
<1>. QED
  BY <1>4, <1>5, <1>6, <1>7, <1>8

-----------------------------------------------------------------------------
(***************************************************************************)
(* What MoveTo and Again make of a task.                                   *)
(***************************************************************************)
LEMMA Moved ==
  ASSUME TypeOK, NEW k \in DOMAIN tasks, NEW s \in StepsOf(tasks[k].type)
  PROVE  \E t \in TaskRecords : /\ t.doc = tasks[k].doc /\ t.type = tasks[k].type /\ t.step = s
                                /\ MoveTo(k, s) = [tasks EXCEPT ![k] = t]
<1>. DEFINE t == [tasks[k] EXCEPT !.step = s]
<1>1. tasks[k] \in TaskRecords
  BY DEF TypeOK
<1>2. t \in TaskRecords /\ t.doc = tasks[k].doc /\ t.type = tasks[k].type /\ t.step = s
  BY <1>1 DEF TaskRecords, StepsOf
<1>3. MoveTo(k, s) = [tasks EXCEPT ![k] = t]
  BY DEF MoveTo
<1>. QED
  BY <1>2, <1>3

LEMMA Retried ==
  ASSUME TypeOK, NEW k \in DOMAIN tasks
  PROVE  \E t \in TaskRecords : /\ t.doc = tasks[k].doc /\ t.type = tasks[k].type
                                /\ t.step \in {"queued", "archived"}
                                /\ Again(k) = [tasks EXCEPT ![k] = t]
<1>1. tasks[k] \in TaskRecords
  BY DEF TypeOK
<1>2. CASE tasks[k].retried < MaxRetry
  <2>. DEFINE t == [tasks[k] EXCEPT !.step = "queued", !.retried = @ + 1]
  <2>1. /\ tasks[k] \in [type : {"process", "embed"}, doc : Docs, step : Steps, retried : Nat]
        /\ tasks[k].type \in {"process", "embed"} /\ tasks[k].retried + 1 \in Nat
    BY <1>1 DEF TaskRecords
  <2>2. "queued" \in Steps /\ "queued" \in StepsOf(tasks[k].type)
    BY DEF StepsOf, Steps
  <2>3. /\ t \in [type : {"process", "embed"}, doc : Docs, step : Steps, retried : Nat]
        /\ t.doc = tasks[k].doc /\ t.step = "queued" /\ t.type = tasks[k].type
    BY <2>1, <2>2
  <2>4. t \in TaskRecords /\ t.doc = tasks[k].doc /\ t.type = tasks[k].type /\ t.step = "queued"
    <3>. HIDE DEF t
    <3>. QED
      BY <2>2, <2>3 DEF TaskRecords
  <2>5. Again(k) = [tasks EXCEPT ![k] = t]
    BY <1>2 DEF Again
  <2>. QED
    BY <2>4, <2>5
<1>3. CASE ~(tasks[k].retried < MaxRetry)
  <2>1. "archived" \in StepsOf(tasks[k].type)
    BY DEF StepsOf, Steps
  <2>2. Again(k) = MoveTo(k, "archived")
    BY <1>3 DEF Again
  <2>. QED
    BY <2>1, <2>2, Moved
<1>. QED
  BY <1>2, <1>3

\* A task that is picked up goes on in its handler, or is given back.
LEMMA Started ==
  ASSUME TypeOK, NEW k \in DOMAIN tasks, Start(k)
  PROVE  \E t \in TaskRecords : /\ t.doc = tasks[k].doc /\ t.type = tasks[k].type
                                /\ t.step \in {"mark", "ingest", "queued", "archived"}
                                /\ t.step # "ready" /\ tasks' = [tasks EXCEPT ![k] = t]
<1>1. tasks[k] \in TaskRecords /\ tasks[k].type \in {"process", "embed"}
  BY DEF TypeOK, TaskRecords
<1>2. CASE tasks' = Again(k)
  BY <1>2, Retried
<1>3. CASE tasks' # Again(k)
  <2>1. PICK s \in {"mark", "ingest"} : s \in StepsOf(tasks[k].type) /\ tasks' = MoveTo(k, s)
    BY <1>1, <1>3 DEF Start, StepsOf, Steps
  <2>. QED
    BY <2>1, Moved
<1>. QED
  BY <1>2, <1>3

-----------------------------------------------------------------------------
(***************************************************************************)
(* The steps of the handlers, and the faults.                              *)
(***************************************************************************)
LEMMA HandlersKeep ==
  ASSUME IInv, NEW k \in DOMAIN tasks,
         \/ Start(k) \/ MarkProcessing(k) \/ GetDocument(k) \/ Extract(k)
         \/ MarkReady(k) \/ MarkFailed(k) \/ EnqueueLost(k)
  PROVE  IInv'
<1>1. /\ TypeOK /\ tasks[k] \in TaskRecords /\ tasks[k].type \in {"process", "embed"}
      /\ tasks[k].step \in StepsOf(tasks[k].type) /\ faults \in Nat
  BY DEF IInv, TypeOK, TaskRecords
<1>2. /\ {"processing", "ready", "failed"} \subseteq Statuses \ {"none"}
      /\ \A s \in {"done", "archived", "queued", "fail"} : s \in StepsOf(tasks[k].type)
  BY DEF Statuses, StepsOf, Steps
<1>3. CASE Start(k)
  <2>1. PICK t \in TaskRecords : /\ t.doc = tasks[k].doc /\ t.step # "ready"
                                 /\ tasks' = [tasks EXCEPT ![k] = t]
    BY <1>1, <1>3, Started
  <2>3. Unfinished(tasks[k]) /\ UNCHANGED <<status, file, chunks, upload, asked, faults>>
    BY <1>3 DEF Start, At, Unfinished, Ended
  <2>. QED
    BY <1>2, <2>1, <2>3, TaskMoves
<1>4. CASE MarkProcessing(k)
  <2>1. "get" \in StepsOf(tasks[k].type)
    BY <1>1, <1>4 DEF MarkProcessing, At, StepsOf, Steps
  <2>2. PICK t \in TaskRecords : t.doc = tasks[k].doc /\ t.step = "get" /\ tasks' = [tasks EXCEPT ![k] = t]
    BY <1>1, <1>4, <2>1, Moved DEF MarkProcessing
  <2>3. /\ Unfinished(tasks[k]) /\ UNCHANGED <<file, chunks, upload, asked, faults>>
        /\ SetStatus(t.doc, "processing")
    BY <1>4, <2>2 DEF MarkProcessing, At, Unfinished, Ended
  <2>. QED
    BY <1>2, <2>2, <2>3, TaskMoves
<1>5. CASE GetDocument(k) \/ Extract(k)
  <2>1. PICK s \in {"extract", "enqueue", "fail"} : s \in StepsOf(tasks[k].type) /\ tasks' = MoveTo(k, s)
    BY <1>1, <1>2, <1>5 DEF GetDocument, Extract, At, StepsOf, Steps
  <2>2. PICK t \in TaskRecords : t.doc = tasks[k].doc /\ t.step = s /\ tasks' = [tasks EXCEPT ![k] = t]
    BY <1>1, <2>1, Moved
  <2>3. Unfinished(tasks[k]) /\ UNCHANGED <<status, file, chunks, upload, asked, faults>>
    BY <1>5 DEF GetDocument, Extract, At, Unfinished, Ended
  <2>. QED
    BY <1>2, <2>1, <2>2, <2>3, TaskMoves
<1>6. CASE MarkReady(k)
  <2>1. PICK t \in TaskRecords : t.doc = tasks[k].doc /\ t.step = "done" /\ tasks' = [tasks EXCEPT ![k] = t]
    BY <1>1, <1>2, <1>6, Moved DEF MarkReady
  <2>2. /\ tasks[k].step = "ready" /\ ~Unfinished(t) /\ SetStatus(t.doc, "ready")
        /\ UNCHANGED <<file, chunks, upload, asked, faults>>
    BY <1>6, <2>1 DEF MarkReady, At, Unfinished, Ended
  <2>. QED
    BY <1>2, <2>1, <2>2, TaskMoves
<1>7. CASE MarkFailed(k)
  <2>1. PICK t \in TaskRecords : /\ t.doc = tasks[k].doc /\ t.step \in {"queued", "archived"}
                                 /\ tasks' = [tasks EXCEPT ![k] = t]
    BY <1>1, <1>7, Retried DEF MarkFailed
  <2>2. /\ Unfinished(tasks[k]) /\ SetStatus(t.doc, "failed")
        /\ UNCHANGED <<file, chunks, upload, asked, faults>>
    BY <1>7, <2>1 DEF MarkFailed, At, Unfinished, Ended
  <2>. QED
    BY <1>2, <2>1, <2>2, TaskMoves
<1>8. CASE EnqueueLost(k)
  <2>1. PICK t \in TaskRecords : t.doc = tasks[k].doc /\ t.step = "done" /\ tasks' = [tasks EXCEPT ![k] = t]
    BY <1>1, <1>2, <1>8, Moved DEF EnqueueLost
  <2>2. ~Unfinished(t) /\ faults' = faults + 1 /\ UNCHANGED <<status, file, chunks, upload, asked>>
    BY <1>8, <2>1 DEF EnqueueLost, Fault, Unfinished, Ended
  <2>. QED
    BY <1>2, <2>1, <2>2, TaskMoves
<1>. QED
  BY <1>3, <1>4, <1>5, <1>6, <1>7, <1>8

\* The steps that store a batch or enqueue an embedding.
LEMMA CommitsKeep ==
  ASSUME IInv, NEW k \in DOMAIN tasks,
         EnqueueEmbedding(k) \/ Ingest(k) \/ IngestAnswerLost(k)
  PROVE  IInv'
<1>1. /\ TypeOK /\ tasks[k] \in TaskRecords /\ tasks[k].type \in {"process", "embed"}
      /\ tasks[k].step \in StepsOf(tasks[k].type) /\ faults \in Nat
  BY DEF IInv, TypeOK, TaskRecords
<1>2. /\ "failed" \in Statuses \ {"none"}
      /\ \A s \in {"done", "fail"} : s \in StepsOf(tasks[k].type)
  BY DEF Statuses, StepsOf, Steps
<1>3. CASE EnqueueEmbedding(k)
  <2>1. PICK t \in TaskRecords : t.doc = tasks[k].doc /\ t.step = "done" /\ MoveTo(k, "done") = [tasks EXCEPT ![k] = t]
    BY <1>1, <1>2, Moved
  <2>2. /\ tasks[k].step = "enqueue" /\ ~Unfinished(t)
        /\ tasks' = Append([tasks EXCEPT ![k] = t], Task("embed", tasks[k].doc))
        /\ UNCHANGED <<status, file, chunks, upload, asked, faults>>
    BY <1>3, <2>1 DEF EnqueueEmbedding, At, Unfinished, Ended
  <2>. QED
    BY <2>1, <2>2, TaskEnqueues
<1>4. CASE Ingest(k) /\ tasks' = MoveTo(k, "fail") /\ UNCHANGED chunks
  <2>1. PICK t \in TaskRecords : t.doc = tasks[k].doc /\ t.step = "fail" /\ tasks' = [tasks EXCEPT ![k] = t]
    BY <1>1, <1>2, <1>4, Moved
  <2>2. Unfinished(tasks[k]) /\ UNCHANGED <<status, file, chunks, upload, asked, faults>>
    BY <1>4 DEF Ingest, At, Unfinished, Ended
  <2>. QED
    BY <1>2, <2>1, <2>2, TaskMoves
<1>5. CASE /\ Ingest(k) /\ HasRow(tasks[k].doc) /\ tasks' = MoveTo(k, "ready")
           /\ chunks' = [chunks EXCEPT ![tasks[k].doc] = @ + 1]
  <2>1. "ready" \in StepsOf(tasks[k].type)
    BY <1>1, <1>5 DEF Ingest, At, StepsOf, Steps
  <2>2. PICK t \in TaskRecords : t.doc = tasks[k].doc /\ t.step = "ready" /\ tasks' = [tasks EXCEPT ![k] = t]
    BY <1>1, <1>5, <2>1, Moved
  <2>3. /\ tasks[k].step = "ingest" /\ HasRow(t.doc) /\ chunks' = [chunks EXCEPT ![t.doc] = @ + 1]
        /\ UNCHANGED <<status, file, upload, asked, faults>>
    BY <1>5, <2>2 DEF Ingest, At
  <2>. QED
    BY <2>2, <2>3, BatchStored
<1>6. CASE IngestAnswerLost(k)
  <2>1. PICK t \in TaskRecords : t.doc = tasks[k].doc /\ t.step = "fail" /\ tasks' = [tasks EXCEPT ![k] = t]
    BY <1>1, <1>2, <1>6, Moved DEF IngestAnswerLost
  <2>2. /\ tasks[k].step = "ingest" /\ HasRow(t.doc) /\ chunks' = [chunks EXCEPT ![t.doc] = @ + 1]
        /\ faults' = faults + 1 /\ UNCHANGED <<status, file, upload, asked>>
    BY <1>6, <2>1 DEF IngestAnswerLost, At, Fault
  <2>. QED
    BY <2>1, <2>2, BatchStored
<1>7. Ingest(k) => \/ tasks' = MoveTo(k, "fail") /\ UNCHANGED chunks
                   \/ /\ HasRow(tasks[k].doc) /\ tasks' = MoveTo(k, "ready")
                      /\ chunks' = [chunks EXCEPT ![tasks[k].doc] = @ + 1]
  BY DEF Ingest
<1>. QED
  BY <1>3, <1>4, <1>5, <1>6, <1>7

LEMMA FaultsKeep ==
  ASSUME IInv, NEW k \in DOMAIN tasks, UpdateFails(k) \/ Interrupted(k)
  PROVE  IInv'
<1>1. /\ TypeOK /\ tasks[k] \in TaskRecords /\ faults \in Nat
      /\ {"processing", "ready", "failed"} \subseteq Statuses \ {"none"}
  BY DEF IInv, TypeOK, TaskRecords, Statuses
<1>2. PICK t \in TaskRecords : /\ t.doc = tasks[k].doc /\ t.step \in {"queued", "archived"}
                               /\ Again(k) = [tasks EXCEPT ![k] = t]
  BY <1>1, Retried
<1>3. faults' = faults + 1 /\ UNCHANGED <<file, chunks, upload, asked>>
  BY DEF UpdateFails, Interrupted, Fault
<1>4. CASE UpdateFails(k)
  <2>1. tasks' = [tasks EXCEPT ![k] = t]
    BY <1>2, <1>4 DEF UpdateFails
  <2>2. PICK s \in {"processing", "ready", "failed"} :
            (s = "ready" => tasks[k].step = "ready") /\ (UNCHANGED status \/ SetStatus(t.doc, s))
    BY <1>2, <1>4 DEF UpdateFails, Written
  <2>. QED
    BY <1>1, <1>2, <1>3, <2>1, <2>2, TaskMoves
<1>5. CASE Interrupted(k) /\ tasks' = Again(k)
  <2>1. UNCHANGED status
    BY <1>5 DEF Interrupted
  <2>. QED
    BY <1>1, <1>2, <1>3, <1>5, <2>1, TaskMoves
<1>6. CASE Interrupted(k) /\ tasks' # Again(k)
  <2>1. /\ tasks[k].step = "enqueue" /\ UNCHANGED status
        /\ tasks' = Append([tasks EXCEPT ![k] = t], Task("embed", tasks[k].doc))
    BY <1>2, <1>6 DEF Interrupted, At
  <2>. QED
    BY <1>2, <1>3, <2>1, TaskEnqueues
<1>. QED
  BY <1>4, <1>5, <1>6

LEMMA NextInductive == IInv /\ [Next]_vars => IInv'
<1>. SUFFICES ASSUME IInv, [Next]_vars PROVE IInv'
  OBVIOUS
<1>1. ASSUME NEW d \in Docs, Request(d) PROVE IInv'
  BY <1>1, UploadKeeps, EnqueueKeeps, DeletionKeeps DEF Request
<1>2. ASSUME NEW k \in DOMAIN tasks, HandlerStep(k) \/ FaultStep(k) PROVE IInv'
  BY <1>2, HandlersKeep, CommitsKeep, FaultsKeep DEF HandlerStep, FaultStep
<1>3. CASE UNCHANGED vars
  BY <1>3 DEF vars, IInv, TypeOK, Budget, Early, Embedded, ReadyHasChunks, DeletedHasNoChunks, HasRow
<1>. QED
  BY <1>1, <1>2, <1>3 DEF Next, Quiet

LEMMA Inductive == Spec => []IInv
<1>. QED
  BY InitInductive, NextInductive, PTL DEF Spec

-----------------------------------------------------------------------------
(***************************************************************************)
(* What the parts of a deployment leave undone: a document is "pending" until  *)
(* the first statement of its handler, and for good without a handler.       *)
(***************************************************************************)
Begun(t) == t.type = "embed" \/ t.step \in {"get", "extract", "enqueue"}
Marked == \A k \in DOMAIN tasks : Begun(tasks[k]) => status[tasks[k].doc] # "pending"
Unhandled ==
    "handlers" \notin supplied =>
        /\ \A k \in DOMAIN tasks : tasks[k].step \in {"queued", "archived"}
        /\ \A d \in Docs : status[d] \in {"none", "pending"}
Deployed == Marked /\ Unhandled

LEMMA MarkedMoves ==
  ASSUME TypeOK, Marked, NEW k \in DOMAIN tasks, NEW t \in TaskRecords,
         t.doc = tasks[k].doc, t.type = tasks[k].type,
         Begun(t) => Begun(tasks[k]) \/ status'[t.doc] # "pending",
         NEW s \in Statuses \ {"none", "pending"}, status' = status \/ SetStatus(t.doc, s),
         \/ tasks' = [tasks EXCEPT ![k] = t]
         \/ /\ tasks[k].step = "enqueue"
            /\ tasks' = Append([tasks EXCEPT ![k] = t], Task("embed", t.doc))
  PROVE  Marked'
<1>. DEFINE us == [tasks EXCEPT ![k] = t]
            e == Task("embed", t.doc)
<1>1. /\ tasks \in Seq(TaskRecords) /\ us \in Seq(TaskRecords) /\ DOMAIN us = DOMAIN tasks
      /\ t.doc \in Docs /\ us[k] = t /\ \A j \in DOMAIN tasks : j # k => us[j] = tasks[j]
  BY DEF TypeOK, TaskRecords
<1>2. \A c \in Docs : status'[c] = "pending" => status[c] = "pending"
  BY <1>1 DEF TypeOK, SetStatus
<1>3. Begun(t) => status'[t.doc] # "pending"
  BY <1>1, <1>2 DEF Marked
<1>4. \A j \in DOMAIN us : Begun(us[j]) => status'[us[j].doc] # "pending"
  <2>1. ASSUME NEW j \in DOMAIN us, Begun(us[j]) PROVE status'[us[j].doc] # "pending"
    <3>1. CASE j = k
      BY <1>1, <1>3, <2>1, <3>1
    <3>2. CASE j # k
      <4>1. us[j] = tasks[j] /\ tasks[j].doc \in Docs /\ j \in DOMAIN tasks
        BY <1>1, <2>1, <3>2 DEF TypeOK, TaskRecords
      <4>2. status[tasks[j].doc] # "pending"
        BY <2>1, <4>1 DEF Marked
      <4>. QED
        BY <1>2, <4>1, <4>2
    <3>. QED
      BY <3>1, <3>2
  <2>. QED
    BY <2>1
<1>5. CASE tasks' = us
  BY <1>4, <1>5 DEF Marked
<1>6. CASE tasks[k].step = "enqueue" /\ tasks' = Append(us, e)
  <2>1. e.doc = t.doc
    BY DEF Task
  <2>2. status[t.doc] # "pending"
    BY <1>6 DEF Marked, Begun
  <2>. HIDE DEF us, e
  <2>3. /\ DOMAIN tasks' = (DOMAIN us) \cup {Len(us) + 1} /\ tasks'[Len(us) + 1] = e
        /\ \A j \in DOMAIN us : tasks'[j] = us[j]
    BY <1>1, <1>6
  <2>. QED
    BY <1>1, <1>2, <1>4, <2>1, <2>2, <2>3 DEF Marked
<1>. QED
  BY <1>5, <1>6

LEMMA MarkedHandler ==
  ASSUME TypeOK, Marked, NEW k \in DOMAIN tasks, HandlerStep(k) \/ FaultStep(k)
  PROVE  Marked'
<1>. DEFINE d == tasks[k].doc
<1>1. /\ tasks[k] \in TaskRecords /\ d \in Docs /\ tasks[k].type \in {"process", "embed"}
      /\ tasks[k].step \in StepsOf(tasks[k].type)
      /\ {"processing", "ready", "failed"} \subseteq Statuses \ {"none", "pending"}
      /\ \A s \in {"done", "fail"} : s \in StepsOf(tasks[k].type)
  BY DEF TypeOK, TaskRecords, Statuses, StepsOf, Steps
<1>2. CASE Start(k)
  <2>1. PICK t \in TaskRecords : /\ t.doc = d /\ t.type = tasks[k].type
                                 /\ t.step \in {"mark", "ingest", "queued", "archived"}
                                 /\ tasks' = [tasks EXCEPT ![k] = t]
    BY <1>2, Started
  <2>2. status' = status /\ (Begun(t) => Begun(tasks[k]) \/ status'[t.doc] # "pending")
    BY <1>2, <2>1 DEF Start, Begun
  <2>. QED
    BY <1>1, <2>1, <2>2, MarkedMoves
<1>3. CASE MarkProcessing(k)
  <2>1. "get" \in StepsOf(tasks[k].type)
    BY <1>1, <1>3 DEF MarkProcessing, At, StepsOf, Steps
  <2>2. PICK t \in TaskRecords : /\ t.doc = d /\ t.type = tasks[k].type
                                 /\ tasks' = [tasks EXCEPT ![k] = t]
    BY <1>3, <2>1, Moved DEF MarkProcessing
  <2>3. SetStatus(t.doc, "processing")
    BY <1>3, <2>2 DEF MarkProcessing
  <2>4. status'[t.doc] # "pending"
    BY <1>1, <2>2, <2>3 DEF SetStatus, HasRow, TypeOK
  <2>. QED
    BY <1>1, <2>2, <2>3, <2>4, MarkedMoves
<1>4. CASE GetDocument(k) \/ Extract(k) \/ Ingest(k) \/ IngestAnswerLost(k)
  <2>1. PICK s \in {"extract", "enqueue", "fail", "ready"} :
            s \in StepsOf(tasks[k].type) /\ tasks' = MoveTo(k, s)
    BY <1>1, <1>4 DEF GetDocument, Extract, Ingest, IngestAnswerLost, At, StepsOf, Steps
  <2>2. PICK t \in TaskRecords : /\ t.doc = d /\ t.type = tasks[k].type /\ t.step = s
                                 /\ tasks' = [tasks EXCEPT ![k] = t]
    BY <2>1, Moved
  <2>3. status' = status /\ (Begun(t) => Begun(tasks[k]) \/ status'[t.doc] # "pending")
    BY <1>1, <1>4, <2>1, <2>2
       DEF GetDocument, Extract, Ingest, IngestAnswerLost, At, Begun, StepsOf, Steps
  <2>. QED
    BY <1>1, <2>2, <2>3, MarkedMoves
<1>5. CASE EnqueueEmbedding(k) \/ EnqueueLost(k) \/ MarkReady(k)
  <2>1. PICK t \in TaskRecords : /\ t.doc = d /\ t.type = tasks[k].type /\ t.step = "done"
                                 /\ MoveTo(k, "done") = [tasks EXCEPT ![k] = t]
    BY <1>1, Moved
  <2>2. \/ tasks' = [tasks EXCEPT ![k] = t]
        \/ /\ tasks[k].step = "enqueue"
           /\ tasks' = Append([tasks EXCEPT ![k] = t], Task("embed", t.doc))
    BY <1>5, <2>1 DEF EnqueueEmbedding, EnqueueLost, MarkReady, At
  <2>3. status' = status \/ SetStatus(t.doc, "ready")
    BY <1>5, <2>1 DEF EnqueueEmbedding, EnqueueLost, MarkReady
  <2>4. Begun(t) => Begun(tasks[k]) \/ status'[t.doc] # "pending"
    BY <2>1 DEF Begun
  <2>. QED
    BY <1>1, <2>1, <2>2, <2>3, <2>4, MarkedMoves
<1>6. CASE MarkFailed(k) \/ UpdateFails(k) \/ Interrupted(k)
  <2>1. PICK t \in TaskRecords : /\ t.doc = d /\ t.type = tasks[k].type
                                 /\ t.step \in {"queued", "archived"}
                                 /\ Again(k) = [tasks EXCEPT ![k] = t]
    BY Retried
  <2>2. \/ tasks' = [tasks EXCEPT ![k] = t]
        \/ /\ tasks[k].step = "enqueue"
           /\ tasks' = Append([tasks EXCEPT ![k] = t], Task("embed", t.doc))
    BY <1>6, <2>1 DEF MarkFailed, UpdateFails, Interrupted, At
  <2>3. PICK s \in {"processing", "ready", "failed"} : status' = status \/ SetStatus(t.doc, s)
    BY <1>6, <2>1 DEF MarkFailed, UpdateFails, Interrupted, Written
  <2>4. Begun(t) => Begun(tasks[k]) \/ status'[t.doc] # "pending"
    BY <2>1 DEF Begun
  <2>. QED
    BY <1>1, <2>1, <2>2, <2>3, <2>4, MarkedMoves
<1>. QED
  BY <1>2, <1>3, <1>4, <1>5, <1>6 DEF HandlerStep, FaultStep

LEMMA UnhandledStep ==
  ASSUME TypeOK, Unhandled, NEW k \in DOMAIN tasks, HandlerStep(k) \/ FaultStep(k)
  PROVE  Unhandled'
<1>1. supplied' = supplied
  BY DEF HandlerStep, FaultStep, Start, MarkProcessing, GetDocument, Extract, EnqueueEmbedding,
         Ingest, MarkReady, MarkFailed, EnqueueLost, UpdateFails, IngestAnswerLost, Interrupted
<1>2. CASE "handlers" \in supplied
  BY <1>1, <1>2 DEF Unhandled
<1>3. CASE "handlers" \notin supplied
  <2>1. tasks[k].step \in {"queued", "archived"}
    BY <1>3 DEF Unhandled
  <2>2. Start(k)
    BY <2>1 DEF HandlerStep, FaultStep, MarkProcessing, GetDocument, Extract, EnqueueEmbedding,
                Ingest, MarkReady, MarkFailed, EnqueueLost, UpdateFails, IngestAnswerLost,
                Interrupted, At, Written, Active, Steps, Ended
  <2>3. tasks' = Again(k) /\ status' = status
    BY <1>3, <2>2 DEF Start
  <2>4. PICK t \in TaskRecords : t.step \in {"queued", "archived"} /\ Again(k) = [tasks EXCEPT ![k] = t]
    BY Retried
  <2>5. DOMAIN tasks' = DOMAIN tasks /\ \A j \in DOMAIN tasks : tasks'[j] = IF j = k THEN t ELSE tasks[j]
    BY <2>3, <2>4 DEF TypeOK
  <2>. QED
    BY <1>1, <1>3, <2>3, <2>4, <2>5 DEF Unhandled
<1>. QED
  BY <1>2, <1>3

LEMMA DeployedRequest ==
  ASSUME TypeOK, Early, Deployed, NEW d \in Docs, Request(d)
  PROVE  Deployed'
<1>. USE DEF Deployed
<1>1. supplied' = supplied
  BY DEF Request, StoreFile, InsertRow, EnqueueProcess, BeginDelete, DeleteFile, DeleteRow
<1>2. CASE EnqueueProcess(d)
  <2>. DEFINE t == Task("process", d)
  <2>1. ~Begun(t) /\ t.step = "queued"
    BY DEF Task, Begun
  <2>2. tasks' = Append(tasks, t) /\ status' = status /\ tasks \in Seq(TaskRecords)
    BY <1>2 DEF EnqueueProcess, TypeOK
  <2>. HIDE DEF t
  <2>3. /\ DOMAIN tasks' = (DOMAIN tasks) \cup {Len(tasks) + 1} /\ tasks'[Len(tasks) + 1] = t
        /\ \A j \in DOMAIN tasks : tasks'[j] = tasks[j]
    BY <2>2
  <2>4. Marked'
    BY <2>1, <2>2, <2>3 DEF Marked
  <2>5. Unhandled'
    BY <1>1, <2>1, <2>2, <2>3 DEF Unhandled
  <2>. QED
    BY <2>4, <2>5
<1>3. CASE ~EnqueueProcess(d)
  <2>1. tasks' = tasks
    BY <1>3 DEF Request, StoreFile, InsertRow, BeginDelete, DeleteFile, DeleteRow
  <2>2. \/ status' = status
        \/ status' = [status EXCEPT ![d] = "none"]
        \/ status' = [status EXCEPT ![d] = "pending"] /\ upload[d] = "stored"
    BY <1>3 DEF Request, StoreFile, InsertRow, BeginDelete, DeleteFile, DeleteRow
  <2>3. \A c \in Docs : status'[c] \in {status[c], "none", "pending"}
    BY <2>2 DEF TypeOK
  <2>4. \A c \in asked : status'[c] = "pending" => status[c] = "pending"
    BY <2>2 DEF TypeOK, Early
  <2>5. \A k \in DOMAIN tasks : tasks[k].doc \in asked
    BY DEF Early
  <2>6. Marked'
    BY <2>1, <2>4, <2>5 DEF Marked
  <2>7. Unhandled'
    BY <1>1, <2>1, <2>3 DEF Unhandled
  <2>. QED
    BY <2>6, <2>7
<1>. QED
  BY <1>2, <1>3

LEMMA DeployedNext == IInv /\ Deployed /\ [Next]_vars => Deployed'
<1>. SUFFICES ASSUME IInv, Deployed, [Next]_vars PROVE Deployed'
  OBVIOUS
<1>1. TypeOK /\ Early /\ Marked /\ Unhandled
  BY DEF IInv, Deployed
<1>2. ASSUME NEW d \in Docs, Request(d) PROVE Deployed'
  BY <1>1, <1>2, DeployedRequest
<1>3. ASSUME NEW k \in DOMAIN tasks, HandlerStep(k) \/ FaultStep(k) PROVE Deployed'
  <2>1. Marked'
    BY <1>1, <1>3, MarkedHandler
  <2>2. Unhandled'
    BY <1>1, <1>3, UnhandledStep
  <2>. QED
    BY <2>1, <2>2 DEF Deployed
<1>4. CASE UNCHANGED vars
  BY <1>1, <1>4 DEF vars, Deployed, Marked, Unhandled
<1>. QED
  BY <1>2, <1>3, <1>4 DEF Next, Quiet

-----------------------------------------------------------------------------
(***************************************************************************)
(* Without faults a document is either as its last task left it, or a task is  *)
(* still going to say so.                                                    *)
(***************************************************************************)
Settled(d) ==
    \/ status[d] = "ready" /\ chunks[d] = 1
    \/ status[d] \in {"failed", "none"} /\ chunks[d] = 0
    \/ status[d] = "pending" /\ chunks[d] = 0 /\ "handlers" \notin supplied
    \/ status[d] = "processing" /\ chunks[d] = 0 /\ Refused(d)
Running(d) == \E k \in DOMAIN tasks : tasks[k].doc = d /\ tasks[k].step \notin Ended

LEMMA HonestIsSettled == HonestOutcome <=> (faults = 0 => \A d \in asked : Settled(d) \/ Running(d))
  BY DEF HonestOutcome, Settled, Running

LEMMA HonestAgain ==
  ASSUME \A d \in asked' : Settled(d)' \/ Running(d)'
  PROVE  HonestOutcome'
BY DEF HonestOutcome, Settled, Running

\* What the running task of a document implies for its chunks.
LEMMA RunningChunks ==
  ASSUME IInv, faults = 0, NEW k \in DOMAIN tasks, tasks[k].step \notin Ended
  PROVE  /\ tasks[k].step # "ready" => chunks[tasks[k].doc] = 0
         /\ tasks[k].step = "ready" /\ HasRow(tasks[k].doc) => chunks[tasks[k].doc] = 1
<1>. DEFINE d == tasks[k].doc
<1>1. /\ d \in Docs /\ tasks \in Seq(TaskRecords) /\ chunks[d] \in Nat
      /\ chunks[d] + Pending(tasks, d) <= 1
  BY DEF IInv, TypeOK, TaskRecords, Budget
<1>2. Pending(tasks, d) \in Nat
  BY <1>1, UnfinishedFinite
<1>3. CASE tasks[k].step # "ready"
  <2>1. k \in UnfinishedOf(tasks, d) /\ IsFiniteSet(UnfinishedOf(tasks, d))
    BY <1>1, <1>3, UnfinishedFinite DEF UnfinishedOf, Unfinished
  <2>2. Pending(tasks, d) # 0
    BY <2>1, FS_EmptySet DEF Pending
  <2>. QED
    BY <1>1, <1>2, <1>3, <2>2
<1>4. CASE tasks[k].step = "ready"
  <2>1. HasRow(d) => chunks[d] > 0
    BY <1>4 DEF IInv, Embedded
  <2>. QED
    BY <1>1, <1>2, <1>4, <2>1
<1>. QED
  BY <1>3, <1>4

LEMMA HonestTask ==
  ASSUME IInv, HonestOutcome, faults = 0, faults' = 0,
         NEW k \in DOMAIN tasks, NEW t \in TaskRecords, t.doc = tasks[k].doc,
         tasks' = [tasks EXCEPT ![k] = t],
         t.step \in Ended => Settled(t.doc)',
         \A c \in Docs : c # t.doc => status'[c] = status[c] /\ chunks'[c] = chunks[c],
         asked' = asked, supplied' = supplied
  PROVE  HonestOutcome'
<1>1. /\ DOMAIN tasks' = DOMAIN tasks /\ tasks'[k] = t
      /\ \A j \in DOMAIN tasks : j # k => tasks'[j] = tasks[j]
  BY DEF IInv, TypeOK
<1>2. asked \subseteq Docs /\ \A c \in asked : Settled(c) \/ Running(c)
  BY HonestIsSettled DEF IInv, TypeOK
<1>3. ASSUME NEW c \in asked PROVE Settled(c)' \/ Running(c)'
  <2>1. CASE c = t.doc /\ t.step \in Ended
    BY <2>1 DEF Settled
  <2>2. CASE c = t.doc /\ t.step \notin Ended
    BY <1>1, <2>2 DEF Running
  <2>3. CASE c # t.doc /\ Settled(c)
    <3>1. Refused(c) => Refused(c)'
      BY <1>1, <2>3 DEF Refused
    <3>. QED
      BY <1>2, <2>3, <3>1 DEF Settled
  <2>4. CASE c # t.doc /\ Running(c)
    BY <1>1, <2>4 DEF Running
  <2>. QED
    BY <1>2, <2>1, <2>2, <2>3, <2>4
<1>4. asked' = asked
  OBVIOUS
<1>. QED
  BY <1>3, <1>4, HonestAgain

LEMMA HonestRequest ==
  ASSUME IInv, HonestOutcome, faults = 0, NEW d \in Docs, Request(d)
  PROVE  HonestOutcome'
<1>1. /\ asked \subseteq Docs /\ tasks \in Seq(TaskRecords)
      /\ \A c \in asked : upload[c] = "created" /\ (Settled(c) \/ Running(c))
  BY HonestIsSettled DEF IInv, TypeOK, Early
<1>2. CASE StoreFile(d) \/ InsertRow(d)
  <2>1. UNCHANGED <<chunks, asked, tasks, supplied>> /\ d \notin asked
    BY <1>1, <1>2 DEF StoreFile, InsertRow
  <2>2. \A c \in asked : status'[c] = status[c]
    BY <1>1, <1>2, <2>1 DEF StoreFile, InsertRow, IInv, TypeOK
  <2>3. ASSUME NEW c \in asked PROVE Settled(c)' \/ Running(c)'
    BY <1>1, <2>1, <2>2 DEF Settled, Running, Refused
  <2>. QED
    BY <2>1, <2>3, HonestAgain
<1>3. CASE EnqueueProcess(d)
  <2>. DEFINE t == Task("process", d)
  <2>1. /\ tasks' = Append(tasks, t) /\ asked' = asked \cup {d} /\ UNCHANGED <<status, chunks, supplied>>
        /\ t.doc = d /\ t.step \notin Ended
    BY <1>3 DEF EnqueueProcess, Task, Ended
  <2>. HIDE DEF t
  <2>2. /\ DOMAIN tasks' = (DOMAIN tasks) \cup {Len(tasks) + 1} /\ tasks'[Len(tasks) + 1] = t
        /\ \A j \in DOMAIN tasks : tasks'[j] = tasks[j]
    BY <1>1, <2>1
  <2>3. ASSUME NEW c \in asked' PROVE Settled(c)' \/ Running(c)'
    <3>1. CASE c = d
      BY <2>1, <2>2, <3>1 DEF Running
    <3>2. CASE c # d /\ Running(c)
      BY <2>2, <3>2 DEF Running
    <3>3. CASE c # d /\ Settled(c)
      <4>1. Refused(c) => Refused(c)'
        BY <2>1, <2>2 DEF Refused
      <4>. QED
        BY <2>1, <3>3, <4>1 DEF Settled
    <3>. QED
      BY <1>1, <2>1, <3>1, <3>2, <3>3
  <2>. QED
    BY <2>3, HonestAgain
<1>4. CASE BeginDelete(d) \/ DeleteFile(d) \/ DeleteRow(d)
  <2>1. UNCHANGED <<asked, tasks, supplied>>
    BY <1>4 DEF BeginDelete, DeleteFile, DeleteRow
  <2>2. \A c \in Docs : (\/ status'[c] = status[c] /\ chunks'[c] = chunks[c]
                         \/ status'[c] = "none" /\ chunks'[c] = 0)
    <3>1. \/ UNCHANGED <<status, chunks>>
          \/ status' = [status EXCEPT ![d] = "none"] /\ chunks' = [chunks EXCEPT ![d] = 0]
      BY <1>4 DEF BeginDelete, DeleteFile, DeleteRow
    <3>2. status \in [Docs -> Statuses] /\ chunks \in [Docs -> Nat]
      BY DEF IInv, TypeOK
    <3>. QED
      BY <3>1, <3>2
  <2>3. ASSUME NEW c \in asked PROVE Settled(c)' \/ Running(c)'
    <3>1. Running(c) => Running(c)'
      BY <2>1 DEF Running
    <3>2. Refused(c) => Refused(c)'
      BY <2>1 DEF Refused
    <3>3. Settled(c) => Settled(c)'
      <4>1. CASE status'[c] = status[c] /\ chunks'[c] = chunks[c]
        BY <2>1, <3>2, <4>1 DEF Settled
      <4>2. CASE status'[c] = "none" /\ chunks'[c] = 0
        BY <4>2 DEF Settled
      <4>. QED
        BY <1>1, <2>2, <4>1, <4>2
    <3>. QED
      BY <1>1, <3>1, <3>3
  <2>. QED
    BY <2>1, <2>3, HonestAgain
<1>. QED
  BY <1>2, <1>3, <1>4 DEF Request

LEMMA HonestHandler ==
  ASSUME IInv, Deployed, HonestOutcome, faults = 0, NEW k \in DOMAIN tasks, HandlerStep(k)
  PROVE  HonestOutcome'
<1>. DEFINE d == tasks[k].doc
<1>1. /\ TypeOK /\ DeletedHasNoChunks /\ tasks \in Seq(TaskRecords) /\ tasks[k] \in TaskRecords
      /\ d \in Docs /\ asked \subseteq Docs
      /\ tasks[k].type \in {"process", "embed"} /\ tasks[k].step \in StepsOf(tasks[k].type)
  BY DEF IInv, TypeOK, TaskRecords
<1>2. \A s \in {"done", "fail"} : s \in StepsOf(tasks[k].type)
  BY DEF StepsOf, Steps
<1>3. faults' = 0 /\ asked' = asked /\ supplied' = supplied
  BY DEF HandlerStep, Start, MarkProcessing, GetDocument, Extract, EnqueueEmbedding, Ingest,
         MarkReady, MarkFailed
<1>4. CASE MarkProcessing(k) \/ GetDocument(k) \/ Extract(k) \/ Ingest(k)
  <2>1. PICK s \in {"get", "extract", "enqueue", "fail", "ready"} :
            s \in StepsOf(tasks[k].type) /\ tasks' = MoveTo(k, s)
    BY <1>1, <1>4 DEF MarkProcessing, GetDocument, Extract, Ingest, At, StepsOf, Steps
  <2>2. PICK t \in TaskRecords : t.doc = d /\ t.step = s /\ tasks' = [tasks EXCEPT ![k] = t]
    BY <1>1, <2>1, Moved
  <2>3. \A c \in Docs : c # d => status'[c] = status[c]
    BY <1>1, <1>4 DEF MarkProcessing, GetDocument, Extract, Ingest, SetStatus, TypeOK
  <2>4. \A c \in Docs : c # d => chunks'[c] = chunks[c]
    BY <1>1, <1>4 DEF MarkProcessing, GetDocument, Extract, Ingest, TypeOK
  <2>5. t.step \notin Ended
    BY <2>2 DEF Ended
  <2>. QED
    BY <1>3, <2>2, <2>3, <2>4, <2>5, HonestTask
<1>5. CASE MarkReady(k)
  <2>1. PICK t \in TaskRecords : t.doc = d /\ t.step = "done" /\ tasks' = [tasks EXCEPT ![k] = t]
    BY <1>1, <1>2, <1>5, Moved DEF MarkReady
  <2>2. /\ tasks[k].step = "ready" /\ "ready" \notin Ended /\ UNCHANGED chunks
        /\ status' = IF HasRow(d) THEN [status EXCEPT ![d] = "ready"] ELSE status
    BY <1>5 DEF MarkReady, At, Ended, SetStatus
  <2>3. HasRow(d) => chunks[d] = 1
    BY <2>2, RunningChunks
  <2>4. ~HasRow(d) => status[d] = "none" /\ chunks[d] = 0
    BY <1>1 DEF DeletedHasNoChunks, HasRow
  <2>5. \/ status'[d] = "ready" /\ chunks'[d] = 1
        \/ status'[d] = "none" /\ chunks'[d] = 0
    <3>1. HasRow(d) => status'[d] = "ready"
      BY <1>1, <2>2 DEF TypeOK
    <3>. QED
      BY <2>2, <2>3, <2>4, <3>1
  <2>6. \A c \in Docs : c # d => status'[c] = status[c]
    BY <1>1, <2>2 DEF TypeOK
  <2>7. Settled(t.doc)'
    BY <2>1, <2>5 DEF Settled
  <2>. QED
    BY <1>3, <2>1, <2>2, <2>6, <2>7, HonestTask
<1>6. CASE MarkFailed(k)
  <2>1. PICK t \in TaskRecords : t.doc = d /\ tasks' = [tasks EXCEPT ![k] = t]
    BY <1>1, <1>6, Retried DEF MarkFailed
  <2>2. /\ tasks[k].step = "fail" /\ "fail" \notin Ended /\ UNCHANGED chunks
        /\ status' = IF HasRow(d) THEN [status EXCEPT ![d] = "failed"] ELSE status
    BY <1>6 DEF MarkFailed, At, Ended, SetStatus
  <2>3. chunks[d] = 0
    BY <2>2, RunningChunks
  <2>4. status'[d] \in {"failed", "none"}
    BY <1>1, <2>2 DEF TypeOK, HasRow
  <2>5. \A c \in Docs : c # d => status'[c] = status[c]
    BY <1>1, <2>2 DEF TypeOK
  <2>6. Settled(t.doc)'
    BY <2>1, <2>2, <2>3, <2>4 DEF Settled
  <2>. QED
    BY <1>3, <2>1, <2>2, <2>5, <2>6, HonestTask
<1>7. CASE EnqueueEmbedding(k)
  <2>. DEFINE e == Task("embed", d)
  <2>1. PICK t \in TaskRecords : t.doc = d /\ MoveTo(k, "done") = [tasks EXCEPT ![k] = t]
    BY <1>1, <1>2, Moved
  <2>2. /\ tasks' = Append([tasks EXCEPT ![k] = t], e) /\ UNCHANGED <<status, chunks, supplied>>
        /\ e.doc = d /\ e.step \notin Ended
    BY <1>7, <2>1 DEF EnqueueEmbedding, Task, Ended
  <2>. HIDE DEF e
  <2>3. /\ DOMAIN tasks' = (DOMAIN tasks) \cup {Len(tasks) + 1} /\ tasks'[Len(tasks) + 1] = e
        /\ \A j \in DOMAIN tasks : j # k => tasks'[j] = tasks[j]
    BY <1>1, <2>2
  <2>4. ASSUME NEW c \in asked PROVE Settled(c)' \/ Running(c)'
    <3>1. CASE c = d
      BY <2>2, <2>3, <3>1 DEF Running
    <3>2. CASE c # d /\ Settled(c)
      <4>1. Refused(c) => Refused(c)'
        BY <2>2, <2>3, <3>2 DEF Refused
      <4>. QED
        BY <2>2, <3>2, <4>1 DEF Settled
    <3>3. CASE c # d /\ Running(c)
      BY <2>3, <3>3 DEF Running
    <3>. QED
      BY <3>1, <3>2, <3>3, HonestIsSettled
  <2>. QED
    BY <1>3, <2>4, HonestAgain
<1>8. CASE Start(k)
  <2>1. PICK t \in TaskRecords : /\ t.doc = d /\ t.type = tasks[k].type
                                 /\ t.step \in {"mark", "ingest", "queued", "archived"}
                                 /\ tasks' = [tasks EXCEPT ![k] = t]
    BY <1>1, <1>8, Started
  <2>2. /\ tasks[k].step = "queued" /\ "queued" \notin Ended /\ status' = status /\ chunks' = chunks
        /\ DOMAIN tasks' = DOMAIN tasks /\ tasks'[k] = t
    BY <1>1, <1>8, <2>1 DEF Start, At, Ended
  <2>3. chunks[d] = 0
    BY <2>2, RunningChunks
  <2>4. ASSUME t.step \in Ended PROVE Settled(t.doc)'
    <3>1. \/ "handlers" \notin supplied
          \/ t.type = "embed" /\ "payload" \notin supplied
      <4>. SUFFICES ASSUME ~("handlers" \notin supplied),
                           ~(tasks[k].type = "embed" /\ "payload" \notin supplied)
                    PROVE  FALSE
        BY <2>1
      <4>1. tasks' = MoveTo(k, IF tasks[k].type = "process" THEN "mark" ELSE "ingest")
        BY <1>8 DEF Start
      <4>2. tasks'[k].step \in {"mark", "ingest"}
        BY <1>1, <4>1 DEF MoveTo, TaskRecords
      <4>. QED
        BY <2>2, <2>4, <4>2 DEF Ended
    <3>2. CASE "handlers" \notin supplied
      <4>1. status[d] \in {"none", "pending"}
        BY <1>1, <3>2 DEF Deployed, Unhandled
      <4>. QED
        BY <1>3, <2>1, <2>2, <2>3, <3>2, <4>1 DEF Settled
    <3>3. CASE t.type = "embed" /\ "payload" \notin supplied
      <4>1. status[d] # "pending"
        BY <2>1, <3>3 DEF Deployed, Marked, Begun
      <4>2. status[d] # "ready"
        BY <1>1, <2>3 DEF IInv, ReadyHasChunks
      <4>3. status[d] \in Statuses
        BY <1>1 DEF TypeOK
      <4>4. Refused(d)'
        <5>1. t.step = "archived"
          BY <2>1, <2>4 DEF Ended
        <5>. QED
          BY <1>3, <2>1, <2>2, <3>3, <5>1 DEF Refused
      <4>. QED
        BY <2>1, <2>2, <2>3, <4>1, <4>2, <4>3, <4>4 DEF Settled, Statuses
    <3>. QED
      BY <3>1, <3>2, <3>3
  <2>5. \A c \in Docs : c # t.doc => status'[c] = status[c] /\ chunks'[c] = chunks[c]
    BY <2>2
  <2>. QED
    BY <1>3, <2>1, <2>4, <2>5, HonestTask
<1>. QED
  BY <1>4, <1>5, <1>6, <1>7, <1>8 DEF HandlerStep

LEMMA HonestNext == IInv /\ Deployed /\ HonestOutcome /\ [Next]_vars => HonestOutcome'
<1>. SUFFICES ASSUME IInv, Deployed, HonestOutcome, [Next]_vars, faults' = 0 PROVE HonestOutcome'
  BY DEF HonestOutcome
<1>1. faults \in Nat
  BY DEF IInv, TypeOK
<1>2. ASSUME NEW d \in Docs, Request(d) PROVE HonestOutcome'
  <2>1. faults = 0
    BY <1>2 DEF Request, StoreFile, InsertRow, EnqueueProcess, BeginDelete, DeleteFile, DeleteRow
  <2>. QED
    BY <1>2, <2>1, HonestRequest
<1>3. ASSUME NEW k \in DOMAIN tasks, HandlerStep(k) PROVE HonestOutcome'
  <2>1. faults = 0
    BY <1>3 DEF HandlerStep, Start, MarkProcessing, GetDocument, Extract, EnqueueEmbedding, Ingest,
                MarkReady, MarkFailed
  <2>. QED
    BY <1>3, <2>1, HonestHandler
<1>4. ASSUME NEW k \in DOMAIN tasks, FaultStep(k) PROVE FALSE
  BY <1>1, <1>4 DEF FaultStep, EnqueueLost, UpdateFails, IngestAnswerLost, Interrupted, Fault
<1>5. CASE UNCHANGED vars
  BY <1>5 DEF vars, HonestOutcome, Refused
<1>. QED
  BY <1>2, <1>3, <1>4, <1>5 DEF Next, Quiet

-----------------------------------------------------------------------------
(***************************************************************************)
(* Theorems.                                                               *)
(***************************************************************************)

\* No order of uploads, retries, late handlers and deletions makes a document "ready"
\* (UpdateStatus in embedding.go) while it has no committed chunks.
THEOREM ReadyIsSearchable == Spec => []ReadyHasChunks
<1>1. IInv => ReadyHasChunks
  BY DEF IInv
<1>. QED
  BY <1>1, Inductive, PTL

\* A task that outlives the deletion of its document stores no chunk of it.
THEOREM DeletionIsFinal == Spec => []DeletedHasNoChunks
<1>1. IInv => DeletedHasNoChunks
  BY DEF IInv
<1>. QED
  BY <1>1, Inductive, PTL

\* However many tasks and retries there are, a document has at most one batch of chunks
\* more than there were faults: asynq's retries alone duplicate nothing.
THEOREM RetriesDuplicateNothing == Spec => []DuplicatesNeedFaults
<1>1. IInv => DuplicatesNeedFaults
  <2>1. ASSUME IInv, NEW d \in Docs PROVE chunks[d] <= 1 + faults
    <3>1. /\ chunks[d] + Pending(tasks, d) <= 1 + faults /\ chunks[d] \in Nat
          /\ faults \in Nat /\ tasks \in Seq(TaskRecords)
      BY <2>1 DEF IInv, TypeOK, Budget
    <3>2. Pending(tasks, d) \in Nat
      BY <3>1, UnfinishedFinite
    <3>. QED
      BY <3>1, <3>2
  <2>. QED
    BY <2>1 DEF DuplicatesNeedFaults
<1>. QED
  BY <1>1, Inductive, PTL
\* Without faults the status a document ends with is true, whatever the order of its
\* tasks, their retries and its deletion: "ready" with one batch of chunks or "failed"
\* with none (the last UpdateStatus of document.go and embedding.go); it stays "pending"
\* only where no handler is registered (cmd/worker/main.go) and "processing" only when
\* the embedding was refused for its payload (embedding.go:41).
THEOREM StatusIsHonest == Spec => []HonestOutcome
<1>1. Init => HonestOutcome
  BY DEF Init, HonestOutcome
<1>2. Init => Deployed
  BY DEF Init, Deployed, Marked, Unhandled
<1>. QED
  BY <1>1, <1>2, Inductive, DeployedNext, HonestNext, PTL DEF Spec

-----------------------------------------------------------------------------
(***************************************************************************)
(* The chunkers.  Whatever they do is cutting intervals out of intervals, so*)
(* that the proofs follow three facts through them: the intervals stay inside*)
(* what was cut, they are in its order with gaps between them, and each letter*)
(* is in one of them.                                                      *)
(***************************************************************************)
Extents == [from : Int, to : Int]

\* Dropping the blank cuts keeps the others and their order.
LEMMA NonBlankFacts ==
    ASSUME NEW txt, NEW S, NEW cs \in Seq(S), NEW R, Ranked(cs, R)
    PROVE  /\ NonBlank(txt, cs) \in Seq(S) /\ Ranked(NonBlank(txt, cs), R)
           /\ \A c : c \in ToSet(NonBlank(txt, cs)) <=> c \in ToSet(cs) /\ Content(txt, c) # {}
<1>. DEFINE n == Len(cs)
            B == Seq(S)
            base == <<>>
            Keep(kept, cut) == IF Content(txt, cut) = {} THEN kept ELSE Append(kept, cut)
            F == [p \in B \X (1..n) |-> Keep(p[1], cs[p[2]])]
            IsIter(iter) == iter = [s \in SUBSET DOMAIN cs |->
                IF s = {} THEN base ELSE Keep(iter[s \ {Max(s)}], cs[Max(s)])]
            iter == CHOOSE iter : IsIter(iter)
<1>1. n \in Nat /\ DOMAIN cs = 1..n /\ \A k \in 1..n : cs[k] \in S
  OBVIOUS
<1>2. base \in B
  OBVIOUS
<1>3. \A b \in B, c \in S : Keep(b, c) \in B
  OBVIOUS
<1>4. NonBlank(txt, cs) = iter[DOMAIN cs]
  BY DEF NonBlank, FoldLeft, MapThenFoldSet
<1>. HIDE DEF B, base, n, Keep
<1>5. F \in [B \X (1..n) -> B] /\ \A b \in B, k \in 1..n : F[b, k] = Keep(b, cs[k])
  BY <1>1, <1>3
<1>. HIDE DEF F
<1>6. ASSUME NEW g, Folds(B, n, base, F, g) PROVE IsIter(g)
  <2>1. ASSUME NEW s \in SUBSET (1..n)
        PROVE  g[s] = IF s = {} THEN base ELSE Keep(g[s \ {Max(s)}], cs[Max(s)])
    <3>1. CASE s = {}
      BY <1>6, <3>1 DEF Folds
    <3>2. CASE s # {}
      <4>1. Max(s) \in 1..n /\ s \ {Max(s)} \in SUBSET (1..n)
        BY <1>1, <3>2, MaxOfNumbers
      <4>2. g[s \ {Max(s)}] \in B
        BY <1>6, <4>1 DEF Folds
      <4>3. g[s] = F[g[s \ {Max(s)}], Max(s)]
        BY <1>6, <3>2 DEF Folds
      <4>. QED
        BY <1>5, <3>2, <4>1, <4>2, <4>3
    <3>. QED
      BY <3>1, <3>2
  <2>2. g = [s \in SUBSET (1..n) |-> g[s]]
    BY <1>6 DEF Folds
  <2>. QED
    BY <1>1, <2>1, <2>2
<1>7. (\E g : Folds(B, n, base, F, g)) => IsIter(iter)
  <2>. HIDE DEF IsIter
  <2>. QED
    BY <1>6
<1>8. IsIter(iter) => Iterates(B, n, base, F, iter)
  <2>. SUFFICES ASSUME IsIter(iter) PROVE Iterates(B, n, base, F, iter)
    OBVIOUS
  <2>1. \A s \in SUBSET (1..n) :
          iter[s] = IF s = {} THEN base ELSE Keep(iter[s \ {Max(s)}], cs[Max(s)])
    <3>. HIDE DEF iter
    <3>. QED
      BY <1>1
  <2>. HIDE DEF iter, IsIter
  <2>2. iter[{}] = base
    <3>1. {} \in SUBSET (1..n)
      OBVIOUS
    <3>. QED
      BY <2>1, <3>1
  <2>3. ASSUME NEW s \in SUBSET (1..n), s # {}, iter[s \ {Max(s)}] \in B
        PROVE  iter[s] = F[iter[s \ {Max(s)}], Max(s)]
    <3>1. Max(s) \in 1..n
      BY <1>1, <2>3, MaxOfNumbers
    <3>. QED
      BY <1>5, <2>1, <2>3, <3>1
  <2>. QED
    BY <2>2, <2>3 DEF Iterates
<1>. HIDE DEF iter, IsIter
<1>9. PICK f : FoldSteps(B, n, base, F, f) /\ f[n] = iter[1..n]
  <2>1. \E g : Folds(B, n, base, F, g)
    BY <1>1, <1>2, <1>5, FoldExists
  <2>2. Iterates(B, n, base, F, iter)
    BY <1>7, <1>8, <2>1
  <2>3. FoldsTo(B, n, base, F, iter[1..n])
    BY <1>1, <1>2, <1>5, <2>2, FoldRuns
  <2>. QED
    BY <2>3 DEF FoldsTo
<1>10. NonBlank(txt, cs) = f[n]
  BY <1>1, <1>4, <1>9
<1>. DEFINE Good(k) == /\ f[k] \in Seq(S) /\ Ranked(f[k], R)
                       /\ \A c : c \in ToSet(f[k]) <=> /\ \E i \in 1..k : c = cs[i]
                                                       /\ Content(txt, c) # {}
            T == {k \in Nat : k <= n => Good(k)}
<1>11. 0 \in T
  <2>1. f[0] = <<>>
    BY <1>9 DEF FoldSteps, base
  <2>2. Good(0)
    BY <2>1, NoneRanked
  <2>. QED
    BY <2>2
<1>12. ASSUME NEW k \in Nat, k \in T PROVE k + 1 \in T
  <2>1. ASSUME k + 1 <= n PROVE Good(k + 1)
    <3>1. k + 1 \in 1..n /\ (k + 1) - 1 = k /\ k <= n /\ k \in 0..n
      BY <1>1, <2>1
    <3>2. Good(k)
      BY <1>12, <3>1
    <3>3. f[k] \in B /\ f[k + 1] = F[f[k], k + 1]
      BY <1>9, <3>1 DEF FoldSteps
    <3>4. f[k + 1] = Keep(f[k], cs[k + 1]) /\ cs[k + 1] \in S
      BY <1>1, <1>5, <3>1, <3>3
    <3>5. \A i : i \in 1..k + 1 <=> i \in 1..k \/ i = k + 1
      OBVIOUS
    <3>6. CASE Content(txt, cs[k + 1]) = {}
      <4>1. f[k + 1] = f[k]
        BY <3>4, <3>6 DEF Keep
      <4>. QED
        BY <3>2, <3>5, <3>6, <4>1
    <3>7. CASE Content(txt, cs[k + 1]) # {}
      <4>1. PICK s \in Seq(S), x \in S : s = f[k] /\ x = cs[k + 1]
        BY <3>2, <3>4
      <4>2. f[k + 1] = Append(s, x) /\ Ranked(s, R)
        BY <3>2, <3>4, <3>7, <4>1 DEF Keep
      <4>3. Precedes(s, x, R)
        <5>1. ASSUME NEW c \in ToSet(s) PROVE <<c, x>> \in R
          <6>1. PICK i \in 1..k : c = cs[i]
            BY <3>2, <4>1
          <6>2. i \in 1..Len(cs) /\ k + 1 \in 1..Len(cs) /\ i < k + 1
            BY <1>1, <3>1 DEF n
          <6>. QED
            BY <4>1, <6>1, <6>2 DEF Ranked
        <5>. QED
          BY <5>1 DEF Precedes
      <4>4. Extended(S, s, x, R, Append(s, x))
        <5>. HIDE DEF Good, T
        <5>. QED
          BY <4>2, <4>3, AppendRanked
      <4>5. ASSUME NEW c
            PROVE  c \in ToSet(f[k + 1]) <=> (\E i \in 1..k + 1 : c = cs[i]) /\ Content(txt, c) # {}
        <5>1. c \in ToSet(f[k + 1]) <=> c \in ToSet(s) \/ c = x
          BY <4>2, <4>4 DEF Extended
        <5>2. c \in ToSet(s) <=> (\E i \in 1..k : c = cs[i]) /\ Content(txt, c) # {}
          BY <3>2, <4>1
        <5>. QED
          BY <3>5, <3>7, <4>1, <5>1, <5>2
      <4>. QED
        BY <4>2, <4>4, <4>5 DEF Extended
    <3>. QED
      <4>. HIDE DEF Good
      <4>. QED
        BY <3>6, <3>7
  <2>. HIDE DEF Good
  <2>. QED
    BY <2>1
<1>13. Good(n)
  <2>1. n \in T
    <3>. HIDE DEF T
    <3>. QED
      BY <1>1, <1>11, <1>12, SetInduction
  <2>. HIDE DEF Good
  <2>. QED
    BY <1>1, <2>1
<1>14. \A c : c \in ToSet(cs) <=> \E i \in 1..n : c = cs[i]
  BY <1>1 DEF ToSet
<1>. QED
  BY <1>10, <1>13, <1>14

\* An interval that ends where, or just before, it starts is empty.
Inside(C) == {c \in Extents : C.from <= c.from /\ c.to <= C.to /\ c.from <= c.to + 1}
Gap(d) == {p \in Extents \X Extents : p[1].to + d < p[2].from}
Lettered(txt, from, to, cs) ==
    \A i \in from..to : txt[i] = Letter => \E c \in ToSet(cs) : i \in Positions(c)

\* A part of a text.
PartOf(txt, C) ==
    /\ C \in Extents /\ C.from <= C.to + 1 /\ 1 <= C.from /\ C.to <= Len(txt)
    /\ txt \in Seq({Letter, Space, NewLine, Stop})

\* Part of C, cut into intervals with gaps of more than d between them.
Splitting(txt, C, d, cs) ==
    cs \in Seq(Inside(C)) /\ Ranked(cs, Gap(d)) /\ Lettered(txt, C.from, C.to, cs)

SplitStates(txt, C, d) ==
    {b \in [done : Seq(Inside(C)), from : Int] :
        /\ C.from <= b.from /\ b.from <= C.to + 1
        /\ Ranked(b.done, Gap(d)) /\ \A c \in ToSet(b.done) : c.to + d < b.from
        /\ Lettered(txt, C.from, b.from - 1, b.done)}

SeparatorOf(sep) == Len(sep) \in Nat \ {0} /\ \A j \in 1..Len(sep) : sep[j] # Letter

\* The cut before a separator.
LEMMA CutBefore ==
    ASSUME NEW txt, NEW C, PartOf(txt, C), NEW d \in Nat, NEW b \in SplitStates(txt, C, d),
           NEW i \in Int, b.from <= i, i <= C.to + 1, NEW s, s = Append(b.done, Cut(b.from, i - 1))
    PROVE  /\ s \in Seq(Inside(C)) /\ Ranked(s, Gap(d)) /\ Lettered(txt, C.from, i - 1, s)
           /\ \A c \in ToSet(s) : c.to < i /\ c.to + d < i + d
<1>1. /\ C.from \in Int /\ C.to \in Int /\ b.from \in Int /\ b.done \in Seq(Inside(C))
      /\ C.from <= b.from /\ Ranked(b.done, Gap(d)) /\ \A c \in ToSet(b.done) : c.to + d < b.from
      /\ Lettered(txt, C.from, b.from - 1, b.done)
  BY DEF SplitStates, PartOf, Extents
<1>2. PICK x \in Extents : x = Cut(b.from, i - 1) /\ x.from = b.from /\ x.to = i - 1
  BY <1>1 DEF Cut, Extents
<1>3. x \in Inside(C)
  BY <1>1, <1>2 DEF Inside
<1>4. ASSUME NEW c \in ToSet(b.done) PROVE c \in Extents /\ c.to \in Int /\ c.to < b.from
  <2>1. c \in Inside(C)
    BY <1>1 DEF ToSet
  <2>. QED
    BY <1>1, <2>1 DEF Inside, Extents
<1>5. Precedes(b.done, x, Gap(d))
  BY <1>1, <1>2, <1>4 DEF Precedes, Gap
<1>6. PICK done \in Seq(Inside(C)) : done = b.done
  BY <1>1
<1>7. Extended(Inside(C), done, x, Gap(d), Append(done, x))
  BY <1>1, <1>3, <1>5, <1>6, AppendRanked
<1>8. /\ s \in Seq(Inside(C)) /\ Ranked(s, Gap(d))
      /\ \A c : c \in ToSet(s) <=> c \in ToSet(b.done) \/ c = x
  BY <1>2, <1>6, <1>7 DEF Extended
<1>9. Lettered(txt, C.from, i - 1, s)
  <2>. SUFFICES ASSUME NEW j \in C.from..i - 1, txt[j] = Letter PROVE \E c \in ToSet(s) : j \in Positions(c)
    BY DEF Lettered
  <2>1. CASE j \in C.from..b.from - 1
    BY <1>1, <1>8, <2>1 DEF Lettered
  <2>2. CASE j \in b.from..i - 1
    BY <1>2, <1>8, <2>2 DEF Positions
  <2>. QED
    BY <1>1, <2>1, <2>2
<1>10. ASSUME NEW c \in ToSet(s) PROVE c.to < i /\ c.to + d < i + d
  <2>1. c.to \in Int /\ (c.to < b.from \/ c.to = i - 1)
    BY <1>2, <1>4, <1>8
  <2>. QED
    BY <1>1, <2>1
<1>. QED
  BY <1>8, <1>9, <1>10

\* The separator has no letters.
LEMMA SkipSeparator ==
    ASSUME NEW txt, NEW C, PartOf(txt, C), NEW sep, SeparatorOf(sep),
           NEW b \in SplitStates(txt, C, Len(sep)), NEW i \in Int, b.from <= i,
           i + Len(sep) - 1 <= C.to, SubSeq(txt, i, i + Len(sep) - 1) = sep
    PROVE  [done |-> Append(b.done, Cut(b.from, i - 1)), from |-> i + Len(sep)]
               \in SplitStates(txt, C, Len(sep))
<1>1. PICK d \in Nat : d = Len(sep) /\ d # 0
  BY DEF SeparatorOf
<1>2. /\ C.from \in Int /\ C.to \in Int /\ b.from \in Int /\ 1 <= C.from /\ C.from <= b.from
      /\ C.to <= Len(txt) /\ txt \in Seq({Letter, Space, NewLine, Stop})
  BY DEF SplitStates, PartOf, Extents
<1>3. PICK s : s = Append(b.done, Cut(b.from, i - 1))
  OBVIOUS
<1>4. i <= C.to + 1 /\ b \in SplitStates(txt, C, d)
  BY <1>1, <1>2
<1>5. /\ s \in Seq(Inside(C)) /\ Ranked(s, Gap(d)) /\ Lettered(txt, C.from, i - 1, s)
      /\ \A c \in ToSet(s) : c.to < i /\ c.to + d < i + d
  BY <1>3, <1>4, CutBefore
<1>6. ASSUME NEW j \in i..i + d - 1 PROVE txt[j] # Letter
  <2>1. j - i + 1 \in 1..d /\ i + (j - i + 1) - 1 = j /\ i \in 1..Len(txt) + 1 /\ i + d - 1 \in i - 1..Len(txt)
    BY <1>1, <1>2
  <2>2. SubSeq(txt, i, i + d - 1)[j - i + 1] = txt[j]
    BY <1>1, <1>2, <2>1, SubSeqProperties
  <2>. QED
    BY <1>1, <2>1, <2>2 DEF SeparatorOf
<1>7. Lettered(txt, C.from, (i + d) - 1, s)
  <2>1. ASSUME NEW j \in C.from..(i + d) - 1 PROVE j \in C.from..i - 1 \/ j \in i..i + d - 1
    BY <1>2
  <2>. QED
    BY <1>5, <1>6, <2>1 DEF Lettered
<1>8. PICK r : r = [done |-> s, from |-> i + d]
  OBVIOUS
<1>9. r \in [done : Seq(Inside(C)), from : Int] /\ r.done = s /\ r.from = i + d
  BY <1>5, <1>8
<1>10. C.from <= i + d /\ i + d <= C.to + 1
  BY <1>1, <1>2
<1>11. r \in SplitStates(txt, C, d)
  BY <1>5, <1>7, <1>9, <1>10 DEF SplitStates
<1>. QED
  BY <1>1, <1>3, <1>8, <1>11

\* strings.Split: the parts have the separators between them and lose no letter.
LEMMA SplitAtFacts ==
    ASSUME NEW txt, NEW C, PartOf(txt, C), NEW sep, SeparatorOf(sep)
    PROVE  Splitting(txt, C, Len(sep), SplitAt(txt, sep, C)) /\ SplitAt(txt, sep, C) # <<>>
<1>. DEFINE n == Size(C)
            B == SplitStates(txt, C, Len(sep))
            base == [done |-> <<>>, from |-> C.from]
            Found(i) == i + Len(sep) - 1 <= C.to /\ SubSeq(txt, i, i + Len(sep) - 1) = sep
            Go(p, i) == IF i >= p.from /\ Found(i)
                        THEN [done |-> Append(p.done, Cut(p.from, i - 1)), from |-> i + Len(sep)]
                        ELSE p
            pos == [k \in 1..Size(C) |-> C.from + k - 1]
            F == [p \in B \X (1..n) |-> Go(p[1], pos[p[2]])]
            IsIter(iter) == iter = [s \in SUBSET DOMAIN pos |->
                IF s = {} THEN base ELSE Go(iter[s \ {Max(s)}], pos[Max(s)])]
            iter == CHOOSE iter : IsIter(iter)
<1>0. C.from \in Int /\ C.to \in Int /\ C.from <= C.to + 1
  BY DEF PartOf, Extents
<1>1. n \in Nat /\ DOMAIN pos = 1..n /\ \A k \in 1..n : pos[k] \in Int
  BY <1>0 DEF Size
<1>2. base \in B
  <2>1. <<>> \in Seq(Inside(C)) /\ Ranked(<<>>, Gap(Len(sep))) /\ ToSet(<<>>) = {}
    BY NoneRanked
  <2>2. Lettered(txt, C.from, C.from - 1, <<>>)
    BY <1>0 DEF Lettered
  <2>3. base \in [done : Seq(Inside(C)), from : Int] /\ base.done = <<>> /\ base.from = C.from
    BY <1>0, <2>1
  <2>. HIDE DEF base
  <2>. QED
    BY <1>0, <2>1, <2>2, <2>3 DEF SplitStates
<1>3. ASSUME NEW b \in B, NEW i \in Int PROVE Go(b, i) \in B
  <2>1. CASE i >= b.from /\ Found(i)
    <3>1. b.from <= i /\ i + Len(sep) - 1 <= C.to /\ SubSeq(txt, i, i + Len(sep) - 1) = sep
      <4>1. b.from \in Int
        BY DEF SplitStates
      <4>. QED
        BY <2>1, <4>1
    <3>2. [done |-> Append(b.done, Cut(b.from, i - 1)), from |-> i + Len(sep)] \in B
      BY <3>1, SkipSeparator
    <3>. QED
      BY <2>1, <3>2
  <2>. QED
    BY <2>1
<1>4. SplitAt(txt, sep, C) = Append(iter[DOMAIN pos].done, Cut(iter[DOMAIN pos].from, C.to))
  BY DEF SplitAt, FoldLeft, MapThenFoldSet
<1>. HIDE DEF B, base, n, Go, pos
<1>5. F \in [B \X (1..n) -> B] /\ \A b \in B, k \in 1..n : F[b, k] = Go(b, pos[k])
  BY <1>1, <1>3
<1>. HIDE DEF F
<1>6. ASSUME NEW g, Folds(B, n, base, F, g) PROVE IsIter(g)
  <2>1. ASSUME NEW s \in SUBSET (1..n)
        PROVE  g[s] = IF s = {} THEN base ELSE Go(g[s \ {Max(s)}], pos[Max(s)])
    <3>1. CASE s = {}
      BY <1>6, <3>1 DEF Folds
    <3>2. CASE s # {}
      <4>1. Max(s) \in 1..n /\ s \ {Max(s)} \in SUBSET (1..n)
        BY <1>1, <3>2, MaxOfNumbers
      <4>2. g[s \ {Max(s)}] \in B
        BY <1>6, <4>1 DEF Folds
      <4>3. g[s] = F[g[s \ {Max(s)}], Max(s)]
        BY <1>6, <3>2 DEF Folds
      <4>. QED
        BY <1>5, <3>2, <4>1, <4>2, <4>3
    <3>. QED
      BY <3>1, <3>2
  <2>2. g = [s \in SUBSET (1..n) |-> g[s]]
    BY <1>6 DEF Folds
  <2>. QED
    BY <1>1, <2>1, <2>2
<1>7. (\E g : Folds(B, n, base, F, g)) => IsIter(iter)
  <2>. HIDE DEF IsIter
  <2>. QED
    BY <1>6
<1>8. IsIter(iter) => Iterates(B, n, base, F, iter)
  <2>. SUFFICES ASSUME IsIter(iter) PROVE Iterates(B, n, base, F, iter)
    OBVIOUS
  <2>1. \A s \in SUBSET (1..n) :
          iter[s] = IF s = {} THEN base ELSE Go(iter[s \ {Max(s)}], pos[Max(s)])
    <3>. HIDE DEF iter
    <3>. QED
      BY <1>1
  <2>. HIDE DEF iter, IsIter
  <2>2. iter[{}] = base
    <3>1. {} \in SUBSET (1..n)
      OBVIOUS
    <3>. QED
      BY <2>1, <3>1
  <2>3. ASSUME NEW s \in SUBSET (1..n), s # {}, iter[s \ {Max(s)}] \in B
        PROVE  iter[s] = F[iter[s \ {Max(s)}], Max(s)]
    <3>1. Max(s) \in 1..n
      BY <1>1, <2>3, MaxOfNumbers
    <3>. QED
      BY <1>5, <2>1, <2>3, <3>1
  <2>. QED
    BY <2>2, <2>3 DEF Iterates
<1>. HIDE DEF iter, IsIter
<1>9. PICK f : FoldSteps(B, n, base, F, f) /\ f[n] = iter[1..n]
  <2>1. \E g : Folds(B, n, base, F, g)
    BY <1>1, <1>2, <1>5, FoldExists
  <2>2. Iterates(B, n, base, F, iter)
    BY <1>7, <1>8, <2>1
  <2>3. FoldsTo(B, n, base, F, iter[1..n])
    BY <1>1, <1>2, <1>5, <2>2, FoldRuns
  <2>. QED
    BY <2>3 DEF FoldsTo
<1>10. PICK b \in B : b = iter[1..n]
  <2>1. f[n] \in B
    <3>1. f \in [0..n -> B]
      BY <1>9 DEF FoldSteps
    <3>2. n \in 0..n
      BY <1>1
    <3>. QED
      BY <3>1, <3>2
  <2>. QED
    BY <1>9, <2>1
<1>11. PICK s : s = Append(b.done, Cut(b.from, C.to))
  OBVIOUS
<1>12. SplitAt(txt, sep, C) = s
  BY <1>1, <1>4, <1>10, <1>11
<1>13. PICK i \in Int, d \in Nat : i = C.to + 1 /\ d = Len(sep)
  BY <1>0 DEF SeparatorOf
<1>14. /\ b.from <= i /\ i <= C.to + 1 /\ i - 1 = C.to /\ b \in SplitStates(txt, C, d)
       /\ s = Append(b.done, Cut(b.from, i - 1))
  <2>1. i - 1 = C.to /\ i <= C.to + 1
    BY <1>0, <1>13
  <2>2. b \in SplitStates(txt, C, d)
    BY <1>10, <1>13 DEF B
  <2>3. b.from <= C.to + 1
    BY <2>2 DEF SplitStates
  <2>. QED
    BY <1>11, <1>13, <2>1, <2>2, <2>3
<1>15. s \in Seq(Inside(C)) /\ Ranked(s, Gap(d)) /\ Lettered(txt, C.from, i - 1, s)
  BY <1>14, CutBefore
<1>16. s # <<>>
  <2>1. b.done \in Seq(Inside(C))
    BY <1>14 DEF SplitStates
  <2>2. Len(s) = Len(b.done) + 1 /\ Len(b.done) \in Nat
    BY <1>11, <2>1
  <2>. QED
    BY <2>2, EmptySeq
<1>. QED
  BY <1>12, <1>13, <1>14, <1>15, <1>16 DEF Splitting

\* Intervals that are not empty.
Solid(C) == {c \in Inside(C) : c.from <= c.to}

Holds(cs, i) == \E c \in ToSet(cs) : i \in Positions(c)

\* Parts in order.
Parted(C, P) == P \in Seq(Inside(C)) /\ Ranked(P, Gap(0))

\* What they are joined to, in order too and with all that was in them.
Merging(C, P, u) ==
    /\ u \in Seq(Solid(C)) /\ Ranked(u, Gap(0))
    /\ \A h \in 1..Len(P) : \A i \in Positions(P[h]) : Holds(u, i)

\* The same for the first k parts and what is in hand, all of it before the other parts.
MergeStates == [done : Seq(Extents), current : Extents]

Done(C, m) == m.done \in Seq(Solid(C)) /\ Ranked(m.done, Gap(0))

HeldCurrent(C, m) ==
    Size(m.current) # 0 => m.current \in Solid(C) /\ Precedes(m.done, m.current, Gap(0))

Behind(P, k, m) ==
    \A h \in k + 1..Len(P) :
        Precedes(m.done, P[h], Gap(0)) /\ (Size(m.current) # 0 => <<m.current, P[h]>> \in Gap(0))

Gathered(P, k, m) ==
    \A h \in 1..k : \A i \in Positions(P[h]) :
        Holds(m.done, i) \/ (Size(m.current) # 0 /\ i \in Positions(m.current))

MergeGood(C, P, k, m) ==
    m \in MergeStates /\ Done(C, m) /\ HeldCurrent(C, m) /\ Behind(P, k, m) /\ Gathered(P, k, m)

Join(m, p, sz) ==
    IF Size(m.current) = 0 THEN [m EXCEPT !.current = p]
    ELSE IF p.to - m.current.from + 1 > sz
      THEN [done |-> Append(m.done, m.current), current |-> p]
    ELSE [m EXCEPT !.current.to = p.to]

\* An interval inside C is empty or solid.
LEMMA SizeFacts ==
    ASSUME NEW C, C \in Extents, NEW c \in Inside(C)
    PROVE  /\ c \in Extents /\ c.from \in Int /\ c.to \in Int /\ C.from \in Int /\ C.to \in Int
           /\ C.from <= c.from /\ c.to <= C.to /\ Size(c) \in Nat
           /\ (Size(c) # 0 <=> c \in Solid(C)) /\ (Size(c) # 0 <=> c.from <= c.to)
           /\ (Size(c) = 0 => Positions(c) = {})
BY DEF Inside, Extents, Size, Solid, Positions

\* What is held after an interval is put to others.
LEMMA HoldsAppended ==
    ASSUME NEW S, NEW s, NEW x, NEW R, NEW t, Extended(S, s, x, R, t), NEW i
    PROVE  Holds(t, i) <=> Holds(s, i) \/ i \in Positions(x)
BY DEF Holds, Extended

\* Putting the interval in hand to the others.
LEMMA PutDown ==
    ASSUME NEW C, C \in Extents, NEW P, NEW k \in Nat, NEW m, MergeGood(C, P, k, m), Size(m.current) # 0,
           NEW u, u = Append(m.done, m.current)
    PROVE  Extended(Solid(C), m.done, m.current, Gap(0), u)
<1>1. /\ m.current \in Solid(C) /\ Precedes(m.done, m.current, Gap(0))
      /\ m.done \in Seq(Solid(C)) /\ Ranked(m.done, Gap(0))
  BY DEF MergeGood, HeldCurrent, Done
<1>2. PICK s \in Seq(Solid(C)), x \in Solid(C) : s = m.done /\ x = m.current
  BY <1>1
<1>3. Extended(Solid(C), s, x, Gap(0), Append(s, x))
  BY <1>1, <1>2, AppendRanked
<1>. QED
  BY <1>2, <1>3

\* One step of the loop of Merge: the part is taken in hand, or joined to what is.
LEMMA JoinKeeps ==
    ASSUME NEW C, C \in Extents, NEW P, Parted(C, P), NEW k \in Nat, k + 1 <= Len(P), NEW sz \in Nat,
           NEW m, MergeGood(C, P, k, m), NEW m2, m2 = Join(m, P[k + 1], sz)
    PROVE  MergeGood(C, P, k + 1, m2)
<1>. DEFINE p == P[k + 1]
<1>1. /\ Len(P) \in Nat /\ k + 1 \in 1..Len(P) /\ p \in Inside(C)
      /\ \A h \in 1..Len(P) : P[h] \in Inside(C)
  BY DEF Parted
<1>2. /\ p \in Extents /\ p.from \in Int /\ p.to \in Int /\ p.from <= p.to + 1 /\ Size(p) \in Nat
      /\ (Size(p) # 0 <=> p \in Solid(C)) /\ (Size(p) = 0 => Positions(p) = {})
  BY <1>1, SizeFacts DEF Inside
<1>3. ASSUME NEW h \in (k + 1) + 1..Len(P)
      PROVE  h \in k + 1..Len(P) /\ <<p, P[h]>> \in Gap(0) /\ P[h] \in Extents /\ p.to < P[h].from
             /\ P[h].from \in Int
  <2>1. h \in 1..Len(P) /\ k + 1 < h
    BY <1>1
  <2>2. <<p, P[h]>> \in Gap(0)
    BY <1>1, <2>1 DEF Parted, Ranked
  <2>3. P[h] \in Extents
    BY <1>1, <2>1, SizeFacts
  <2>. QED
    BY <1>1, <1>2, <2>1, <2>2, <2>3 DEF Gap, Extents
<1>4. ASSUME NEW h \in 1..k + 1 PROVE h \in 1..k \/ h = k + 1
  OBVIOUS
<1>5. /\ m \in MergeStates /\ m.done \in Seq(Extents) /\ m.current \in Extents
      /\ m = [done |-> m.done, current |-> m.current]
  BY DEF MergeGood, MergeStates
<1>. HIDE DEF p
<1>6. CASE Size(m.current) = 0
  <2>1. m2 \in MergeStates /\ m2.done = m.done /\ m2.current = p
    BY <1>2, <1>5, <1>6 DEF Join, MergeStates, p
  <2>2. Done(C, m2)
    BY <2>1 DEF MergeGood, Done
  <2>3. Precedes(m.done, p, Gap(0))
    <3>1. k + 1 \in k + 1..Len(P)
      BY <1>1
    <3>. QED
      BY <3>1 DEF MergeGood, Behind, p
  <2>4. HeldCurrent(C, m2)
    BY <1>2, <2>1, <2>3 DEF HeldCurrent
  <2>5. Behind(P, k + 1, m2)
    BY <1>3, <2>1 DEF MergeGood, Behind
  <2>6. Gathered(P, k + 1, m2)
    <3>1. ASSUME NEW h \in 1..k + 1, NEW i \in Positions(P[h])
          PROVE  Holds(m2.done, i) \/ (Size(m2.current) # 0 /\ i \in Positions(m2.current))
      <4>1. CASE h \in 1..k
        BY <1>6, <2>1, <4>1 DEF MergeGood, Gathered
      <4>2. CASE h = k + 1
        BY <1>2, <2>1, <4>2 DEF p
      <4>. QED
        BY <1>4, <4>1, <4>2
    <3>. QED
      BY <3>1 DEF Gathered
  <2>. QED
    BY <2>1, <2>2, <2>4, <2>5, <2>6 DEF MergeGood
<1>7. CASE Size(m.current) # 0 /\ p.to - m.current.from + 1 > sz
  <2>1. PICK u : u = Append(m.done, m.current)
    OBVIOUS
  <2>2. m2 \in MergeStates /\ m2.done = u /\ m2.current = p
    <3>1. m2 = [done |-> u, current |-> p]
      BY <1>7, <2>1 DEF Join, p
    <3>2. u \in Seq(Extents)
      BY <1>5, <2>1
    <3>. QED
      BY <1>2, <3>1, <3>2 DEF MergeStates
  <2>3. Extended(Solid(C), m.done, m.current, Gap(0), u)
    BY <1>7, <2>1, PutDown
  <2>4. Done(C, m2)
    BY <2>2, <2>3 DEF Extended, Done
  <2>5. ASSUME NEW h \in k + 1..Len(P) PROVE Precedes(u, P[h], Gap(0))
    <3>1. Precedes(m.done, P[h], Gap(0)) /\ <<m.current, P[h]>> \in Gap(0)
      BY <1>7, <2>5 DEF MergeGood, Behind
    <3>. QED
      BY <2>3, <3>1 DEF Precedes, Extended
  <2>6. HeldCurrent(C, m2)
    <3>1. k + 1 \in k + 1..Len(P)
      BY <1>1
    <3>. QED
      BY <1>2, <2>2, <2>5, <3>1 DEF HeldCurrent, p
  <2>7. Behind(P, k + 1, m2)
    BY <1>3, <2>2, <2>5 DEF Behind
  <2>8. Gathered(P, k + 1, m2)
    <3>1. ASSUME NEW h \in 1..k + 1, NEW i \in Positions(P[h])
          PROVE  Holds(m2.done, i) \/ (Size(m2.current) # 0 /\ i \in Positions(m2.current))
      <4>0. Holds(u, i) <=> Holds(m.done, i) \/ i \in Positions(m.current)
        BY <2>3, HoldsAppended
      <4>1. CASE h \in 1..k
        BY <2>2, <4>0, <4>1 DEF MergeGood, Gathered
      <4>2. CASE h = k + 1
        BY <1>2, <2>2, <4>2 DEF p
      <4>. QED
        BY <1>4, <4>1, <4>2
    <3>. QED
      BY <3>1 DEF Gathered
  <2>. QED
    BY <2>2, <2>4, <2>6, <2>7, <2>8 DEF MergeGood
<1>8. CASE Size(m.current) # 0 /\ ~(p.to - m.current.from + 1 > sz)
  <2>1. PICK c : c = m.current
    OBVIOUS
  <2>2. /\ c \in Solid(C) /\ Precedes(m.done, c, Gap(0)) /\ c.from \in Int /\ c.to \in Int
        /\ C.from \in Int /\ C.to \in Int /\ C.from <= c.from /\ c.from <= c.to
    BY <1>8, <2>1 DEF MergeGood, HeldCurrent, Solid, Inside, Extents
  <2>3. c.to < p.from
    <3>1. k + 1 \in k + 1..Len(P)
      BY <1>1
    <3>2. <<c, p>> \in Gap(0)
      BY <1>8, <2>1, <3>1 DEF MergeGood, Behind, p
    <3>. QED
      BY <2>2, <3>2 DEF Gap
  <2>4. PICK r \in Extents : r = [from |-> c.from, to |-> p.to] /\ r.from = c.from /\ r.to = p.to
    <3>1. PICK x, y : x = c.from /\ y = p.to
      OBVIOUS
    <3>2. x \in Int /\ y \in Int
      BY <1>2, <2>2, <3>1
    <3>3. [from |-> x, to |-> y] \in Extents
      BY <3>2 DEF Extents
    <3>. QED
      BY <3>1, <3>3
  <2>5. m2 \in MergeStates /\ m2.done = m.done /\ m2.current = r
    <3>1. [m.current EXCEPT !.to = p.to] = r
      BY <2>1, <2>2, <2>4 DEF Solid, Inside, Extents
    <3>2. m2 = [m EXCEPT !.current.to = p.to]
      BY <1>8 DEF Join, p
    <3>3. m2 = [done |-> m.done, current |-> r]
      BY <1>5, <3>1, <3>2
    <3>. QED
      BY <1>5, <2>4, <3>3 DEF MergeStates
  <2>6. r \in Solid(C) /\ p.to <= C.to /\ c.to <= p.to
    <3>1. p.to <= C.to
      BY <1>1, SizeFacts
    <3>2. c.to <= p.to
      BY <1>2, <2>2, <2>3
    <3>3. C.from <= r.from /\ r.to <= C.to /\ r.from <= r.to /\ r.from <= r.to + 1
      BY <1>2, <2>2, <2>4, <3>1, <3>2
    <3>4. r \in Inside(C)
      BY <2>4, <3>3 DEF Inside
    <3>. QED
      BY <3>1, <3>2, <3>3, <3>4 DEF Solid
  <2>7. Done(C, m2)
    BY <2>5 DEF MergeGood, Done
  <2>8. HeldCurrent(C, m2)
    <3>1. Precedes(m.done, r, Gap(0))
      BY <2>2, <2>4 DEF Precedes, Gap
    <3>. QED
      BY <2>5, <2>6, <3>1 DEF HeldCurrent
  <2>9. Behind(P, k + 1, m2)
    <3>1. ASSUME NEW h \in (k + 1) + 1..Len(P) PROVE <<r, P[h]>> \in Gap(0)
      BY <1>2, <1>3, <2>4, <3>1 DEF Gap
    <3>. QED
      BY <1>3, <2>5, <3>1 DEF MergeGood, Behind
  <2>10. Size(r) # 0
    BY <2>4, <2>6, SizeFacts DEF Solid
  <2>11. Gathered(P, k + 1, m2)
    <3>1. ASSUME NEW h \in 1..k + 1, NEW i \in Positions(P[h])
          PROVE  Holds(m2.done, i) \/ (Size(m2.current) # 0 /\ i \in Positions(m2.current))
      <4>1. CASE h \in 1..k
        <5>1. Holds(m.done, i) \/ i \in Positions(c)
          BY <2>1, <4>1 DEF MergeGood, Gathered
        <5>2. i \in Positions(c) => i \in Positions(r)
          BY <1>2, <2>2, <2>4, <2>6 DEF Positions
        <5>. QED
          BY <2>5, <2>10, <5>1, <5>2
      <4>2. CASE h = k + 1
        <5>1. i \in Positions(p)
          BY <4>2 DEF p
        <5>2. i \in Positions(r)
          BY <1>2, <2>2, <2>3, <2>4, <5>1 DEF Positions
        <5>. QED
          BY <2>5, <2>10, <5>2
      <4>. QED
        BY <1>4, <4>1, <4>2
    <3>. QED
      BY <3>1 DEF Gathered
  <2>. QED
    BY <2>5, <2>7, <2>8, <2>9, <2>11 DEF MergeGood
<1>. QED
  BY <1>6, <1>7, <1>8

\* Before the first part.
LEMMA NothingMerged ==
    ASSUME NEW C, NEW P, NEW m, m = [done |-> <<>>, current |-> Cut(1, 0)]
    PROVE  MergeGood(C, P, 0, m)
<1>1. m.done = <<>> /\ m.current = Cut(1, 0) /\ m \in MergeStates
  BY DEF Cut, MergeStates, Extents
<1>2. Size(m.current) = 0
  BY <1>1 DEF Size, Cut
<1>3. <<>> \in Seq(Solid(C)) /\ Ranked(<<>>, Gap(0)) /\ ToSet(<<>>) = {}
  BY NoneRanked
<1>4. Done(C, m)
  BY <1>1, <1>3 DEF Done
<1>5. HeldCurrent(C, m)
  BY <1>2 DEF HeldCurrent
<1>6. Behind(P, 0, m)
  BY <1>1, <1>2, <1>3 DEF Behind, Precedes
<1>7. Gathered(P, 0, m)
  BY DEF Gathered
<1>. QED
  BY <1>1, <1>4, <1>5, <1>6, <1>7 DEF MergeGood

\* After the last one: what is in hand is put down.
LEMMA AllMerged ==
    ASSUME NEW C, C \in Extents, NEW P, Parted(C, P), NEW m, MergeGood(C, P, Len(P), m),
           NEW u, u = IF Size(m.current) = 0 THEN m.done ELSE Append(m.done, m.current)
    PROVE  Merging(C, P, u)
<1>0. Len(P) \in Nat
  BY DEF Parted
<1>1. Gathered(P, Len(P), m) /\ m.done \in Seq(Solid(C)) /\ Ranked(m.done, Gap(0))
  BY DEF MergeGood, Done
<1>2. CASE Size(m.current) = 0
  BY <1>1, <1>2 DEF Gathered, Merging
<1>3. CASE Size(m.current) # 0
  <2>1. u = Append(m.done, m.current)
    BY <1>3
  <2>2. Extended(Solid(C), m.done, m.current, Gap(0), u)
    BY <1>0, <1>3, <2>1, PutDown
  <2>3. ASSUME NEW i PROVE Holds(u, i) <=> Holds(m.done, i) \/ i \in Positions(m.current)
    BY <2>2, HoldsAppended
  <2>. QED
    BY <1>1, <2>2, <2>3 DEF Gathered, Merging, Extended
<1>. QED
  BY <1>2, <1>3

\* Merge keeps the order of its parts and all that is in them.
LEMMA MergeFacts ==
    ASSUME NEW C, C \in Extents, NEW P, Parted(C, P), NEW sz \in Nat
    PROVE  Merging(C, P, Merge(P, sz))
<1>. DEFINE n == Len(P)
            B == MergeStates
            base == [done |-> <<>>, current |-> Cut(1, 0)]
            F == [b \in B \X (1..n) |-> Join(b[1], P[b[2]], sz)]
            IsIter(iter) == iter = [s \in SUBSET DOMAIN P |->
                IF s = {} THEN base ELSE Join(iter[s \ {Max(s)}], P[Max(s)], sz)]
            iter == CHOOSE iter : IsIter(iter)
<1>1. n \in Nat /\ DOMAIN P = 1..n /\ \A k \in 1..n : P[k] \in Extents /\ P[k].to \in Int
  BY DEF Parted, Inside, Extents
<1>2. base \in B
  BY DEF MergeStates, Cut, Extents
<1>3. ASSUME NEW b \in B, NEW p \in Extents PROVE Join(b, p, sz) \in B
  <2>1. b.done \in Seq(Extents) /\ b.current \in Extents /\ b = [done |-> b.done, current |-> b.current]
    BY DEF MergeStates
  <2>2. Append(b.done, b.current) \in Seq(Extents)
    BY <2>1
  <2>3. [b EXCEPT !.current = p] \in B
    BY <2>1 DEF MergeStates
  <2>4. [done |-> Append(b.done, b.current), current |-> p] \in B
    BY <2>2 DEF MergeStates
  <2>5. [b EXCEPT !.current.to = p.to] \in B
    <3>1. [b.current EXCEPT !.to = p.to] \in Extents
      BY <2>1 DEF Extents
    <3>. QED
      BY <2>1, <3>1 DEF MergeStates
  <2>. QED
    BY <2>3, <2>4, <2>5 DEF Join
<1>4. Merge(P, sz) = IF Size(iter[DOMAIN P].current) = 0 THEN iter[DOMAIN P].done
                     ELSE Append(iter[DOMAIN P].done, iter[DOMAIN P].current)
  BY DEF Merge, FoldLeft, MapThenFoldSet, Join
<1>. HIDE DEF B, base, n
<1>5. F \in [B \X (1..n) -> B] /\ \A b \in B, k \in 1..n : F[b, k] = Join(b, P[k], sz)
  BY <1>1, <1>3
<1>. HIDE DEF F
<1>6. ASSUME NEW g, Folds(B, n, base, F, g) PROVE IsIter(g)
  <2>1. ASSUME NEW s \in SUBSET (1..n)
        PROVE  g[s] = IF s = {} THEN base ELSE Join(g[s \ {Max(s)}], P[Max(s)], sz)
    <3>1. CASE s = {}
      BY <1>6, <3>1 DEF Folds
    <3>2. CASE s # {}
      <4>1. Max(s) \in 1..n /\ s \ {Max(s)} \in SUBSET (1..n)
        BY <1>1, <3>2, MaxOfNumbers
      <4>2. g[s \ {Max(s)}] \in B
        BY <1>6, <4>1 DEF Folds
      <4>3. g[s] = F[g[s \ {Max(s)}], Max(s)]
        BY <1>6, <3>2 DEF Folds
      <4>. QED
        BY <1>5, <3>2, <4>1, <4>2, <4>3
    <3>. QED
      BY <3>1, <3>2
  <2>2. g = [s \in SUBSET (1..n) |-> g[s]]
    BY <1>6 DEF Folds
  <2>. QED
    BY <1>1, <2>1, <2>2
<1>7. (\E g : Folds(B, n, base, F, g)) => IsIter(iter)
  <2>. HIDE DEF IsIter
  <2>. QED
    BY <1>6
<1>8. IsIter(iter) => Iterates(B, n, base, F, iter)
  <2>. SUFFICES ASSUME IsIter(iter) PROVE Iterates(B, n, base, F, iter)
    OBVIOUS
  <2>1. \A s \in SUBSET (1..n) :
          iter[s] = IF s = {} THEN base ELSE Join(iter[s \ {Max(s)}], P[Max(s)], sz)
    <3>. HIDE DEF iter
    <3>. QED
      BY <1>1
  <2>. HIDE DEF iter, IsIter
  <2>2. iter[{}] = base
    <3>1. {} \in SUBSET (1..n)
      OBVIOUS
    <3>. QED
      BY <2>1, <3>1
  <2>3. ASSUME NEW s \in SUBSET (1..n), s # {}, iter[s \ {Max(s)}] \in B
        PROVE  iter[s] = F[iter[s \ {Max(s)}], Max(s)]
    <3>1. Max(s) \in 1..n
      BY <1>1, <2>3, MaxOfNumbers
    <3>. QED
      BY <1>5, <2>1, <2>3, <3>1
  <2>. QED
    BY <2>2, <2>3 DEF Iterates
<1>. HIDE DEF iter, IsIter
<1>9. PICK f : FoldSteps(B, n, base, F, f) /\ f[n] = iter[1..n]
  <2>1. \E g : Folds(B, n, base, F, g)
    BY <1>1, <1>2, <1>5, FoldExists
  <2>2. Iterates(B, n, base, F, iter)
    BY <1>7, <1>8, <2>1
  <2>3. FoldsTo(B, n, base, F, iter[1..n])
    BY <1>1, <1>2, <1>5, <2>2, FoldRuns
  <2>. QED
    BY <2>3 DEF FoldsTo
<1>. DEFINE T == {k \in Nat : k <= n => MergeGood(C, P, k, f[k])}
<1>10. 0 \in T
  <2>1. f[0] = base
    BY <1>9 DEF FoldSteps
  <2>2. MergeGood(C, P, 0, f[0])
    BY <2>1, NothingMerged DEF base
  <2>. QED
    BY <2>2
<1>11. ASSUME NEW k \in Nat, k \in T PROVE k + 1 \in T
  <2>1. ASSUME k + 1 <= n PROVE MergeGood(C, P, k + 1, f[k + 1])
    <3>1. k + 1 \in 1..n /\ (k + 1) - 1 = k /\ k <= n /\ k \in 0..n
      BY <1>1, <2>1
    <3>2. MergeGood(C, P, k, f[k])
      BY <1>11, <3>1
    <3>3. f[k] \in B /\ f[k + 1] = F[f[k], k + 1]
      BY <1>9, <3>1 DEF FoldSteps
    <3>4. f[k + 1] = Join(f[k], P[k + 1], sz)
      BY <1>5, <3>1, <3>3
    <3>5. k + 1 <= Len(P)
      BY <2>1 DEF n
    <3>. HIDE DEF T
    <3>. QED
      BY <3>2, <3>4, <3>5, JoinKeeps
  <2>. QED
    BY <2>1
<1>12. MergeGood(C, P, n, f[n])
  <2>1. n \in T
    <3>. HIDE DEF T
    <3>. QED
      BY <1>1, <1>10, <1>11, SetInduction
  <2>. QED
    BY <1>1, <2>1
<1>13. PICK m : m = iter[1..n]
  OBVIOUS
<1>14. MergeGood(C, P, Len(P), m)
  BY <1>9, <1>12, <1>13 DEF n
<1>15. Merge(P, sz) = IF Size(m.current) = 0 THEN m.done ELSE Append(m.done, m.current)
  BY <1>1, <1>4, <1>13
<1>. HIDE DEF T
<1>. QED
  BY <1>14, <1>15, AllMerged

\* What comes of one cut when it is split further.
RowOf(txt, cut, row) ==
    /\ row \in Seq(Inside(cut)) /\ Ranked(row, Gap(0))
    /\ Lettered(txt, cut.from, cut.to, row)

\* What is inside something inside C is inside C.
LEMMA InsideInside ==
    ASSUME NEW C, C \in Extents, NEW c \in Inside(C), NEW x \in Inside(c)
    PROVE  x \in Inside(C)
<1>1. c \in Extents /\ x \in Extents
  BY DEF Inside
<1>. QED
  BY <1>1 DEF Inside, Extents

\* A part of a part of the text is a part of the text.
LEMMA PartOfPart ==
    ASSUME NEW txt, NEW C, PartOf(txt, C), NEW c \in Inside(C)
    PROVE  PartOf(txt, c)
<1>1. /\ C \in Extents /\ c \in Extents /\ 1 <= C.from /\ C.to <= Len(txt) /\ C.from <= c.from /\ c.to <= C.to
      /\ c.from <= c.to + 1 /\ txt \in Seq({Letter, Space, NewLine, Stop})
  BY DEF Inside, PartOf
<1>2. C.from \in Int /\ C.to \in Int /\ c.from \in Int /\ c.to \in Int /\ Len(txt) \in Int
  BY <1>1 DEF Extents
<1>3. 1 <= c.from /\ c.to <= Len(txt)
  BY <1>1, <1>2
<1>. QED
  BY <1>1, <1>3 DEF PartOf

\* A splitting whose cuts are split is a splitting.
LEMMA FlattenSplitting ==
    ASSUME NEW txt, NEW C, PartOf(txt, C), NEW cs, Splitting(txt, C, 0, cs),
           NEW rows, DOMAIN rows = DOMAIN cs, rows = [k \in DOMAIN cs |-> rows[k]],
           \A k \in DOMAIN cs : RowOf(txt, cs[k], rows[k])
    PROVE  /\ Splitting(txt, C, 0, FlattenSeq(rows))
           /\ \A c : c \in ToSet(FlattenSeq(rows)) <=> \E k \in DOMAIN cs : c \in ToSet(rows[k])
<1>1. PICK n \in Nat : n = Len(cs) /\ DOMAIN cs = 1..n
  BY DEF Splitting
<1>2. C \in Extents /\ C.from \in Int /\ C.to \in Int
  BY DEF PartOf, Extents
<1>3. ASSUME NEW k \in 1..n
      PROVE  /\ cs[k] \in Inside(C) /\ cs[k] \in Extents /\ RowOf(txt, cs[k], rows[k])
             /\ cs[k].from \in Int /\ cs[k].to \in Int
  <2>1. cs[k] \in Inside(C)
    BY <1>1 DEF Splitting
  <2>. QED
    BY <1>1, <2>1 DEF Inside, Extents
<1>4. ASSUME NEW k \in 1..n, NEW c \in ToSet(rows[k])
      PROVE  c \in Inside(cs[k]) /\ c \in Extents /\ c.from \in Int /\ c.to \in Int
             /\ cs[k].from <= c.from /\ c.to <= cs[k].to /\ c \in Inside(C)
  <2>1. rows[k] \in Seq(Inside(cs[k]))
    BY <1>3 DEF RowOf
  <2>2. c \in Inside(cs[k])
    BY <2>1 DEF ToSet
  <2>3. c \in Inside(C)
    BY <1>2, <1>3, <2>2, InsideInside
  <2>. QED
    BY <2>2, <2>3 DEF Inside, Extents
<1>5. ASSUME NEW k \in 1..n PROVE rows[k] \in Seq(Inside(C))
  <2>1. rows[k] \in Seq(Inside(cs[k]))
    BY <1>3 DEF RowOf
  <2>2. \A x \in Inside(cs[k]) : x \in Inside(C)
    BY <1>2, <1>3, InsideInside
  <2>3. PICK row \in Seq(Inside(cs[k])) : row = rows[k]
    BY <2>1
  <2>4. row \in Seq(Inside(C))
    BY <2>2
  <2>. QED
    BY <2>3, <2>4
<1>6. ASSUME NEW j \in 1..n, NEW k \in 1..n, j < k PROVE AllBefore(ToSet(rows[j]), ToSet(rows[k]), Gap(0))
  <2>1. ASSUME NEW x \in ToSet(rows[j]), NEW y \in ToSet(rows[k]) PROVE <<x, y>> \in Gap(0)
    <3>1. <<cs[j], cs[k]>> \in Gap(0)
      BY <1>1, <1>6 DEF Splitting, Ranked
    <3>2. cs[j].to + 0 < cs[k].from
      BY <3>1 DEF Gap
    <3>3. x \in Extents /\ y \in Extents /\ x.to \in Int /\ y.from \in Int /\ x.to <= cs[j].to /\ cs[k].from <= y.from
      BY <1>4
    <3>4. x.to + 0 < y.from
      <4>1. \A a, b, d, e \in Int : a <= b /\ b + 0 < d /\ d <= e => a + 0 < e
        OBVIOUS
      <4>2. cs[j].to \in Int /\ cs[k].from \in Int
        BY <1>3
      <4>. QED
        BY <3>2, <3>3, <4>1, <4>2
    <3>. QED
      BY <3>3, <3>4 DEF Gap
  <2>. QED
    BY <2>1 DEF AllBefore
<1>7. RowOfRows(Inside(C), n, rows, Gap(0))
  <2>1. rows \in [1..n -> Seq(Inside(C))]
    BY <1>1, <1>5
  <2>2. \A k \in 1..n : Ranked(rows[k], Gap(0))
    BY <1>3 DEF RowOf
  <2>. QED
    BY <1>6, <2>1, <2>2 DEF RowOfRows
<1>8. /\ FlattenSeq(rows) \in Seq(Inside(C)) /\ Ranked(FlattenSeq(rows), Gap(0))
      /\ \A x : x \in ToSet(FlattenSeq(rows)) <=> \E k \in 1..n : x \in ToSet(rows[k])
  BY <1>7, FlattenRanked
<1>9. Lettered(txt, C.from, C.to, FlattenSeq(rows))
  <2>1. ASSUME NEW i \in C.from..C.to, txt[i] = Letter
        PROVE  \E c \in ToSet(FlattenSeq(rows)) : i \in Positions(c)
    <3>1. PICK x \in ToSet(cs) : i \in Positions(x)
      BY <2>1 DEF Splitting, Lettered
    <3>2. PICK k \in 1..n : x = cs[k]
      BY <1>1, <3>1 DEF ToSet
    <3>3. i \in cs[k].from..cs[k].to
      BY <3>1, <3>2 DEF Positions
    <3>4. PICK c \in ToSet(rows[k]) : i \in Positions(c)
      BY <1>3, <2>1, <3>3 DEF RowOf, Lettered
    <3>. QED
      BY <1>8, <3>4
  <2>. QED
    BY <2>1 DEF Lettered
<1>. QED
  BY <1>1, <1>8, <1>9 DEF Splitting

\* A cut that is short enough stays as it is.
LEMMA RowOfOne ==
    ASSUME NEW txt, NEW c \in Extents, c.from <= c.to + 1, NEW row, row = <<c>>
    PROVE  RowOf(txt, c, row)
<1>1. c \in Inside(c)
  BY DEF Inside, Extents
<1>2. row \in Seq(Inside(c)) /\ ToSet(row) = {c}
  BY <1>1 DEF ToSet
<1>3. Ranked(row, Gap(0))
  BY DEF Ranked
<1>4. Lettered(txt, c.from, c.to, row)
  BY <1>2 DEF Lettered, Positions
<1>. QED
  BY <1>2, <1>3, <1>4 DEF RowOf

\* Cuts with gaps between them do not overlap.
LEMMA GapShrinks ==
    ASSUME NEW d \in Nat, NEW s, Ranked(s, Gap(d)), NEW C, s \in Seq(Inside(C))
    PROVE  Ranked(s, Gap(0))
<1>1. ASSUME NEW p \in Gap(d) PROVE p \in Gap(0)
  BY DEF Gap, Extents
<1>. QED
  BY <1>1 DEF Ranked

\* A splitting that is merged again.
LEMMA RowOfMerge ==
    ASSUME NEW txt, NEW C, PartOf(txt, C), NEW P, Splitting(txt, C, 0, P), NEW sz \in Nat
    PROVE  /\ RowOf(txt, C, Merge(P, sz)) /\ Merge(P, sz) \in Seq(Solid(C))
<1>1. C \in Extents /\ Parted(C, P) /\ Len(P) \in Nat /\ DOMAIN P = 1..Len(P)
  BY DEF PartOf, Splitting, Parted
<1>2. PICK u : u = Merge(P, sz)
  OBVIOUS
<1>3. Merging(C, P, u)
  BY <1>1, <1>2, MergeFacts
<1>4. u \in Seq(Solid(C)) /\ Ranked(u, Gap(0))
  BY <1>3 DEF Merging
<1>5. u \in Seq(Inside(C))
  BY <1>4 DEF Solid
<1>6. ASSUME NEW i \in C.from..C.to, txt[i] = Letter PROVE \E c \in ToSet(u) : i \in Positions(c)
  <2>1. PICK x \in ToSet(P) : i \in Positions(x)
    BY <1>6 DEF Splitting, Lettered
  <2>2. PICK h \in 1..Len(P) : x = P[h]
    BY <1>1, <2>1 DEF ToSet
  <2>. QED
    BY <1>3, <2>1, <2>2 DEF Merging, Holds
<1>. QED
  BY <1>2, <1>4, <1>5, <1>6 DEF RowOf, Lettered

\* One level of splitRecursive makes a splitting of a splitting.
LEMMA FinerFacts ==
    ASSUME NEW txt, NEW C, PartOf(txt, C), NEW sz \in Nat, NEW cs, Splitting(txt, C, 0, cs),
           NEW sep, SeparatorOf(sep)
    PROVE  Splitting(txt, C, 0, Finer(txt, sz, cs, sep))
<1>1. PICK rows : rows = [k \in DOMAIN cs |->
          IF Size(cs[k]) <= sz THEN <<cs[k]>> ELSE Merge(SplitAt(txt, sep, cs[k]), sz)]
  OBVIOUS
<1>2. ASSUME NEW k \in DOMAIN cs PROVE RowOf(txt, cs[k], rows[k])
  <2>1. PICK c \in Inside(C) : c = cs[k]
    BY DEF Splitting
  <2>2. PartOf(txt, c) /\ c \in Extents /\ c.from <= c.to + 1
    BY PartOfPart DEF Inside
  <2>3. CASE Size(c) <= sz
    <3>1. rows[k] = <<c>>
      BY <1>1, <2>1, <2>3
    <3>. QED
      BY <2>1, <2>2, <3>1, RowOfOne
  <2>4. CASE ~(Size(c) <= sz)
    <3>1. PICK P : P = SplitAt(txt, sep, c)
      OBVIOUS
    <3>2. rows[k] = Merge(P, sz)
      BY <1>1, <2>1, <2>4, <3>1
    <3>3. PICK d \in Nat : d = Len(sep)
      BY DEF SeparatorOf
    <3>4. Splitting(txt, c, d, P)
      BY <2>2, <3>1, <3>3, SplitAtFacts
    <3>5. P \in Seq(Inside(c)) /\ Ranked(P, Gap(d))
      BY <3>4 DEF Splitting
    <3>6. Ranked(P, Gap(0))
      BY <3>5, GapShrinks
    <3>7. Splitting(txt, c, 0, P)
      BY <3>4, <3>6 DEF Splitting
    <3>8. RowOf(txt, c, Merge(P, sz))
      BY <2>2, <3>7, RowOfMerge
    <3>. QED
      BY <2>1, <3>2, <3>8
  <2>. QED
    BY <2>3, <2>4
<1>3. DOMAIN rows = DOMAIN cs /\ rows = [k \in DOMAIN cs |-> rows[k]]
  BY <1>1
<1>4. Splitting(txt, C, 0, FlattenSeq(rows))
  BY <1>2, <1>3, FlattenSplitting
<1>. QED
  BY <1>1, <1>4 DEF Finer

\* None of the separators has a letter in it.
LEMMA TheSeparators ==
    /\ Len(Separators) = 4 /\ DOMAIN Separators = 1..4
    /\ \A k \in 1..4 : SeparatorOf(Separators[k])
<1>1. Len(Separators) = 4 /\ DOMAIN Separators = 1..4
  BY DEF Separators
<1>0. NewLine # Letter /\ Space # Letter /\ Stop # Letter
  BY DEF NewLine, Space, Stop, Letter
<1>2. SeparatorOf(<<NewLine, NewLine>>)
  BY <1>0 DEF SeparatorOf
<1>3. SeparatorOf(<<NewLine>>)
  BY <1>0 DEF SeparatorOf
<1>4. SeparatorOf(<<Stop, Space>>)
  BY <1>0 DEF SeparatorOf
<1>5. SeparatorOf(<<Space>>)
  BY <1>0 DEF SeparatorOf
<1>6. ASSUME NEW k \in 1..4 PROVE SeparatorOf(Separators[k])
  <2>1. k = 1 \/ k = 2 \/ k = 3 \/ k = 4
    OBVIOUS
  <2>2. /\ Separators[1] = <<NewLine, NewLine>> /\ Separators[2] = <<NewLine>>
        /\ Separators[3] = <<Stop, Space>> /\ Separators[4] = <<Space>>
    BY DEF Separators
  <2>. QED
    BY <1>2, <1>3, <1>4, <1>5, <2>1, <2>2
<1>. QED
  BY <1>1, <1>6

\* What splitRecursive makes of C with the separators alone.
AtSeparators(txt, C, sz) ==
    FoldLeft(LAMBDA coarse, sep : Finer(txt, sz, coarse, sep), <<C>>, Separators)

\* All levels together, by induction over the separators.
LEMMA LevelsSplit ==
    ASSUME NEW txt, NEW C, PartOf(txt, C), NEW sz \in Nat
    PROVE  Splitting(txt, C, 0, AtSeparators(txt, C, sz))
<1>. DEFINE n == Len(Separators)
            B == {b \in Seq(Inside(C)) : Splitting(txt, C, 0, b)}
            base == <<C>>
            Go(b, sep) == Finer(txt, sz, b, sep)
            F == [b \in B \X (1..n) |-> Go(b[1], Separators[b[2]])]
            IsIter(iter) == iter = [s \in SUBSET DOMAIN Separators |->
                IF s = {} THEN base ELSE Go(iter[s \ {Max(s)}], Separators[Max(s)])]
            iter == CHOOSE iter : IsIter(iter)
<1>1. n \in Nat /\ DOMAIN Separators = 1..n /\ \A k \in 1..n : SeparatorOf(Separators[k])
  BY TheSeparators
<1>2. base \in B
  <2>1. C \in Extents /\ C.from <= C.to + 1
    BY DEF PartOf
  <2>2. RowOf(txt, C, base)
    BY <2>1, RowOfOne
  <2>. QED
    BY <2>2 DEF RowOf, Splitting
<1>3. ASSUME NEW b \in B, NEW sep, SeparatorOf(sep) PROVE Go(b, sep) \in B
  <2>1. Splitting(txt, C, 0, b)
    OBVIOUS
  <2>2. Splitting(txt, C, 0, Go(b, sep))
    BY <1>3, <2>1, FinerFacts
  <2>. QED
    BY <2>2 DEF Splitting
<1>4. AtSeparators(txt, C, sz) = iter[DOMAIN Separators]
  BY DEF AtSeparators, FoldLeft, MapThenFoldSet
<1>. HIDE DEF B, base, n, Go
<1>5. F \in [B \X (1..n) -> B] /\ \A b \in B, k \in 1..n : F[b, k] = Go(b, Separators[k])
  BY <1>1, <1>3
<1>. HIDE DEF F
<1>6. ASSUME NEW g, Folds(B, n, base, F, g) PROVE IsIter(g)
  <2>1. ASSUME NEW s \in SUBSET (1..n)
        PROVE  g[s] = IF s = {} THEN base ELSE Go(g[s \ {Max(s)}], Separators[Max(s)])
    <3>1. CASE s = {}
      BY <1>6, <3>1 DEF Folds
    <3>2. CASE s # {}
      <4>1. Max(s) \in 1..n /\ s \ {Max(s)} \in SUBSET (1..n)
        BY <1>1, <3>2, MaxOfNumbers
      <4>2. g[s \ {Max(s)}] \in B
        BY <1>6, <4>1 DEF Folds
      <4>3. g[s] = F[g[s \ {Max(s)}], Max(s)]
        BY <1>6, <3>2 DEF Folds
      <4>. QED
        BY <1>5, <3>2, <4>1, <4>2, <4>3
    <3>. QED
      BY <3>1, <3>2
  <2>2. g = [s \in SUBSET (1..n) |-> g[s]]
    BY <1>6 DEF Folds
  <2>. QED
    BY <1>1, <2>1, <2>2
<1>7. (\E g : Folds(B, n, base, F, g)) => IsIter(iter)
  <2>. HIDE DEF IsIter
  <2>. QED
    BY <1>6
<1>8. IsIter(iter) => Iterates(B, n, base, F, iter)
  <2>. SUFFICES ASSUME IsIter(iter) PROVE Iterates(B, n, base, F, iter)
    OBVIOUS
  <2>1. \A s \in SUBSET (1..n) :
          iter[s] = IF s = {} THEN base ELSE Go(iter[s \ {Max(s)}], Separators[Max(s)])
    <3>. HIDE DEF iter
    <3>. QED
      BY <1>1
  <2>. HIDE DEF iter, IsIter
  <2>2. iter[{}] = base
    <3>1. {} \in SUBSET (1..n)
      OBVIOUS
    <3>. QED
      BY <2>1, <3>1
  <2>3. ASSUME NEW s \in SUBSET (1..n), s # {}, iter[s \ {Max(s)}] \in B
        PROVE  iter[s] = F[iter[s \ {Max(s)}], Max(s)]
    <3>1. Max(s) \in 1..n
      BY <1>1, <2>3, MaxOfNumbers
    <3>. QED
      BY <1>5, <2>1, <2>3, <3>1
  <2>. QED
    BY <2>2, <2>3 DEF Iterates
<1>. HIDE DEF iter, IsIter
<1>9. PICK f : FoldSteps(B, n, base, F, f) /\ f[n] = iter[1..n]
  <2>1. \E g : Folds(B, n, base, F, g)
    BY <1>1, <1>2, <1>5, FoldExists
  <2>2. Iterates(B, n, base, F, iter)
    BY <1>7, <1>8, <2>1
  <2>3. FoldsTo(B, n, base, F, iter[1..n])
    BY <1>1, <1>2, <1>5, <2>2, FoldRuns
  <2>. QED
    BY <2>3 DEF FoldsTo
<1>10. f[n] \in B
  <2>1. f \in [0..n -> B]
    BY <1>9 DEF FoldSteps
  <2>2. n \in 0..n
    BY <1>1
  <2>. QED
    BY <2>1, <2>2
<1>. QED
  BY <1>1, <1>4, <1>9, <1>10 DEF B

\* The smaller one of two numbers.
LEMMA MinOfTwo ==
    ASSUME NEW a \in Int, NEW b \in Int, NEW m, m = Min({a, b})
    PROVE  m \in Int /\ m <= a /\ m <= b /\ (m = a \/ m = b)
<1>1. \E x \in {a, b} : \A y \in {a, b} : x <= y
  OBVIOUS
<1>2. m \in {a, b} /\ \A y \in {a, b} : m <= y
  BY <1>1 DEF Min
<1>. QED
  BY <1>2

\* What becomes of a number divided, and multiplied again.
LEMMA Division ==
    ASSUME NEW a \in Nat, NEW b \in Nat \ {0}
    PROVE  (a \div b) \in Nat /\ (a \div b) * b <= a /\ a < (a \div b) * b + b
  OBVIOUS

\* Multiples of b that differ are at least b apart.
LEMMA Multiples ==
    ASSUME NEW j \in Int, NEW k \in Int, NEW b \in Nat
    PROVE  /\ j * b \in Int /\ k * b \in Int
           /\ (j < k => j * b + b <= k * b) /\ (j <= k => j * b <= k * b)
<1>1. j * b \in Int /\ k * b \in Int
  OBVIOUS
<1>2. k * b - j * b = (k - j) * b
  OBVIOUS
<1>3. ASSUME NEW x \in Nat PROVE x * b >= 0 /\ (x # 0 => x * b >= b)
  <2>1. x * b >= 0
    OBVIOUS
  <2>2. x # 0 => x - 1 \in Nat /\ x * b = (x - 1) * b + b
    OBVIOUS
  <2>3. x # 0 => (x - 1) * b >= 0
    BY <2>2
  <2>. QED
    BY <2>1, <2>2, <2>3
<1>4. j <= k => k - j \in Nat /\ (j < k => k - j # 0)
  OBVIOUS
<1>. QED
  BY <1>1, <1>2, <1>3, <1>4

Starts == {p \in Extents \X Extents : p[1].from < p[2].from}

\* Pieces as they come of C: no piece longer than sz, each behind the one before.
PiecesOf(C, sz, step, s) ==
    /\ s \in Seq(Solid(C)) /\ Ranked(s, Starts)
    /\ step = sz => Ranked(s, Gap(0))
    /\ \A c \in ToSet(s) : Size(c) <= sz
    /\ \A i \in Positions(C) : Holds(s, i)

\* Pieces cover what they were cut from, when the step is not larger than the size.
LEMMA PiecesFacts ==
    ASSUME NEW C \in Extents, C.from <= C.to + 1, NEW sz \in Nat \ {0}, NEW step \in Nat \ {0}, step <= sz
    PROVE  PiecesOf(C, sz, step, Pieces(C, sz, step))
<1>1. PICK from \in Int, to \in Int, L \in Nat : from = C.from /\ to = C.to /\ L = Size(C) /\ L = to - from + 1
  BY DEF Extents, Size
<1>2. PICK count \in Nat : count = (L + step - 1) \div step
  BY Division
<1>3. /\ count * step <= L + step - 1 /\ L + step - 1 < count * step + step /\ count * step \in Int
  <2>1. PICK a \in Nat : a = L + step - 1
    OBVIOUS
  <2>2. (a \div step) * step <= a /\ a < (a \div step) * step + step
    BY Division
  <2>. QED
    BY <1>2, <2>1, <2>2
<1>. DEFINE StartOf(k) == from + (k - 1) * step
            s == [k \in 1..count |-> Cut(StartOf(k), Min({to, StartOf(k) + sz - 1}))]
<1>4. Pieces(C, sz, step) = s
  BY <1>1, <1>2 DEF Pieces
<1>5. ASSUME NEW k \in 1..count
      PROVE  StartOf(k) \in Int /\ from <= StartOf(k) /\ StartOf(k) <= to
  <2>1. (k - 1) * step \in Int /\ (k - 1) * step + step <= count * step /\ 0 * step <= (k - 1) * step
    BY Multiples
  <2>. QED
    BY <1>1, <1>3, <2>1
<1>6. ASSUME NEW k \in 1..count
      PROVE  /\ s[k] \in Solid(C) /\ s[k] \in Extents /\ s[k].from = StartOf(k) /\ Size(s[k]) <= sz
             /\ s[k].to <= StartOf(k) + sz - 1 /\ (s[k].to = to \/ s[k].to = StartOf(k) + sz - 1)
             /\ s[k].to \in Int
  <2>1. PICK st \in Int : st = StartOf(k) /\ from <= st /\ st <= to
    BY <1>5
  <2>2. PICK m : m = Min({to, st + sz - 1})
    OBVIOUS
  <2>3. m \in Int /\ m <= to /\ m <= st + sz - 1 /\ (m = to \/ m = st + sz - 1)
    <3>1. PICK b \in Int : b = st + sz - 1
      OBVIOUS
    <3>2. m = Min({to, b})
      BY <2>2, <3>1
    <3>3. m \in Int /\ m <= to /\ m <= b /\ (m = to \/ m = b)
      BY <3>2, MinOfTwo
    <3>. QED
      BY <3>1, <3>3
  <2>4. s[k] = [from |-> st, to |-> m]
    BY <2>1, <2>2 DEF Cut
  <2>5. PICK c \in Extents : c = s[k] /\ c.from = st /\ c.to = m
    BY <2>3, <2>4 DEF Extents
  <2>6. st <= m
    BY <2>1, <2>3
  <2>7. c \in Inside(C)
    BY <1>1, <2>1, <2>3, <2>5, <2>6 DEF Inside
  <2>8. c \in Solid(C) /\ Size(c) <= sz
    BY <2>3, <2>5, <2>6, <2>7 DEF Solid, Size
  <2>. QED
    BY <2>1, <2>3, <2>5, <2>8
<1>7. ASSUME NEW j \in 1..count, NEW k \in 1..count, j < k PROVE StartOf(j) + step <= StartOf(k)
  <2>1. (j - 1) * step \in Int /\ (k - 1) * step \in Int /\ (j - 1) * step + step <= (k - 1) * step
    BY <1>7, Multiples
  <2>. QED
    BY <2>1
<1>8. ASSUME NEW i \in from..to PROVE \E k \in 1..count : StartOf(k) <= i /\ i <= StartOf(k) + step - 1
  <2>1. PICK a \in Nat : a = i - from
    OBVIOUS
  <2>2. PICK q \in Nat : q = a \div step /\ q * step <= a /\ a < q * step + step /\ q * step \in Int
    BY Division
  <2>3. q < count
    <3>1. q >= count => count * step <= q * step
      BY Multiples
    <3>2. a <= L - 1
      BY <1>1, <2>1
    <3>. QED
      BY <1>3, <2>2, <3>1, <3>2
  <2>4. q + 1 \in 1..count /\ (q + 1) - 1 = q
    BY <2>3
  <2>5. StartOf(q + 1) = from + q * step
    BY <2>4
  <2>6. StartOf(q + 1) <= i /\ i <= StartOf(q + 1) + step - 1
    BY <2>1, <2>2, <2>5
  <2>. QED
    BY <2>4, <2>6
<1>9. DOMAIN s = 1..count /\ Len(s) = count /\ s \in Seq(Solid(C))
  <2>1. DOMAIN s = 1..count /\ s = [k \in 1..count |-> s[k]] /\ \A k \in 1..count : s[k] \in Solid(C)
    BY <1>6
  <2>. HIDE DEF s
  <2>2. s \in [1..count -> Solid(C)]
    BY <2>1
  <2>. QED
    BY <2>2
<1>. HIDE DEF StartOf, s
<1>10. Ranked(s, Starts)
  <2>1. ASSUME NEW j \in 1..count, NEW k \in 1..count, j < k PROVE <<s[j], s[k]>> \in Starts
    <3>1. s[j].from < s[k].from
      BY <1>5, <1>6, <1>7, <2>1
    <3>. QED
      BY <1>6, <3>1 DEF Starts
  <2>. QED
    BY <1>9, <2>1 DEF Ranked
<1>11. ASSUME step = sz PROVE Ranked(s, Gap(0))
  <2>1. ASSUME NEW j \in 1..count, NEW k \in 1..count, j < k PROVE <<s[j], s[k]>> \in Gap(0)
    <3>1. s[j].to + 0 < s[k].from
      BY <1>5, <1>6, <1>7, <1>11, <2>1
    <3>. QED
      BY <1>6, <3>1 DEF Gap
  <2>. QED
    BY <1>9, <2>1 DEF Ranked
<1>12. ASSUME NEW c \in ToSet(s) PROVE Size(c) <= sz
  BY <1>6, <1>9 DEF ToSet
<1>13. ASSUME NEW i \in Positions(C) PROVE Holds(s, i)
  <2>1. i \in from..to
    BY <1>1 DEF Positions
  <2>2. PICK k \in 1..count : StartOf(k) <= i /\ i <= StartOf(k) + step - 1
    BY <1>8, <2>1
  <2>3. s[k].from <= i /\ i <= s[k].to /\ i \in Int /\ s[k].from \in Int
    BY <1>5, <1>6, <2>1, <2>2
  <2>4. i \in Positions(s[k])
    BY <1>6, <2>3 DEF Positions
  <2>5. s[k] \in ToSet(s)
    BY <1>9 DEF ToSet
  <2>. QED
    BY <2>4, <2>5 DEF Holds
<1>. QED
  BY <1>4, <1>9, <1>10, <1>11, <1>12, <1>13 DEF PiecesOf

\* splitRecursive.
LEMMA SplitFacts ==
    ASSUME NEW txt, NEW C, PartOf(txt, C), NEW sz \in Nat \ {0}
    PROVE  /\ Splitting(txt, C, 0, Split(txt, C, sz))
           /\ \A c \in ToSet(Split(txt, C, sz)) : Size(c) <= sz
<1>1. PICK cs : cs = AtSeparators(txt, C, sz)
  OBVIOUS
<1>2. Splitting(txt, C, 0, cs)
  BY <1>1, LevelsSplit
<1>3. PICK rows : rows = [k \in DOMAIN cs |->
          IF Size(cs[k]) <= sz THEN <<cs[k]>> ELSE Pieces(cs[k], sz, sz)]
  OBVIOUS
<1>4. ASSUME NEW k \in DOMAIN cs
      PROVE  RowOf(txt, cs[k], rows[k]) /\ \A x \in ToSet(rows[k]) : Size(x) <= sz
  <2>1. PICK c \in Inside(C) : c = cs[k]
    BY <1>2 DEF Splitting
  <2>2. c \in Extents /\ c.from <= c.to + 1
    BY DEF Inside
  <2>3. CASE Size(c) <= sz
    <3>1. rows[k] = <<c>>
      BY <1>3, <2>1, <2>3
    <3>2. ToSet(rows[k]) = {c}
      BY <3>1 DEF ToSet
    <3>3. RowOf(txt, c, rows[k])
      BY <2>2, <3>1, RowOfOne
    <3>. QED
      BY <2>1, <2>3, <3>2, <3>3
  <2>4. CASE ~(Size(c) <= sz)
    <3>1. PICK s : s = Pieces(c, sz, sz)
      OBVIOUS
    <3>2. rows[k] = s
      BY <1>3, <2>1, <2>4, <3>1
    <3>3. PiecesOf(c, sz, sz, s)
      BY <2>2, <3>1, PiecesFacts
    <3>4. s \in Seq(Inside(c)) /\ Ranked(s, Gap(0)) /\ \A x \in ToSet(s) : Size(x) <= sz
      BY <3>3 DEF PiecesOf, Solid
    <3>5. Lettered(txt, c.from, c.to, s)
      BY <3>3 DEF PiecesOf, Lettered, Holds, Positions
    <3>6. RowOf(txt, c, s)
      BY <3>4, <3>5 DEF RowOf
    <3>. QED
      BY <2>1, <3>2, <3>4, <3>6
  <2>. QED
    BY <2>3, <2>4
<1>5. DOMAIN rows = DOMAIN cs /\ rows = [k \in DOMAIN cs |-> rows[k]]
  BY <1>3
<1>6. /\ Splitting(txt, C, 0, FlattenSeq(rows))
      /\ \A c : c \in ToSet(FlattenSeq(rows)) <=> \E k \in DOMAIN cs : c \in ToSet(rows[k])
  BY <1>2, <1>4, <1>5, FlattenSplitting
<1>7. Split(txt, C, sz) = FlattenSeq(rows)
  BY <1>1, <1>3 DEF Split, AtSeparators
<1>. QED
  BY <1>4, <1>6, <1>7

\* The ends of a set of numbers between two bounds.
LEMMA LeastInside ==
    ASSUME NEW lo \in Int, NEW hi \in Int, NEW s \in SUBSET (lo..hi), s # {}
    PROVE  /\ Min(s) \in s /\ \A i \in s : Min(s) <= i
           /\ Max(s) \in s /\ \A i \in s : i <= Max(s)
<1>0. ASSUME NEW i \in s PROVE i \in Int /\ i - lo \in Nat /\ hi - i \in Nat
  BY <1>0
<1>1. \E m \in s : \A i \in s : m <= i
  <2>. DEFINE T == {i - lo : i \in s}
  <2>1. T \in SUBSET Nat /\ T # {}
    BY <1>0
  <2>2. PICK least \in T : \A m \in T : least <= m
    BY <2>1, LeastNatural
  <2>3. PICK m \in s : least = m - lo
    BY <2>2
  <2>4. ASSUME NEW i \in s PROVE m <= i
    <3>1. m - lo <= i - lo
      BY <2>2, <2>3
    <3>. QED
      BY <1>0, <3>1
  <2>. QED
    BY <2>4
<1>2. \E m \in s : \A i \in s : m >= i
  <2>. DEFINE T == {hi - i : i \in s}
  <2>1. T \in SUBSET Nat /\ T # {}
    BY <1>0
  <2>2. PICK least \in T : \A m \in T : least <= m
    BY <2>1, LeastNatural
  <2>3. PICK m \in s : least = hi - m
    BY <2>2
  <2>4. ASSUME NEW i \in s PROVE m >= i
    <3>1. hi - m <= hi - i
      BY <2>2, <2>3
    <3>. QED
      BY <1>0, <3>1
  <2>. QED
    BY <2>4
<1>3. Min(s) \in s /\ \A i \in s : Min(s) <= i
  BY <1>1 DEF Min
<1>4. Max(s) \in s /\ \A i \in s : Max(s) >= i
  BY <1>2 DEF Max
<1>. QED
  BY <1>0, <1>3, <1>4

\* What TrimSpace leaves of c.
Trimmed(txt, c, t) ==
    /\ t \in Extents /\ c.from <= t.from /\ t.to <= c.to /\ t.from <= c.to /\ t.from <= t.to + 1
    /\ Content(txt, c) # {} => t.from <= t.to
    /\ \A i \in Positions(c) : txt[i] = Letter => i \in Positions(t)

\* A letter is not blank.
LEMMA LetterIsContent ==
    ASSUME NEW txt, NEW c, NEW i \in Positions(c), txt[i] = Letter
    PROVE  i \in Content(txt, c)
<1>1. Letter \notin Blank
  <2>1. Letter # Space /\ Letter # NewLine
    BY DEF Letter, Space, NewLine
  <2>. QED
    BY <2>1 DEF Blank
<1>. QED
  BY <1>1 DEF Content

\* A cut is an interval.
LEMMA CutFields ==
    ASSUME NEW from \in Int, NEW to \in Int
    PROVE  Cut(from, to) \in Extents /\ Cut(from, to).from = from /\ Cut(from, to).to = to
BY DEF Cut, Extents

\* TrimSpace takes no letter away, and a cut with content stays solid.
LEMMA TrimFacts ==
    ASSUME NEW txt, NEW c \in Extents, c.from <= c.to
    PROVE  Trimmed(txt, c, TrimSpace(txt, c))
<1>1. PICK from \in Int, to \in Int : from = c.from /\ to = c.to
  BY DEF Extents
<1>2. PICK w \in SUBSET (from..to) : w = Content(txt, c)
  BY <1>1 DEF Content, Positions
<1>3. \A i \in Positions(c) : txt[i] = Letter => i \in w
  BY <1>2, LetterIsContent
<1>4. CASE w = {}
  <2>1. TrimSpace(txt, c) = Cut(from, from - 1)
    BY <1>1, <1>2, <1>4 DEF TrimSpace
  <2>2. PICK t \in Extents : t = Cut(from, from - 1) /\ t.from = from /\ t.to = from - 1
    <3>1. from - 1 \in Int
      OBVIOUS
    <3>. QED
      BY <3>1, CutFields
  <2>3. c.from <= t.from /\ t.to <= c.to /\ t.from <= c.to /\ t.from <= t.to + 1
    BY <1>1, <2>2
  <2>. QED
    BY <1>2, <1>3, <1>4, <2>1, <2>2, <2>3 DEF Trimmed
<1>5. CASE w # {}
  <2>1. PICK lo \in w, hi \in w : lo = Min(w) /\ hi = Max(w) /\ \A i \in w : lo <= i /\ i <= hi
    BY <1>5, LeastInside
  <2>2. TrimSpace(txt, c) = Cut(lo, hi)
    BY <1>2, <1>5, <2>1 DEF TrimSpace
  <2>3. lo \in Int /\ hi \in Int /\ from <= lo /\ hi <= to /\ lo <= hi /\ lo <= to
    BY <2>1
  <2>4. PICK t \in Extents : t = Cut(lo, hi) /\ t.from = lo /\ t.to = hi
    BY <2>3, CutFields
  <2>5. \A i \in w : i \in Positions(t)
    <3>1. ASSUME NEW i \in w PROVE i \in lo..hi
      BY <2>1, <2>3
    <3>. QED
      BY <2>4, <3>1 DEF Positions
  <2>6. c.from <= t.from /\ t.to <= c.to /\ t.from <= c.to /\ t.from <= t.to + 1 /\ t.from <= t.to
    BY <1>1, <2>3, <2>4
  <2>. QED
    BY <1>3, <2>2, <2>4, <2>5, <2>6 DEF Trimmed
<1>. QED
  BY <1>4, <1>5

\* Apart, and one behind the other.
Apart == {p \in Starts : p[1].to < p[2].from}

\* Cuts that do not overlap keep their order when each is trimmed, blank ones too.
LEMMA TrimmedApart ==
    ASSUME NEW txt, NEW C, C \in Extents, NEW cs, cs \in Seq(Solid(C)), Ranked(cs, Gap(0)),
           Lettered(txt, C.from, C.to, cs),
           NEW ts, ts = [k \in DOMAIN cs |-> TrimSpace(txt, cs[k])]
    PROVE  ts \in Seq(Extents) /\ Ranked(ts, Apart) /\ Lettered(txt, C.from, C.to, ts)
<1>1. PICK n \in Nat : n = Len(cs) /\ DOMAIN cs = 1..n
  OBVIOUS
<1>2. ASSUME NEW k \in 1..n
      PROVE  /\ cs[k] \in Extents /\ cs[k].from \in Int /\ cs[k].to \in Int /\ cs[k].from <= cs[k].to
             /\ Trimmed(txt, cs[k], ts[k]) /\ ts[k] \in Extents /\ ts[k].from \in Int /\ ts[k].to \in Int
             /\ cs[k].from <= ts[k].from /\ ts[k].to <= cs[k].to /\ ts[k].from <= cs[k].to
  <2>1. PICK c \in Extents : c = cs[k] /\ c.from <= c.to
    BY <1>1 DEF Solid, Inside
  <2>2. ts[k] = TrimSpace(txt, c)
    BY <1>1, <2>1
  <2>3. Trimmed(txt, c, ts[k])
    BY <2>1, <2>2, TrimFacts
  <2>. QED
    BY <2>1, <2>3 DEF Trimmed, Extents
<1>3. DOMAIN ts = 1..n /\ ts = [k \in 1..n |-> ts[k]]
  BY <1>1
<1>4. ts \in [1..n -> Extents]
  BY <1>2, <1>3
<1>5. ts \in Seq(Extents) /\ Len(ts) = n
  BY <1>3, <1>4
<1>6. ASSUME NEW j \in 1..n, NEW k \in 1..n, j < k PROVE <<ts[j], ts[k]>> \in Apart
  <2>1. <<cs[j], cs[k]>> \in Gap(0)
    BY <1>1, <1>6 DEF Ranked
  <2>2. cs[j].to + 0 < cs[k].from
    BY <2>1 DEF Gap
  <2>3. PICK x \in Extents, y \in Extents : x = ts[j] /\ y = ts[k]
    BY <1>2
  <2>4. /\ cs[j].to \in Int /\ cs[k].from \in Int /\ x.from \in Int /\ x.to \in Int /\ y.from \in Int
        /\ x.from <= cs[j].to /\ x.to <= cs[j].to /\ cs[k].from <= y.from
    BY <1>2, <2>3
  <2>5. x.from < y.from /\ x.to < y.from
    BY <2>2, <2>4
  <2>. QED
    BY <2>3, <2>5 DEF Apart, Starts
<1>7. Ranked(ts, Apart)
  BY <1>5, <1>6 DEF Ranked
<1>8. ASSUME NEW i \in C.from..C.to, txt[i] = Letter PROVE \E t \in ToSet(ts) : i \in Positions(t)
  <2>1. PICK c \in ToSet(cs) : i \in Positions(c)
    BY <1>8 DEF Lettered
  <2>2. PICK k \in 1..n : c = cs[k]
    BY <1>1, <2>1 DEF ToSet
  <2>3. i \in Positions(ts[k])
    BY <1>2, <1>8, <2>1, <2>2 DEF Trimmed
  <2>4. ts[k] \in ToSet(ts)
    BY <1>3 DEF ToSet
  <2>. QED
    BY <2>3, <2>4
<1>. QED
  BY <1>5, <1>7, <1>8 DEF Lettered

Texts == Seq({Letter, Space, NewLine, Stop})

\* What a chunker makes of a text.
Chunked(txt, cs, R) == cs \in Seq(Extents) /\ Ranked(cs, R) /\ Lettered(txt, 1, Len(txt), cs)
Bounded(cs, sz) == \A c \in ToSet(cs) : Size(c) \in 1..sz

\* The text as a part of itself.
LEMMA WholeText ==
    ASSUME NEW txt \in Texts, NEW C, C = Cut(1, Len(txt))
    PROVE  PartOf(txt, C) /\ C.from = 1 /\ C.to = Len(txt) /\ C \in Extents /\ C.from <= C.to + 1
<1>1. Len(txt) \in Nat
  BY DEF Texts
<1>2. C \in Extents /\ C.from = 1 /\ C.to = Len(txt)
  BY <1>1, CutFields
<1>. QED
  BY <1>1, <1>2 DEF PartOf, Texts

\* Dropping the blank ones.
LEMMA NonBlankKeeps ==
    ASSUME NEW txt, NEW S, NEW cs \in Seq(S), NEW R, Ranked(cs, R),
           NEW from, NEW to, Lettered(txt, from, to, cs), NEW ks, ks = NonBlank(txt, cs)
    PROVE  /\ ks \in Seq(S) /\ Ranked(ks, R) /\ Lettered(txt, from, to, ks)
           /\ \A c \in ToSet(ks) : c \in ToSet(cs) /\ Content(txt, c) # {}
<1>1. /\ ks \in Seq(S) /\ Ranked(ks, R)
      /\ \A c : c \in ToSet(ks) <=> c \in ToSet(cs) /\ Content(txt, c) # {}
  BY NonBlankFacts
<1>2. ASSUME NEW i \in from..to, txt[i] = Letter PROVE \E c \in ToSet(ks) : i \in Positions(c)
  <2>1. PICK c \in ToSet(cs) : i \in Positions(c)
    BY <1>2 DEF Lettered
  <2>2. i \in Content(txt, c)
    BY <1>2, <2>1, LetterIsContent
  <2>. QED
    BY <1>1, <2>1, <2>2
<1>. QED
  BY <1>1, <1>2 DEF Lettered

\* chunkFixed.
LEMMA FixedFacts ==
    ASSUME NEW txt \in Texts, NEW sz \in Nat \ {0}, NEW ov \in Nat, NEW cs, cs = ChunkFixed(txt, sz, ov)
    PROVE  Chunked(txt, cs, Starts) /\ Bounded(cs, sz)
<1>1. PICK step \in Nat \ {0} : step <= sz /\ step = IF sz - ov <= 0 THEN sz ELSE sz - ov
  OBVIOUS
<1>2. PICK C : C = Cut(1, Len(txt))
  OBVIOUS
<1>3. PartOf(txt, C) /\ C.from = 1 /\ C.to = Len(txt) /\ C \in Extents /\ C.from <= C.to + 1
  BY <1>2, WholeText
<1>4. PICK s : s = Pieces(C, sz, step)
  OBVIOUS
<1>5. PiecesOf(C, sz, step, s)
  BY <1>1, <1>3, <1>4, PiecesFacts
<1>6. s \in Seq(Solid(C)) /\ Ranked(s, Starts) /\ \A c \in ToSet(s) : Size(c) <= sz
  BY <1>5 DEF PiecesOf
<1>7. Lettered(txt, 1, Len(txt), s)
  BY <1>3, <1>5 DEF PiecesOf, Lettered, Holds, Positions
<1>8. cs = NonBlank(txt, s)
  BY <1>1, <1>2, <1>4 DEF ChunkFixed
<1>9. /\ cs \in Seq(Solid(C)) /\ Ranked(cs, Starts) /\ Lettered(txt, 1, Len(txt), cs)
      /\ \A c \in ToSet(cs) : c \in ToSet(s) /\ Content(txt, c) # {}
  BY <1>6, <1>7, <1>8, NonBlankKeeps
<1>10. cs \in Seq(Extents)
  BY <1>9 DEF Solid, Inside
<1>11. ASSUME NEW c \in ToSet(cs) PROVE Size(c) \in 1..sz
  <2>1. c \in ToSet(s)
    BY <1>9
  <2>2. c \in Solid(C)
    BY <1>6, <2>1 DEF ToSet
  <2>3. Size(c) <= sz
    BY <1>6, <2>1
  <2>. QED
    BY <2>2, <2>3 DEF Solid, Inside, Extents, Size
<1>. QED
  BY <1>9, <1>10, <1>11 DEF Chunked, Bounded

\* A cut with content is not empty.
LEMMA WrittenIsSolid ==
    ASSUME NEW txt, NEW C, NEW c \in Inside(C), Content(txt, c) # {}
    PROVE  c \in Solid(C)
<1>1. Positions(c) # {}
  BY DEF Content
<1>. QED
  BY <1>1 DEF Positions, Solid, Inside, Extents

\* chunkRecursive: splitting, dropping what is blank, trimming.
LEMMA RecursiveFacts ==
    ASSUME NEW txt \in Texts, NEW sz \in Nat \ {0}, NEW ts, ts = ChunkRecursive(txt, sz)
    PROVE  Chunked(txt, ts, Apart) /\ Bounded(ts, sz)
<1>1. PICK C : C = Cut(1, Len(txt))
  OBVIOUS
<1>2. PartOf(txt, C) /\ C.from = 1 /\ C.to = Len(txt) /\ C \in Extents
  BY <1>1, WholeText
<1>3. PICK s : s = Split(txt, C, sz)
  OBVIOUS
<1>4. Splitting(txt, C, 0, s) /\ \A c \in ToSet(s) : Size(c) <= sz
  BY <1>2, <1>3, SplitFacts
<1>5. PICK cs : cs = NonBlank(txt, s)
  OBVIOUS
<1>6. s \in Seq(Inside(C)) /\ Ranked(s, Gap(0)) /\ Lettered(txt, C.from, C.to, s)
  BY <1>4 DEF Splitting
<1>7. /\ cs \in Seq(Inside(C)) /\ Ranked(cs, Gap(0)) /\ Lettered(txt, C.from, C.to, cs)
      /\ \A c \in ToSet(cs) : c \in ToSet(s) /\ Content(txt, c) # {}
  BY <1>5, <1>6, NonBlankKeeps
<1>8. PICK n \in Nat : n = Len(cs) /\ DOMAIN cs = 1..n
  BY <1>7
<1>9. ASSUME NEW k \in 1..n PROVE cs[k] \in Solid(C) /\ Size(cs[k]) <= sz /\ Content(txt, cs[k]) # {}
  <2>1. PICK c \in Inside(C) : c = cs[k] /\ c \in ToSet(cs)
    BY <1>7, <1>8 DEF ToSet
  <2>2. c \in ToSet(s) /\ Content(txt, c) # {}
    BY <1>7, <2>1
  <2>3. c \in Solid(C)
    BY <2>2, WrittenIsSolid
  <2>. QED
    BY <1>4, <2>1, <2>2, <2>3
<1>10. cs \in Seq(Solid(C))
  BY <1>7, <1>8, <1>9
<1>11. ts = [k \in DOMAIN cs |-> TrimSpace(txt, cs[k])]
  BY <1>1, <1>3, <1>5 DEF ChunkRecursive
<1>12. ts \in Seq(Extents) /\ Ranked(ts, Apart) /\ Lettered(txt, C.from, C.to, ts)
  BY <1>2, <1>7, <1>10, <1>11, TrimmedApart
<1>13. ASSUME NEW t \in ToSet(ts) PROVE Size(t) \in 1..sz
  <2>1. PICK k \in 1..n : t = ts[k]
    BY <1>8, <1>11, <1>13 DEF ToSet
  <2>2. PICK c \in Extents : c = cs[k] /\ c.from <= c.to /\ Size(c) <= sz /\ Content(txt, c) # {}
    BY <1>9 DEF Solid, Inside
  <2>3. t = TrimSpace(txt, c)
    BY <1>8, <1>11, <2>1, <2>2
  <2>4. Trimmed(txt, c, t)
    BY <2>2, <2>3, TrimFacts
  <2>5. t \in Extents /\ c.from <= t.from /\ t.to <= c.to /\ t.from <= t.to
    BY <2>2, <2>4 DEF Trimmed
  <2>. QED
    BY <2>2, <2>5 DEF Extents, Size
<1>. QED
  BY <1>2, <1>12, <1>13 DEF Chunked, Bounded

\* Sentences: the space behind a stop goes to the next one.
SentenceOf(P, n, k, len) ==
    Cut(IF k = 1 THEN 1 ELSE P[k].from - 1, IF k = n THEN len ELSE P[k].to + 1)

\* Sentences do not overlap, are not empty and hold all letters.
LEMMA SentenceFacts ==
    ASSUME NEW txt \in Texts, NEW C, C = Cut(1, Len(txt))
    PROVE  /\ Sentences(txt) \in Seq(Solid(C)) /\ Ranked(Sentences(txt), Gap(0))
           /\ Lettered(txt, 1, Len(txt), Sentences(txt))
<1>1. PartOf(txt, C) /\ C.from = 1 /\ C.to = Len(txt) /\ C \in Extents /\ Len(txt) \in Nat
  BY WholeText DEF Texts
<1>2. CASE txt = <<>>
  <2>1. Sentences(txt) = <<>> /\ Len(txt) = 0
    BY <1>2 DEF Sentences
  <2>2. <<>> \in Seq(Solid(C)) /\ Ranked(<<>>, Gap(0))
    BY NoneRanked
  <2>. QED
    BY <2>1, <2>2 DEF Lettered
<1>3. CASE txt # <<>>
  <2>1. PICK len \in Nat \ {0} : len = Len(txt)
    BY <1>1, <1>3, EmptySeq DEF Texts
  <2>2. PICK sep : sep = <<Stop, Space>> /\ SeparatorOf(sep) /\ Len(sep) = 2
    <3>1. Separators[3] = <<Stop, Space>>
      BY DEF Separators
    <3>2. 3 \in 1..4
      OBVIOUS
    <3>3. SeparatorOf(Separators[3])
      BY <3>2, TheSeparators
    <3>4. Len(<<Stop, Space>>) = 2
      OBVIOUS
    <3>. QED
      BY <3>1, <3>3, <3>4
  <2>3. PICK P : P = SplitAt(txt, sep, C)
    OBVIOUS
  <2>4. Splitting(txt, C, 2, P) /\ P # <<>>
    BY <1>1, <2>2, <2>3, SplitAtFacts
  <2>5. P \in Seq(Inside(C)) /\ Ranked(P, Gap(2)) /\ Lettered(txt, 1, len, P)
    BY <1>1, <2>1, <2>4 DEF Splitting
  <2>6. PICK n \in Nat \ {0} : n = Len(P) /\ DOMAIN P = 1..n
    BY <2>4, <2>5, EmptySeq
  <2>7. ASSUME NEW k \in 1..n
        PROVE  /\ P[k] \in Extents /\ P[k].from \in Int /\ P[k].to \in Int
               /\ 1 <= P[k].from /\ P[k].to <= len /\ P[k].from <= P[k].to + 1
    <3>1. P[k] \in Inside(C)
      BY <2>5, <2>6
    <3>. QED
      BY <1>1, <2>1, <3>1 DEF Inside, Extents
  <2>8. ASSUME NEW j \in 1..n, NEW k \in 1..n, j < k PROVE P[j].to + 2 < P[k].from
    BY <2>5, <2>6, <2>8 DEF Ranked, Gap
  <2>9. PICK s : s = [k \in 1..n |-> SentenceOf(P, n, k, len)]
    OBVIOUS
  <2>10. Sentences(txt) = s
    BY <1>3, <2>1, <2>2, <2>3, <2>6, <2>9 DEF Sentences, SentenceOf
  <2>11. ASSUME NEW k \in 1..n
         PROVE  /\ s[k] \in Solid(C) /\ s[k] \in Extents /\ s[k].from \in Int /\ s[k].to \in Int
                /\ s[k].from = (IF k = 1 THEN 1 ELSE P[k].from - 1)
                /\ s[k].to = (IF k = n THEN len ELSE P[k].to + 1)
    <3>1. PICK from \in Int, to \in Int : from = P[k].from /\ to = P[k].to
      BY <2>7
    <3>2. 1 <= from /\ to <= len /\ from <= to + 1
      BY <2>7, <3>1
    <3>3. k # 1 => from >= 3
      <4>1. 1 \in 1..n /\ (k # 1 => 1 < k)
        OBVIOUS
      <4>2. k # 1 => P[1].to + 2 < from /\ P[1].from \in Int /\ P[1].to \in Int /\ 1 <= P[1].to + 1
        BY <2>7, <2>8, <3>1, <4>1
      <4>. QED
        BY <4>2
    <3>4. k # n => to + 2 < len + 1
      <4>1. n \in 1..n /\ (k # n => k < n)
        OBVIOUS
      <4>2. k # n => to + 2 < P[n].from /\ P[n].from \in Int /\ P[n].to \in Int /\ P[n].from <= len + 1
        BY <2>7, <2>8, <3>1, <4>1
      <4>. QED
        BY <4>2
    <3>5. PICK a \in Int, b \in Int : /\ a = (IF k = 1 THEN 1 ELSE from - 1)
                                      /\ b = (IF k = n THEN len ELSE to + 1)
      OBVIOUS
    <3>6. PICK c \in Extents : c = Cut(a, b) /\ c.from = a /\ c.to = b
      BY CutFields
    <3>7. 1 <= a /\ b <= len /\ a <= b
      BY <3>2, <3>3, <3>4, <3>5
    <3>8. c \in Solid(C)
      BY <1>1, <2>1, <3>6, <3>7 DEF Solid, Inside
    <3>9. s[k] = c
      BY <2>9, <3>1, <3>5, <3>6 DEF SentenceOf
    <3>. QED
      BY <3>1, <3>5, <3>6, <3>8, <3>9
  <2>12. s \in Seq(Solid(C)) /\ Len(s) = n /\ DOMAIN s = 1..n
    <3>1. s \in [1..n -> Solid(C)]
      BY <2>9, <2>11
    <3>. QED
      BY <3>1
  <2>13. ASSUME NEW j \in 1..n, NEW k \in 1..n, j < k PROVE <<s[j], s[k]>> \in Gap(0)
    <3>1. j # n /\ k # 1
      BY <2>13
    <3>2. s[j].to = P[j].to + 1 /\ s[k].from = P[k].from - 1
      BY <2>11, <3>1
    <3>3. s[j].to + 0 < s[k].from
      BY <2>7, <2>8, <2>13, <3>2
    <3>4. PICK x \in Extents, y \in Extents : x = s[j] /\ y = s[k]
      BY <2>11
    <3>. QED
      BY <3>3, <3>4 DEF Gap
  <2>14. Ranked(s, Gap(0))
    BY <2>12, <2>13 DEF Ranked
  <2>15. ASSUME NEW i \in 1..len, txt[i] = Letter PROVE \E c \in ToSet(s) : i \in Positions(c)
    <3>1. PICK p \in ToSet(P) : i \in Positions(p)
      BY <2>5, <2>15 DEF Lettered
    <3>2. PICK k \in 1..n : p = P[k]
      BY <2>6, <3>1 DEF ToSet
    <3>3. P[k].from <= i /\ i <= P[k].to
      BY <3>1, <3>2 DEF Positions
    <3>4. s[k].from <= i /\ i <= s[k].to /\ s[k].from \in Int /\ s[k].to \in Int
      <4>1. /\ P[k].from \in Int /\ P[k].to \in Int /\ 1 <= P[k].from /\ P[k].to <= len
            /\ s[k].from \in Int /\ s[k].to \in Int
        BY <2>7, <2>11
      <4>2. PICK from \in Int, to \in Int : from = P[k].from /\ to = P[k].to
        BY <4>1
      <4>3. /\ s[k].from = (IF k = 1 THEN 1 ELSE from - 1)
            /\ s[k].to = (IF k = n THEN len ELSE to + 1)
        BY <2>11, <4>2
      <4>4. s[k].from <= from /\ to <= s[k].to
        BY <4>1, <4>2, <4>3
      <4>. QED
        BY <3>3, <4>1, <4>2, <4>4
    <3>5. i \in Positions(s[k])
      BY <3>4 DEF Positions
    <3>6. s[k] \in ToSet(s)
      BY <2>12 DEF ToSet
    <3>. QED
      BY <3>5, <3>6
  <2>. QED
    BY <2>1, <2>10, <2>12, <2>14, <2>15 DEF Lettered
<1>. QED
  BY <1>2, <1>3

\* chunkBySentence: sentences joined and trimmed.
LEMMA BySentenceFacts ==
    ASSUME NEW txt \in Texts, NEW sz \in Nat, NEW ts, ts = ChunkBySentence(txt, sz)
    PROVE  Chunked(txt, ts, Apart)
<1>1. PICK C : C = Cut(1, Len(txt))
  OBVIOUS
<1>2. PartOf(txt, C) /\ C.from = 1 /\ C.to = Len(txt) /\ C \in Extents
  BY <1>1, WholeText
<1>3. PICK P : P = Sentences(txt)
  OBVIOUS
<1>4. P \in Seq(Solid(C)) /\ Ranked(P, Gap(0)) /\ Lettered(txt, C.from, C.to, P)
  BY <1>1, <1>2, <1>3, SentenceFacts
<1>5. P \in Seq(Inside(C))
  BY <1>4 DEF Solid
<1>6. Splitting(txt, C, 0, P)
  BY <1>4, <1>5 DEF Splitting
<1>7. PICK cs : cs = Merge(P, sz)
  OBVIOUS
<1>8. RowOf(txt, C, cs) /\ cs \in Seq(Solid(C))
  BY <1>2, <1>6, <1>7, RowOfMerge
<1>9. Ranked(cs, Gap(0)) /\ Lettered(txt, C.from, C.to, cs)
  BY <1>8 DEF RowOf
<1>10. ts = [k \in DOMAIN cs |-> TrimSpace(txt, cs[k])]
  BY <1>3, <1>7 DEF ChunkBySentence
<1>11. ts \in Seq(Extents) /\ Ranked(ts, Apart) /\ Lettered(txt, C.from, C.to, ts)
  BY <1>2, <1>8, <1>9, <1>10, TrimmedApart
<1>. QED
  BY <1>2, <1>11 DEF Chunked

\* The numbers of the sentences that end a chunk.
SplitsOf(n, s) ==
    /\ s \in Seq(1..n) /\ Len(s) \in Nat \ {0} /\ s[Len(s)] = n
    /\ \A j, k \in 1..Len(s) : j < k => s[j] < s[k]

FirstOf(s, k) == IF k = 1 THEN 1 ELSE s[k - 1] + 1

JoinedAt(S, s) == [k \in DOMAIN s |-> Cut(S[FirstOf(s, k)].from, S[s[k]].to)]

\* Sentences joined at any splits.
LEMMA JoinedFacts ==
    ASSUME NEW txt, NEW C, C \in Extents, NEW S, S \in Seq(Solid(C)), Ranked(S, Gap(0)),
           Lettered(txt, C.from, C.to, S), NEW n, n = Len(S), NEW s, SplitsOf(n, s),
           NEW cs, cs = JoinedAt(S, s)
    PROVE  cs \in Seq(Extents) /\ Ranked(cs, Apart) /\ Lettered(txt, C.from, C.to, cs)
<1>1. n \in Nat /\ DOMAIN S = 1..n
  OBVIOUS
<1>2. PICK m \in Nat \ {0} : m = Len(s) /\ DOMAIN s = 1..m
  BY DEF SplitsOf
<1>3. /\ \A k \in 1..m : s[k] \in 1..n
      /\ \A j, k \in 1..m : j < k => s[j] < s[k]
      /\ s[m] = n
  BY <1>2 DEF SplitsOf
<1>4. ASSUME NEW k \in 1..n
      PROVE  S[k] \in Extents /\ S[k].from \in Int /\ S[k].to \in Int /\ S[k].from <= S[k].to
  BY <1>1 DEF Solid, Inside, Extents
<1>5. ASSUME NEW j \in 1..n, NEW k \in 1..n, j < k PROVE S[j].to < S[k].from
  <2>1. <<S[j], S[k]>> \in Gap(0)
    BY <1>5 DEF Ranked
  <2>. QED
    BY <1>4, <2>1 DEF Gap
<1>6. ASSUME NEW j \in 1..n, NEW k \in 1..n, j <= k PROVE S[j].from <= S[k].from /\ S[j].to <= S[k].to
  <2>1. CASE j = k
    BY <1>4, <2>1
  <2>2. CASE j < k
    BY <1>4, <1>5, <2>2
  <2>. QED
    BY <1>6, <2>1, <2>2
<1>7. ASSUME NEW k \in 1..m
      PROVE  FirstOf(s, k) \in 1..n /\ FirstOf(s, k) <= s[k] /\ s[k] \in 1..n
  <2>1. CASE k = 1
    BY <1>3, <2>1 DEF FirstOf
  <2>2. CASE k # 1
    <3>1. k - 1 \in 1..m /\ k - 1 < k
      BY <2>2
    <3>2. s[k - 1] \in 1..n /\ s[k] \in 1..n /\ s[k - 1] < s[k]
      BY <1>3, <3>1
    <3>. QED
      BY <1>1, <2>2, <3>2 DEF FirstOf
  <2>. QED
    BY <2>1, <2>2
<1>8. ASSUME NEW k \in 1..m
      PROVE  /\ cs[k] \in Extents /\ cs[k].from = S[FirstOf(s, k)].from /\ cs[k].to = S[s[k]].to
             /\ cs[k].from \in Int /\ cs[k].to \in Int /\ cs[k].from <= cs[k].to
  <2>1. PICK a \in 1..n, b \in 1..n : a = FirstOf(s, k) /\ b = s[k] /\ a <= b
    BY <1>7
  <2>2. PICK x \in Int, y \in Int : x = S[a].from /\ y = S[b].to
    BY <1>4
  <2>3. x <= y
    BY <1>4, <1>6, <2>1, <2>2
  <2>4. cs[k] = Cut(x, y)
    BY <1>2, <2>1, <2>2 DEF JoinedAt
  <2>. QED
    BY <2>1, <2>2, <2>3, <2>4, CutFields
<1>9. DOMAIN cs = 1..m /\ cs = [k \in 1..m |-> cs[k]]
  BY <1>2 DEF JoinedAt
<1>10. cs \in Seq(Extents) /\ Len(cs) = m
  <2>1. cs \in [1..m -> Extents]
    BY <1>8, <1>9
  <2>. QED
    BY <1>9, <2>1
<1>11. ASSUME NEW j \in 1..m, NEW k \in 1..m, j < k PROVE <<cs[j], cs[k]>> \in Apart
  <2>1. k # 1 /\ k - 1 \in 1..m /\ j <= k - 1
    BY <1>11
  <2>2. s[j] <= s[k - 1]
    BY <1>3, <2>1
  <2>3. PICK a \in 1..n, b \in 1..n : a = FirstOf(s, k) /\ b = s[j] /\ b < a
    <3>1. s[j] \in 1..n /\ s[k - 1] \in 1..n /\ FirstOf(s, k) \in 1..n
      BY <1>3, <1>7, <2>1
    <3>2. FirstOf(s, k) = s[k - 1] + 1
      BY <2>1 DEF FirstOf
    <3>3. s[j] < FirstOf(s, k)
      BY <2>2, <3>1, <3>2
    <3>. QED
      BY <3>1, <3>3
  <2>4. S[b].to < S[a].from
    BY <1>5, <2>3
  <2>5. PICK x \in Extents, y \in Extents : x = cs[j] /\ y = cs[k]
    BY <1>8
  <2>6. x.to < y.from /\ x.from <= x.to /\ x.from \in Int /\ x.to \in Int /\ y.from \in Int
    BY <1>8, <2>3, <2>4, <2>5
  <2>7. x.from < y.from
    BY <2>6
  <2>. QED
    BY <2>5, <2>6, <2>7 DEF Apart, Starts
<1>12. Ranked(cs, Apart)
  BY <1>10, <1>11 DEF Ranked
<1>13. ASSUME NEW h \in 1..n PROVE \E k \in 1..m : FirstOf(s, k) <= h /\ h <= s[k]
  <2>. DEFINE Late == {k \in 1..m : h <= s[k]}
  <2>1. m \in Late
    BY <1>2, <1>3
  <2>2. PICK k \in Late : \A l \in Late : k <= l
    <3>1. Late \in SUBSET Nat /\ Late # {}
      BY <2>1
    <3>. HIDE DEF Late
    <3>. QED
      BY <3>1, LeastNatural
  <2>3. k \in 1..m /\ h <= s[k]
    OBVIOUS
  <2>4. CASE k = 1
    BY <2>3, <2>4 DEF FirstOf
  <2>5. CASE k # 1
    <3>1. k - 1 \in 1..m /\ ~(k <= k - 1)
      BY <2>3, <2>5
    <3>2. k - 1 \notin Late
      BY <2>2, <3>1
    <3>3. s[k - 1] \in 1..n /\ ~(h <= s[k - 1])
      BY <1>3, <3>1, <3>2
    <3>4. s[k - 1] + 1 <= h
      BY <3>3
    <3>. QED
      BY <2>3, <2>5, <3>4 DEF FirstOf
  <2>. QED
    BY <2>4, <2>5
<1>14. ASSUME NEW i \in C.from..C.to, txt[i] = Letter PROVE \E c \in ToSet(cs) : i \in Positions(c)
  <2>1. PICK p \in ToSet(S) : i \in Positions(p)
    BY <1>14 DEF Lettered
  <2>2. PICK h \in 1..n : p = S[h]
    BY <1>1, <2>1 DEF ToSet
  <2>3. PICK k \in 1..m : FirstOf(s, k) <= h /\ h <= s[k]
    BY <1>13
  <2>4. PICK a \in 1..n, b \in 1..n : a = FirstOf(s, k) /\ b = s[k] /\ a <= h /\ h <= b
    BY <1>7, <2>3
  <2>5. S[a].from <= S[h].from /\ S[h].to <= S[b].to
    BY <1>6, <2>4
  <2>6. S[h].from <= i /\ i <= S[h].to /\ i \in Int
    BY <2>1, <2>2 DEF Positions
  <2>7. cs[k].from <= i /\ i <= cs[k].to
    BY <1>4, <1>8, <2>4, <2>5, <2>6
  <2>8. i \in Positions(cs[k])
    BY <1>8, <2>6, <2>7 DEF Positions
  <2>9. cs[k] \in ToSet(cs)
    BY <1>9 DEF ToSet
  <2>. QED
    BY <2>8, <2>9
<1>. QED
  BY <1>10, <1>12, <1>14 DEF Lettered

\* The semantic chunker, wherever the embeddings differ.
LEMMA SemanticFacts ==
    ASSUME NEW txt \in Texts, NEW cs \in SemanticChunks(txt)
    PROVE  Chunked(txt, cs, Apart)
<1>1. PICK C : C = Cut(1, Len(txt))
  OBVIOUS
<1>2. C.from = 1 /\ C.to = Len(txt) /\ C \in Extents
  BY <1>1, WholeText
<1>3. PICK S : S = Sentences(txt)
  OBVIOUS
<1>4. S \in Seq(Solid(C)) /\ Ranked(S, Gap(0)) /\ Lettered(txt, C.from, C.to, S)
  BY <1>1, <1>2, <1>3, SentenceFacts
<1>5. PICK n \in Nat : n = Len(S)
  BY <1>4
<1>6. CASE n = 0
  <2>1. cs = <<>>
    BY <1>3, <1>5, <1>6 DEF SemanticChunks
  <2>2. S = <<>>
    BY <1>4, <1>5, <1>6, EmptySeq
  <2>3. Lettered(txt, 1, Len(txt), <<>>)
    BY <1>2, <1>4, <2>2
  <2>4. <<>> \in Seq(Extents) /\ Ranked(<<>>, Apart)
    BY NoneRanked
  <2>. QED
    BY <2>1, <2>3, <2>4 DEF Chunked
<1>7. CASE n # 0
  <2>1. PICK s \in SeqOf(1..n, n) :
          /\ s # <<>> /\ s[Len(s)] = n /\ \A j, k \in DOMAIN s : j < k => s[j] < s[k]
          /\ cs = [k \in DOMAIN s |-> Cut(S[IF k = 1 THEN 1 ELSE s[k - 1] + 1].from, S[s[k]].to)]
    BY <1>3, <1>5, <1>7 DEF SemanticChunks
  <2>2. s \in Seq(1..n)
    BY DEF SeqOf
  <2>3. SplitsOf(n, s)
    BY <2>1, <2>2, EmptySeq DEF SplitsOf
  <2>4. cs = JoinedAt(S, s)
    BY <2>1 DEF JoinedAt, FirstOf
  <2>5. cs \in Seq(Extents) /\ Ranked(cs, Apart) /\ Lettered(txt, C.from, C.to, cs)
    BY <1>2, <1>4, <1>5, <2>3, <2>4, JoinedFacts
  <2>. QED
    BY <1>2, <2>5 DEF Chunked
<1>. QED
  BY <1>6, <1>7


-----------------------------------------------------------------------------
(***************************************************************************)
(* The levels of an index.                                                 *)
(***************************************************************************)
Places == {"chunked", "embed", "represent", "embed summaries", "store", "summarise", "done", "failed"}

IngestionTypeOK ==
    /\ pc \in Places
    /\ index \in {"unread", "standard", "raptor", "multi_rep"}
    /\ cuts \in Seq(Extents)
    /\ current \in Nat
    /\ level \in 0..MaxLevel
    /\ stored \in Seq(Nat)
    /\ lost \in BOOLEAN

\* Each level was smaller than the one below it, or that one was of two chunks.
Shrinking == \A k \in 1..Len(stored) - 1 : stored[k + 1] < stored[k] \/ stored[k] = 2

\* As many levels are stored as were gone through, the one in hand by a Store.  Only
\* raptor gets beyond the first.
Levels ==
    /\ pc # "failed" => Len(stored) = IF pc \in {"summarise", "done"} THEN level + 1 ELSE level
    /\ pc # "failed" => ~lost
    /\ pc \in {"chunked", "represent", "embed summaries"} => level = 0
    /\ pc = "summarise" => index = "raptor" /\ level < MaxLevel
    /\ level > 0 => index = "raptor"
    /\ pc = "done" => AfterLevel = "done"
    /\ pc = "failed" /\ stored # <<>> => index = "raptor" \/ lost

\* The level in hand goes on with the last one stored.
InHand ==
    /\ pc \notin {"chunked", "failed"} => current # 0
    /\ pc \in {"summarise", "done"} => stored[Len(stored)] = current
    /\ pc = "summarise" => current # 1
    /\ pc \in {"embed", "represent", "embed summaries", "store"} /\ stored # <<>> =>
          current < stored[Len(stored)] \/ stored[Len(stored)] = 2

TreeIInv == IngestionTypeOK /\ Shrinking /\ Levels /\ InHand

\* Summarising makes fewer chunks, but for two that may stay two.
LEMMA ClustersShrink ==
    ASSUME NEW n \in Nat, n >= 2, NEW m \in Clusters(n)
    PROVE  m \in Nat /\ m # 0 /\ (m < n \/ n = 2)
<1>1. ClusterSize \in Nat /\ ClusterSize >= 2
  BY IngestionAssumption
<1>2. PICK c \in Nat : c = ClusterSize /\ c >= 2
  BY <1>1
<1>3. m \in ((n + c - 1) \div c)..(1 + ((n - 1 + c - 1) \div c))
  BY <1>2 DEF Clusters, RoundedUp
<1>4. (n + c - 1) \div c >= 1
  <2>1. \A x \in Nat : x >= c => x \div c >= 1
    BY <1>2
  <2>. QED
    BY <1>2, <2>1
<1>5. n > 2 => (n - 1 + c - 1) \div c <= n - 2
  <2>. SUFFICES ASSUME n > 2 PROVE (n - 1 + c - 1) \div c <= n - 2
    OBVIOUS
  <2>1. PICK e \in Nat, d \in Nat : n = e + 3 /\ c = d + 2
    <3>1. n = (n - 3) + 3 /\ n - 3 \in Nat /\ c = (c - 2) + 2 /\ c - 2 \in Nat
      BY <1>2
    <3>. QED
      BY <3>1
  <2>2. PICK q \in Int : q = (n - 1 + c - 1) \div c
    BY <1>2
  <2>3. c * q <= n + c - 2
    BY <1>2, <2>2
  <2>4. c * q <= e + d + 3
    BY <2>1, <2>3
  <2>5. ASSUME q >= e + 2 PROVE FALSE
    <3>1. c * q >= c * (e + 2)
      BY <2>5, <1>2
    <3>2. c * (e + 2) = d * e + 2 * d + 2 * e + 4
      BY <2>1
    <3>3. d * e \in Nat
      OBVIOUS
    <3>4. PICK x \in Nat : x = d * e
      BY <3>3
    <3>5. PICK y \in Int : y = c * q
      BY <1>2
    <3>. QED
      BY <3>1, <3>2, <3>4, <3>5, <2>4
  <2>. QED
    BY <2>1, <2>2, <2>5
<1>6. PICK a \in Int, b \in Int : a = (n + c - 1) \div c /\ b = (n - 1 + c - 1) \div c
  BY <1>2
<1>7. m \in a..1 + b /\ a >= 1 /\ (n > 2 => b <= n - 2)
  BY <1>3, <1>4, <1>5, <1>6
<1>. QED
  BY <1>7

\* Where the steps that change nothing else may lead.
Onward(next) ==
    \/ next = "failed"
    \/ pc = "embed" /\ next = IF index = "multi_rep" /\ level = 0 THEN "represent" ELSE "store"
    \/ pc = "represent" /\ next = "embed summaries"
    \/ pc = "embed summaries" /\ next = "store"

\* A step that goes on, or fails, and changes nothing else.
LEMMA GoToKeeps ==
    ASSUME TreeIInv, pc # "done", pc # "failed", NEW next, GoTo(next), Onward(next)
    PROVE  TreeIInv'
<1>. USE DEF TreeIInv, Places, Onward
<1>0. IngestionTypeOK /\ level \in Nat
  <2>. HIDE DEF Onward, Places
  <2>1. IngestionTypeOK
    OBVIOUS
  <2>. QED
    BY <2>1, IngestionAssumption DEF IngestionTypeOK
<1>1. /\ pc' = next /\ index' = index /\ cuts' = cuts /\ current' = current /\ level' = level
      /\ stored' = stored /\ lost' = lost
  BY DEF GoTo, input
<1>2. IngestionTypeOK' /\ Shrinking'
  BY <1>1 DEF IngestionTypeOK, Shrinking
<1>3. Levels'
  <2>1. stored = <<>> <=> Len(stored) = 0
    BY EmptySeq DEF IngestionTypeOK
  <2>2. pc = "summarise" \/ Len(stored) = level
    BY DEF Levels
  <2>3. stored # <<>> => pc = "summarise" \/ level > 0
    <3>. HIDE DEF TreeIInv, Onward, Places
    <3>. QED
      BY <1>0, <2>1, <2>2
  <2>4. (pc = "summarise" \/ level > 0) => index = "raptor"
    BY DEF Levels
  <2>. QED
    BY <1>1, <2>3, <2>4 DEF Levels
<1>4. InHand'
  BY <1>1 DEF InHand
<1>. QED
  BY <1>2, <1>3, <1>4

\* Every step keeps the invariant of the levels.
LEMMA TreeStep ==
    ASSUME TreeIInv, [IngestionNext]_ingestionVars
    PROVE  TreeIInv'
<1>. USE DEF TreeIInv, Places
<1>1. MaxLevel \in Nat \ {0}
  BY IngestionAssumption
<1>2. CASE Count
  <2>1. Len(cuts) \in Nat /\ (cuts # <<>> => Len(cuts) # 0) /\ cuts' \in Seq(Extents)
    BY <1>2 DEF Count, IngestionTypeOK
  <2>2. stored' = stored /\ level' = level /\ lost' = lost /\ level = 0 /\ stored = <<>> /\ lost = FALSE
    BY <1>2 DEF Count, IngestionTypeOK, Levels
  <2>3. IngestionTypeOK'
    BY <1>2, <2>1 DEF Count, IngestionTypeOK
  <2>4. Shrinking'
    BY <2>2 DEF Shrinking
  <2>5. Levels'
    BY <1>2, <2>2 DEF Count, Levels
  <2>6. InHand'
    BY <1>2, <2>1, <2>2 DEF Count, InHand
  <2>. QED
    BY <2>3, <2>4, <2>5, <2>6
<1>3. ASSUME pc # "done", pc # "failed", NEW next, GoTo(next), Onward(next)
      PROVE  TreeIInv'
  BY <1>3, GoToKeeps
<1>4. CASE Store
  <2>1. /\ pc = "store" /\ stored' = Append(stored, current) /\ UNCHANGED <<index, cuts, current, level>>
        /\ pc' \in {AfterLevel, "failed"} /\ (pc' = "failed" => lost') /\ (pc' # "failed" => lost' = lost)
        /\ lost' \in BOOLEAN
    BY <1>4 DEF Store, input, IngestionTypeOK, AfterLevel
  <2>2. AfterLevel \in {"done", "summarise"}
    BY DEF AfterLevel
  <2>3. stored \in Seq(Nat) /\ current \in Nat /\ current # 0 /\ Len(stored) = level /\ level \in 0..MaxLevel
    BY <2>1 DEF IngestionTypeOK, Levels, InHand
  <2>4. /\ stored' \in Seq(Nat) /\ Len(stored') = level + 1 /\ stored'[level + 1] = current
        /\ \A k \in 1..level : stored'[k] = stored[k]
    BY <2>1, <2>3
  <2>5. IngestionTypeOK'
    BY <2>1, <2>2, <2>4 DEF IngestionTypeOK
  <2>6. Shrinking'
    <3>. SUFFICES ASSUME NEW k \in 1..level PROVE stored'[k + 1] < stored'[k] \/ stored'[k] = 2
      BY <2>3, <2>4, (level + 1) - 1 = level DEF Shrinking
    <3>1. CASE k = level
      <4>1. stored # <<>>
        BY <2>3, <3>1
      <4>. QED
        BY <2>1, <2>3, <2>4, <3>1, <4>1 DEF InHand
    <3>2. CASE k # level
      <4>1. k \in 1..Len(stored) - 1 /\ k + 1 \in 1..level /\ k \in 1..level
        BY <2>3, <3>2
      <4>. QED
        BY <2>4, <4>1 DEF Shrinking
    <3>. QED
      BY <3>1, <3>2
  <2>7. Levels'
    <3>1. level' = level /\ index' = index /\ AfterLevel' = AfterLevel /\ lost = FALSE
      BY <2>1 DEF AfterLevel, Levels, IngestionTypeOK
    <3>2. AfterLevel = "summarise" => index = "raptor" /\ level < MaxLevel
      BY <1>1, <2>3 DEF AfterLevel
    <3>. QED
      BY <2>1, <2>2, <2>4, <3>1, <3>2 DEF Levels
  <2>8. InHand'
    <3>1. AfterLevel = "summarise" => current # 1
      BY DEF AfterLevel
    <3>. QED
      BY <2>1, <2>2, <2>3, <2>4, <3>1 DEF InHand
  <2>. QED
    BY <2>5, <2>6, <2>7, <2>8
<1>5. CASE Summarise
  <2>1. /\ pc = "summarise" /\ pc' = "embed" /\ level' = level + 1 /\ current' \in Clusters(current)
        /\ UNCHANGED <<index, cuts, stored, lost>>
    BY <1>5 DEF Summarise, input
  <2>2. /\ current \in Nat /\ current # 0 /\ current # 1 /\ stored[Len(stored)] = current
        /\ Len(stored) = level + 1 /\ level < MaxLevel /\ level \in Nat /\ index = "raptor"
    BY <2>1 DEF IngestionTypeOK, Levels, InHand
  <2>3. current' \in Nat /\ current' # 0 /\ (current' < current \/ current = 2)
    BY <2>1, <2>2, ClustersShrink
  <2>4. IngestionTypeOK' /\ Shrinking'
    BY <1>1, <2>1, <2>2, <2>3 DEF IngestionTypeOK, Shrinking
  <2>5. Levels'
    BY <2>1, <2>2 DEF Levels
  <2>6. InHand'
    BY <2>1, <2>2, <2>3 DEF InHand
  <2>. QED
    BY <2>4, <2>5, <2>6
<1>6. CASE UNCHANGED ingestionVars
  <2>1. UNCHANGED <<pc, index, cuts, current, level, stored, lost>>
    BY <1>6 DEF ingestionVars, input
  <2>. QED
    BY <2>1 DEF IngestionTypeOK, Shrinking, Levels, InHand, AfterLevel
<1>7. CASE Embed \/ Represent \/ EmbedSummaries
  BY <1>3, <1>7 DEF Onward, Embed, Represent, EmbedSummaries
<1>8. CASE EmbedFails \/ EmbedSummariesFails \/ StoreFails \/ SummariseFails
  BY <1>3, <1>8 DEF Onward, EmbedFails, EmbedSummariesFails, StoreFails, SummariseFails, Fails
<1>. QED
  BY <1>2, <1>4, <1>5, <1>6, <1>7, <1>8 DEF IngestionNext, Step, Over

-----------------------------------------------------------------------------
(***************************************************************************)
(* The theorems about an Ingest.                                           *)
(***************************************************************************)

\* Whatever the strategy, the chunk size and the overlap, and however long the text:
\* every letter of the text is in a chunk and the chunks are in the order of the text;
\* but for the fixed ones no two overlap, and neither a fixed nor a recursive one is
\* longer than the chunk size or empty (ChunkText and ChunkTextWithEmbeddings of
\* pkg/chunker).
THEOREM ChunkersKeepTheText ==
    ASSUME NEW txt \in Texts, NEW strat \in {"fixed", "recursive", "sentence", "semantic"},
           NEW sz \in Nat \ {0}, NEW ov \in Nat, NEW cs \in Chunkings(txt, strat, sz, ov)
    PROVE  /\ Chunked(txt, cs, Starts)
           /\ strat # "fixed" => Chunked(txt, cs, Apart)
           /\ strat \in {"fixed", "recursive"} => Bounded(cs, sz)
<1>1. ASSUME Chunked(txt, cs, Apart) PROVE Chunked(txt, cs, Starts)
  BY <1>1 DEF Chunked, Ranked, Apart
<1>2. CASE strat = "fixed"
  <2>1. cs = ChunkFixed(txt, sz, ov)
    BY <1>2 DEF Chunkings
  <2>. QED
    BY <1>2, <2>1, FixedFacts
<1>3. CASE strat = "recursive"
  <2>1. cs = ChunkRecursive(txt, sz)
    BY <1>3 DEF Chunkings
  <2>. QED
    BY <1>1, <1>3, <2>1, RecursiveFacts
<1>4. CASE strat = "sentence"
  <2>1. cs = ChunkBySentence(txt, sz)
    BY <1>4 DEF Chunkings
  <2>2. Chunked(txt, cs, Apart)
    BY <2>1, BySentenceFacts
  <2>. QED
    BY <1>1, <1>4, <2>2
<1>5. CASE strat = "semantic"
  <2>1. cs \in SemanticChunks(txt) \/ cs = ChunkRecursive(txt, sz)
    BY <1>5 DEF Chunkings
  <2>2. Chunked(txt, cs, Apart)
    BY <2>1, SemanticFacts, RecursiveFacts
  <2>. QED
    BY <1>1, <1>5, <2>2
<1>. QED
  BY <1>2, <1>3, <1>4, <1>5

\* ChunksSound says of the chunks in hand what the theorem says of any chunks.
LEMMA ChunkedIsSound ==
    ASSUME text \in Texts, Chunked(text, cuts, Starts),
           strategy # "fixed" => Chunked(text, cuts, Apart),
           strategy \in {"fixed", "recursive"} => Bounded(cuts, size)
    PROVE  ChunksSound
<1>1. PICK n \in Nat : n = Len(cuts) /\ DOMAIN cuts = 1..n
  BY DEF Chunked
<1>2. DOMAIN text = 1..Len(text)
  BY DEF Texts
<1>3. ASSUME NEW i \in DOMAIN text, text[i] = Letter
      PROVE  \E k \in DOMAIN cuts : i \in Positions(cuts[k])
  <2>1. PICK c \in ToSet(cuts) : i \in Positions(c)
    BY <1>2, <1>3 DEF Chunked, Lettered
  <2>. QED
    BY <2>1 DEF ToSet
<1>4. ASSUME NEW k \in 1..Len(cuts) - 1
      PROVE  /\ cuts[k].from < cuts[k + 1].from
             /\ strategy # "fixed" => cuts[k].to < cuts[k + 1].from
  <2>1. k \in 1..Len(cuts) /\ k + 1 \in 1..Len(cuts) /\ k < k + 1
    BY <1>1
  <2>2. <<cuts[k], cuts[k + 1]>> \in Starts
    BY <2>1 DEF Chunked, Ranked
  <2>3. strategy # "fixed" => <<cuts[k], cuts[k + 1]>> \in Apart
    BY <2>1 DEF Chunked, Ranked
  <2>4. cuts[k].from < cuts[k + 1].from
    BY <2>2 DEF Starts
  <2>5. strategy # "fixed" => cuts[k].to < cuts[k + 1].from
    BY <2>3 DEF Apart, Starts
  <2>. QED
    BY <2>4, <2>5
<1>5. ASSUME strategy \in {"fixed", "recursive"}, NEW k \in DOMAIN cuts PROVE Size(cuts[k]) \in 1..size
  BY <1>5 DEF Bounded, ToSet
<1>. QED
  BY <1>3, <1>4, <1>5 DEF ChunksSound

\* The initial states.
LEMMA IngestionStarts ==
    ASSUME IngestionInit
    PROVE  ChunksSound /\ TreeIInv
<1>1. /\ strategy \in {"fixed", "recursive", "sentence", "semantic"} /\ size \in Nat \ {0}
      /\ overlap \in Nat /\ cuts \in Chunkings(text, strategy, size, overlap)
  <2>1. size \in ChunkSizes /\ overlap \in IF strategy = "fixed" THEN Overlaps ELSE {0}
    BY DEF IngestionInit
  <2>2. size \in Nat \ {0} /\ overlap \in Nat
    BY <2>1, IngestionAssumption
  <2>. QED
    BY <2>2 DEF IngestionInit
<1>2. text \in Texts
  <2>1. text \in SeqOf({Letter, Space, NewLine, Stop}, MaxLength)
    BY DEF IngestionInit
  <2>2. PICK m \in 0..MaxLength : text \in [1..m -> {Letter, Space, NewLine, Stop}]
    BY <2>1 DEF SeqOf
  <2>3. m \in Nat
    BY IngestionAssumption
  <2>. QED
    BY <2>2, <2>3 DEF Texts
<1>3. /\ Chunked(text, cuts, Starts) /\ (strategy # "fixed" => Chunked(text, cuts, Apart))
      /\ (strategy \in {"fixed", "recursive"} => Bounded(cuts, size))
  BY <1>1, <1>2, ChunkersKeepTheText
<1>4. ChunksSound
  BY <1>2, <1>3, ChunkedIsSound
<1>5. /\ pc = "chunked" /\ index = "unread" /\ cuts \in Seq(Extents) /\ current = 0 /\ level = 0
      /\ stored = <<>> /\ lost = FALSE /\ MaxLevel \in Nat
  BY <1>3, IngestionAssumption DEF IngestionInit, Chunked
<1>6. IngestionTypeOK
  <2>1. stored \in Seq(Nat) /\ level \in 0..MaxLevel
    BY <1>5
  <2>. QED
    BY <1>5, <2>1 DEF IngestionTypeOK, Places
<1>7. Shrinking
  BY <1>5 DEF Shrinking
<1>8. Levels
  BY <1>5 DEF Levels
<1>9. InHand
  BY <1>5 DEF InHand
<1>. QED
  BY <1>4, <1>6, <1>7, <1>8, <1>9 DEF TreeIInv

\* The chunks an Ingest counts and embeds are those the theorem above is about
\* (Ingest of internal/rag/pipeline.go).
THEOREM ChunksAreSound == IngestionSpec => []ChunksSound
<1>1. IngestionInit => ChunksSound
  BY IngestionStarts
<1>2. ChunksSound /\ [IngestionNext]_ingestionVars => ChunksSound'
  <2>. SUFFICES ASSUME ChunksSound, [IngestionNext]_ingestionVars PROVE ChunksSound'
    OBVIOUS
  <2>1. ASSUME pc' # "chunked" PROVE ChunksSound'
    BY <2>1 DEF ChunksSound
  <2>2. CASE UNCHANGED ingestionVars
    BY <2>2 DEF ChunksSound, ingestionVars, input
  <2>3. CASE Count
    <3>1. pc' # "chunked"
      BY <2>3 DEF Count
    <3>. QED
      BY <2>1, <3>1
  <2>4. CASE Store
    <3>1. pc' # "chunked"
      BY <2>4 DEF Store, AfterLevel
    <3>. QED
      BY <2>1, <3>1
  <2>5. CASE Summarise
    <3>1. pc' # "chunked"
      BY <2>5 DEF Summarise
    <3>. QED
      BY <2>1, <3>1
  <2>6. CASE Embed \/ Represent \/ EmbedSummaries
    <3>1. pc' # "chunked"
      BY <2>6 DEF Embed, Represent, EmbedSummaries, GoTo
    <3>. QED
      BY <2>1, <3>1
  <2>7. CASE EmbedFails \/ EmbedSummariesFails \/ StoreFails \/ SummariseFails
    <3>1. pc' # "chunked"
      BY <2>7 DEF EmbedFails, EmbedSummariesFails, StoreFails, SummariseFails, Fails, GoTo
    <3>. QED
      BY <2>1, <3>1
  <2>. QED
    BY <2>2, <2>3, <2>4, <2>5, <2>6, <2>7 DEF IngestionNext, Step, Over
<1>. QED
  BY <1>1, <1>2, PTL DEF IngestionSpec

\* The inductive invariant of the levels.
THEOREM IngestionInductive == IngestionSpec => []TreeIInv
<1>1. IngestionInit => TreeIInv
  BY IngestionStarts
<1>2. TreeIInv /\ [IngestionNext]_ingestionVars => TreeIInv'
  BY TreeStep
<1>. QED
  BY <1>1, <1>2, PTL DEF IngestionSpec

\* For any cluster size and any number of levels: an Ingest that succeeded has stored its
\* chunks and, for raptor, each level up to a single root or to the last level there may
\* be; levels get smaller, but for two chunks that stay two; one that failed has
\* stored nothing, unless it was raptor or the answer of the database was lost
\* (pipeline.go, raptor.go and multi_rep.go of internal/rag).
THEOREM TreeIsSound == IngestionSpec => []TreeSound
<1>1. TreeIInv => TreeSound
  <2>. SUFFICES ASSUME TreeIInv PROVE TreeSound
    OBVIOUS
  <2>1. /\ stored \in Seq(Nat) /\ level \in Nat /\ index \in {"unread", "standard", "raptor", "multi_rep"}
    BY IngestionAssumption DEF TreeIInv, IngestionTypeOK
  <2>2. \A k \in 1..Len(stored) - 1 : stored[k + 1] < stored[k] \/ stored[k] = 2
    BY DEF TreeIInv, Shrinking
  <2>3. pc = "failed" /\ stored # <<>> => index = "raptor" \/ lost
    BY DEF TreeIInv, Levels
  <2>4. ASSUME pc = "done"
        PROVE  /\ stored # <<>>
               /\ index = "raptor" => Last(stored) = 1 \/ Len(stored) = MaxLevel + 1
               /\ index # "raptor" => Len(stored) = 1
    <3>1. /\ Len(stored) = level + 1 /\ AfterLevel = "done" /\ (level > 0 => index = "raptor")
          /\ stored[Len(stored)] = current
      BY <2>4 DEF TreeIInv, Levels, InHand
    <3>2. stored # <<>>
      BY <2>1, <3>1, EmptySeq
    <3>3. index = "raptor" => current = 1 \/ level = MaxLevel
      BY <3>1 DEF AfterLevel
    <3>4. Last(stored) = current
      BY <3>1 DEF Last
    <3>5. index # "raptor" => level = 0
      BY <2>1, <3>1
    <3>. QED
      BY <3>1, <3>2, <3>3, <3>4, <3>5
  <2>. QED
    BY <2>2, <2>3, <2>4 DEF TreeSound
<1>. QED
  BY <1>1, IngestionInductive, PTL
=============================================================================
