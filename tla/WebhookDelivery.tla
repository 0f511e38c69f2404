--------------------------- MODULE WebhookDelivery ---------------------------
(***************************************************************************)
(* Webhook registration and dispatch (internal/webhook/service.go) and the  *)
(* in-process dispatcher (internal/webhook/dispatcher.go): callers of      *)
(* Dispatch put one delivery per matching webhook into a bounded channel,  *)
(* one goroutine takes them off, POSTs each once and records the outcome.  *)
(* The channel lives in the API process and dies with it.                  *)
(***************************************************************************)
EXTENDS Integers, Sequences, Functions

CONSTANTS
    Hooks,       \* webhook ids gen_random_uuid() may draw
    Calls,       \* calls of Service.Dispatch, one event occurrence each
    Capacity,    \* size of the deliveries channel (1000 in the code)
    MaxRestarts  \* bound on the restarts of the API process

ASSUME CapacityAssumption == Capacity \in Nat
ASSUME MaxRestartsAssumption == MaxRestarts \in Nat

VARIABLES
    hooks,     \* rows of webhooks
    retired,   \* ids of deleted rows, never drawn again
    call,      \* progress of each Dispatch call
    toSend,    \* matching webhooks a call's rows.Next() has not reached yet
    queue,     \* the deliveries channel
    worker,    \* what the processLoop goroutine is doing
    job,       \* the delivery it works on
    outcome,   \* how its POST ended: none, ok (status < 400), bad, error
    log,       \* rows of webhook_deliveries
    restarts,  \* restarts so far
    accepted,  \* ghost: deliveries that entered the channel, in order
    got,       \* ghost: POSTs that reached a receiver, in order
    done,      \* ghost: deliveries the worker is through with
    lost       \* ghost: deliveries a restart took away

hookVars == <<hooks, retired>>
callVars == <<call, toSend>>
workVars == <<worker, job, outcome>>
vars == <<hookVars, callVars, queue, workVars, log, restarts, accepted, got, done, lost>>

Jobs == [hook : Hooks, call : Calls]
LogRows == [job : Jobs, delivered : BOOLEAN]
NoJob == [hook |-> "none", call |-> "none"]

Job(h, c) == [hook |-> h, call |-> c]

HasDeliveries(h) == \E i \in DOMAIN log : log[i].job.hook = h

-----------------------------------------------------------------------------

Init ==
    /\ hooks = {} /\ retired = {}
    /\ call = [c \in Calls |-> "idle"]
    /\ toSend = [c \in Calls |-> {}]
    /\ queue = <<>>
    /\ worker = "idle" /\ job = NoJob /\ outcome = "none"
    /\ log = <<>>
    /\ restarts = 0
    /\ accepted = <<>> /\ got = <<>> /\ done = {} /\ lost = {}

(***************************************************************************)
(* Registration.  webhook_deliveries.webhook_id references webhooks(id)    *)
(* without ON DELETE: the DELETE of a webhook with deliveries fails.       *)
(***************************************************************************)
Create(h) ==
    /\ h \notin hooks \cup retired
    /\ hooks' = hooks \cup {h}
    /\ UNCHANGED <<retired, callVars, queue, workVars, log, restarts, accepted, got, done,
                   lost>>

Delete(h) ==
    /\ h \in hooks
    /\ IF HasDeliveries(h)
         THEN UNCHANGED hookVars  \* refused
         ELSE hooks' = hooks \ {h} /\ retired' = retired \cup {h}
    /\ UNCHANGED <<callVars, queue, workVars, log, restarts, accepted, got, done, lost>>

(***************************************************************************)
(* Dispatch: one query for the active webhooks subscribed to the event,    *)
(* then Enqueue for each row.  Which webhooks subscribe is left open.      *)
(***************************************************************************)
Query(c) ==
    /\ call[c] = "idle"
    /\ call' = [call EXCEPT ![c] = "sending"]
    /\ \E matching \in SUBSET hooks : toSend' = [toSend EXCEPT ![c] = matching]
    /\ UNCHANGED <<hookVars, queue, workVars, log, restarts, accepted, got, done, lost>>

QueryFails(c) ==
    /\ call[c] = "idle"
    /\ call' = [call EXCEPT ![c] = "error"]
    /\ UNCHANGED <<hookVars, toSend, queue, workVars, log, restarts, accepted, got,
                   done, lost>>

\* Faulty variant: the new delivery jumps the queue.
OfferFirst(c, h) ==
    /\ Len(queue) < Capacity
    /\ h \in toSend[c]
    /\ queue' = <<Job(h, c)>> \o queue
    /\ accepted' = Append(accepted, Job(h, c))
    /\ toSend' = [toSend EXCEPT ![c] = @ \ {h}]
    /\ UNCHANGED <<hookVars, call, workVars, log, restarts, got, done, lost>>

\* Enqueue: send on the channel when it has room ...
Offer(c, h) ==
    /\ h \in toSend[c]
    /\ Len(queue) < Capacity
    /\ queue' = Append(queue, Job(h, c))
    /\ accepted' = Append(accepted, Job(h, c))
    /\ toSend' = [toSend EXCEPT ![c] = @ \ {h}]
    /\ UNCHANGED <<hookVars, call, workVars, log, restarts, got, done, lost>>

\* Faulty variant: a plain channel send, without the default case.
DropNever(c, h) == h \in toSend[c] /\ Len(queue) >= Capacity /\ UNCHANGED vars

\* ... and drop the delivery otherwise.
Drop(c, h) ==
    /\ h \in toSend[c]
    /\ Len(queue) >= Capacity
    /\ toSend' = [toSend EXCEPT ![c] = @ \ {h}]
    /\ UNCHANGED <<hookVars, call, queue, workVars, log, restarts, accepted, got, done,
                   lost>>

\* rows.Next() says false after the last row.
Return(c) ==
    /\ call[c] = "sending"
    /\ toSend[c] = {}
    /\ call' = [call EXCEPT ![c] = "done"]
    /\ UNCHANGED <<hookVars, toSend, queue, workVars, log, restarts, accepted, got, done,
                   lost>>

\* rows.Next() also says false when the caller's context is cancelled and after a row
\* that does not scan, which closes the rows; rows.Err() is not asked, so the call
\* succeeds with the rest of the webhooks left out.
CutShort(c) ==
    /\ toSend[c] # {}
    /\ call' = [call EXCEPT ![c] = "done"]
    /\ toSend' = [toSend EXCEPT ![c] = {}]
    /\ UNCHANGED <<hookVars, queue, workVars, log, restarts, accepted, got, done, lost>>

(***************************************************************************)
(* processLoop and deliver.  The POST and the INSERT share one 15 s context; *)
(* http.Client gives the POST 10 s.                                        *)
(***************************************************************************)
\* Faulty variant: the newest delivery is taken first.
TakeNewest ==
    /\ worker = "idle" /\ queue # <<>>
    /\ worker' = "posting"
    /\ job' = queue[Len(queue)]
    /\ queue' = SubSeq(queue, 1, Len(queue) - 1)
    /\ UNCHANGED <<hookVars, callVars, outcome, log, restarts, accepted, got, done, lost>>

\* Faulty variant: the delivery stays in the queue while it is worked on.
TakePeek ==
    /\ worker = "idle" /\ queue # <<>>
    /\ worker' = "posting"
    /\ job' = Head(queue)
    /\ UNCHANGED <<hookVars, callVars, queue, outcome, log, restarts, accepted, got, done,
                   lost>>

Take ==
    /\ worker = "idle" /\ queue # <<>>
    /\ worker' = "posting"
    /\ job' = Head(queue)
    /\ queue' = Tail(queue)
    /\ UNCHANGED <<hookVars, callVars, outcome, log, restarts, accepted, got, done, lost>>

\* The POST arrives at the receiver.
Arrive ==
    /\ worker = "posting"
    /\ worker' = "answer"
    /\ got' = Append(got, job)
    /\ UNCHANGED <<hookVars, callVars, queue, job, outcome, log, restarts, accepted, done,
                   lost>>

\* Faulty variant: a POST that was never made is recorded with a nil error, and
\* its status 0 passes for a success.
UnreachedNilError ==
    /\ worker = "posting"
    /\ worker' = "recording"
    /\ outcome' = "ok"
    /\ UNCHANGED <<hookVars, callVars, queue, job, log, restarts, accepted, got, done, lost>>

\* The request cannot be built, or the receiver cannot be reached.
Unreached ==
    /\ worker = "posting"
    /\ worker' = "recording"
    /\ outcome' = "error"
    /\ UNCHANGED <<hookVars, callVars, queue, job, log, restarts, accepted, got, done, lost>>

\* Faulty variant: a failed POST is put back, behind those accepted since.
AnswerRetried(o) ==
    /\ worker = "answer"
    /\ IF o = "ok" THEN worker' = "recording" /\ outcome' = o /\ UNCHANGED <<queue, job>>
       ELSE /\ worker' = "idle" /\ outcome' = "none" /\ job' = NoJob
            /\ Len(queue) < Capacity
            /\ queue' = Append(queue, job)
    /\ UNCHANGED <<hookVars, callVars, log, restarts, accepted, got, done, lost>>

\* The receiver answers, or its answer does not come in time.
Answer(o) ==
    /\ worker = "answer"
    /\ worker' = "recording"
    /\ outcome' = o
    /\ UNCHANGED <<hookVars, callVars, queue, job, log, restarts, accepted, got, done, lost>>

\* Faulty variant: a failed INSERT ends the goroutine.
RecordOrStop(written) ==
    /\ worker = "recording"
    /\ written => job.hook \in hooks
    /\ log' = IF written
              THEN Append(log, [job |-> job, delivered |-> outcome = "ok"]) ELSE log
    /\ done' = IF written THEN done \cup {job} ELSE done
    /\ worker' = IF written THEN "idle" ELSE "recording"
    /\ job' = IF written THEN NoJob ELSE job
    /\ outcome' = IF written THEN "none" ELSE outcome
    /\ UNCHANGED <<hookVars, callVars, queue, restarts, accepted, got, lost>>

\* recordDelivery: one INSERT, whose failure (the webhook is gone, the context
\* has expired, the database is down) is only logged.  delivered_at is set when
\* the POST was answered with a status below 400.
Record(written) ==
    /\ worker = "recording"
    /\ written => job.hook \in hooks
    /\ log' = IF written
              THEN Append(log, [job |-> job, delivered |-> outcome = "ok"]) ELSE log
    /\ done' = done \cup {job}
    /\ worker' = "idle" /\ job' = NoJob /\ outcome' = "none"
    /\ UNCHANGED <<hookVars, callVars, queue, restarts, accepted, got, lost>>

\* The API process stops, in whatever way, and a new one starts: NewDispatcher
\* makes an empty channel, calls under way are cut off.
Restart ==
    /\ restarts < MaxRestarts
    /\ restarts' = restarts + 1
    /\ queue' = <<>>
    /\ lost' = lost \cup Range(queue) \cup (IF worker = "idle" THEN {} ELSE {job})
    /\ worker' = "idle" /\ job' = NoJob /\ outcome' = "none"
    /\ call' = [c \in Calls |-> IF call[c] = "sending" THEN "cut" ELSE call[c]]
    /\ toSend' = [c \in Calls |-> {}]
    /\ UNCHANGED <<hookVars, log, accepted, got, done>>

CallStep(c) == (\E h \in Hooks : Offer(c, h) \/ Drop(c, h)) \/ Return(c)

CallFault(c) == QueryFails(c) \/ CutShort(c)

WorkerStep ==
    \/ Take \/ Arrive \/ Unreached
    \/ \E o \in {"ok", "bad", "error"} : Answer(o)
    \/ \E written \in BOOLEAN : Record(written)

\* Nothing left to do: the service waits for requests beyond the bounds.
Idle ==
    /\ \A c \in Calls : call[c] \notin {"idle", "sending"}
    /\ worker = "idle" /\ queue = <<>>
    /\ UNCHANGED vars

Next ==
    \/ \E h \in Hooks : Create(h) \/ Delete(h)
    \/ \E c \in Calls : Query(c) \/ CallStep(c) \/ CallFault(c)
    \/ WorkerStep
    \/ Restart
    \/ Idle

Spec == Init /\ [][Next]_vars

\* A goroutine that can run does.  The worker is never held up for good, because
\* its POST and its INSERT carry deadlines; what needs that says so itself.
FairSpec == Spec /\ \A c \in Calls : WF_vars(CallStep(c))
WorkerFairness == WF_vars(WorkerStep)

-----------------------------------------------------------------------------
(***************************************************************************)
(* Properties.                                                             *)
(***************************************************************************)

TypeOK ==
    /\ hooks \subseteq Hooks /\ retired \subseteq Hooks
    /\ call \in [Calls -> {"idle", "sending", "done", "error", "cut"}]
    /\ toSend \in [Calls -> SUBSET Hooks]
    /\ queue \in Seq(Jobs) /\ Len(queue) <= Capacity
    /\ worker \in {"idle", "posting", "answer", "recording"}
    /\ job \in IF worker = "idle" THEN {NoJob} ELSE Jobs
    /\ outcome \in {"none", "ok", "bad", "error"}
    /\ log \in Seq(LogRows)
    /\ restarts \in 0..MaxRestarts
    /\ accepted \in Seq(Jobs) /\ got \in Seq(Jobs)
    /\ done \subseteq Jobs /\ lost \subseteq Jobs

Working == IF worker = "idle" THEN {} ELSE {job}

\* An accepted delivery is in exactly one place: in the channel, in the worker's
\* hands, finished, or lost with a process; none is forgotten or doubled.
Accounted ==
    /\ IsInjective(accepted) /\ IsInjective(queue)
    /\ Range(accepted) = Range(queue) \cup Working \cup done \cup lost
    /\ Range(queue) \cap (Working \cup done \cup lost) = {}
    /\ Working \cap (done \cup lost) = {}
    /\ done \cap lost = {}

\* No receiver gets an event occurrence twice, whatever fails.
AtMostOnce == IsInjective(got)

Before(x, y) ==
    \E i, k \in DOMAIN accepted : i < k /\ accepted[i] = x /\ accepted[k] = y

\* POSTs arrive in the order in which Dispatch accepted them, so a webhook sees
\* its events in that order even though calls, drops and restarts interleave.
InOrder ==
    \A i, k \in DOMAIN got : i < k => Before(got[i], got[k])

\* A delivery has one row at most, and a row that says "delivered" is backed by
\* a POST that reached the receiver.
LogFaithful ==
    /\ \A i, k \in DOMAIN log : log[i].job = log[k].job => i = k
    /\ \A i \in DOMAIN log : /\ log[i].job \in done
                             /\ log[i].delivered => log[i].job \in Range(got)

\* The channel and the worker together are a first-in first-out channel that
\* carries a delivery at most once.
Fifo == INSTANCE LossyFifo
    WITH Messages <- Jobs,
         sent <- Range(accepted),
         pipe <- (IF worker = "posting" THEN <<job>> ELSE <<>>) \o queue,
         out <- got
ImplementsFifo == Fifo!Spec

\* Every delivery that entered the channel is dealt with unless its process
\* ends, if the worker runs: no failure of a receiver or of the database stops it.
AcceptedIsSettled == WorkerFairness =>
    \A h \in Hooks, c \in Calls :
        Job(h, c) \in Range(accepted) ~> Job(h, c) \in done \cup lost

\* Dispatch comes back even if the worker hangs: a full channel drops.
DispatchReturns ==
    \A c \in Calls : call[c] = "sending" ~> call[c] # "sending"

=============================================================================
