--------------------------- MODULE PromptVersions ---------------------------
(***************************************************************************)
(* Prompt templates and their versions (internal/prompt/service.go) over    *)
(* PostgreSQL at READ COMMITTED, the pool's default isolation level.        *)
(*                                                                         *)
(* A prompt is a row of "prompts" with a current_version, its texts are    *)
(* rows of "prompt_versions".  Create and CreateVersion each run in a      *)
(* transaction: what they wrote is kept per request (pc says how far the   *)
(* transaction is) and reaches the tables in the commit step.  RenderPrompt *)
(* and GetByID read the two tables with separate statements, so commits of *)
(* other requests fall between their reads.                                *)
(***************************************************************************)
EXTENDS Naturals

CONSTANTS
    Requests,   \* HTTP requests, each handled once by its own goroutine
    Prompts,    \* prompt ids gen_random_uuid() may draw
    Templates,  \* pairs of system and user template, as opaque values
    NoRequest,  \* "nobody holds this row lock"
    MaxVersion  \* bound on explicit version numbers a Render asks for

ASSUME NoRequestAssumption == NoRequest \notin Requests
ASSUME MaxVersionAssumption == MaxVersion \in Nat

VARIABLES
    current,  \* prompts.current_version, 0 while the row does not exist
    rows,     \* committed prompt_versions rows
    claimed,  \* prompt ids drawn by a Create, committed or not
    lock,     \* holder of the row lock on the prompt's row
    pc,       \* next statement of each request
    target,   \* the prompt a request works on
    text,     \* the template a writer stores
    seen,     \* the version number a request has read or was given
    acked,    \* ghost: versions whose creation was answered with success
    known,    \* ghost: versions of its prompt acknowledged before a read began
    listed    \* ghost: the version numbers a GetByID returned

vars == <<current, rows, claimed, lock, pc, target, text, seen, acked, known,
          listed>>

Rows == [prompt : Prompts, version : Nat \ {0}, template : Templates]
Acks == [req : Requests, row : Rows]

Labels == {"idle", "ok", "cut", "error",
           "insert_prompt", "insert_first", "commit_create",   \* Create
           "select", "insert", "update", "commit",             \* CreateVersion
           "read_current", "fetch_current", "fetch",           \* RenderPrompt
           "read_prompt", "list"}                              \* GetByID

\* "cut" is an answer of success whose list is cut short.
Finished == {"ok", "cut", "error"}
HoldsLock == {"insert", "update", "commit"}

VersionsOf(p) == {row.version : row \in {x \in rows : x.prompt = p}}
AckedOf(p)    == {a.row.version : a \in {x \in acked : x.row.prompt = p}}

NewRow(r, v) == [prompt |-> target[r], version |-> v, template |-> text[r]]

Goto(r, label) == pc' = [pc EXCEPT ![r] = label]

\* Faulty variant: no deferred Rollback, an ended request keeps its row lock.
ReleaseNever(r) == UNCHANGED lock

Release(r)     == lock' = [lock EXCEPT ![target[r]] = IF @ = r THEN NoRequest ELSE @]

-----------------------------------------------------------------------------

Init ==
    /\ current = [p \in Prompts |-> 0]
    /\ rows = {}
    /\ claimed = {}
    /\ lock = [p \in Prompts |-> NoRequest]
    /\ pc = [r \in Requests |-> "idle"]
    /\ target \in [Requests -> Prompts]
    /\ text \in [Requests -> Templates]
    /\ seen = [r \in Requests |-> 0]
    /\ acked = {}
    /\ known = [r \in Requests |-> {}]
    /\ listed = [r \in Requests |-> {}]

(***************************************************************************)
(* Create: insert the prompt row at current_version 1, then version 1, then *)
(* commit.  The id the database draws is unused; nobody sees it before the *)
(* commit, so it is fixed when the transaction begins.                     *)
(***************************************************************************)
BeginCreate(r) ==
    /\ pc[r] = "idle"
    /\ target[r] \notin claimed
    /\ claimed' = claimed \cup {target[r]}
    /\ Goto(r, "insert_prompt")
    /\ UNCHANGED <<current, rows, lock, target, text, seen, acked, known, listed>>

InsertPrompt(r) ==
    /\ pc[r] = "insert_prompt"
    /\ Goto(r, "insert_first")
    /\ UNCHANGED <<current, rows, claimed, lock, target, text, seen, acked, known, listed>>

InsertFirst(r) ==
    /\ pc[r] = "insert_first"
    /\ Goto(r, "commit_create")
    /\ UNCHANGED <<current, rows, claimed, lock, target, text, seen, acked, known, listed>>

(***************************************************************************)
(* The two commits.  reply is FALSE when the commit took effect but its    *)
(* answer was lost: tx.Commit returns an error and so does the handler.    *)
(***************************************************************************)
\* Faulty variant: the UPDATE of prompts.current_version is missing.
PublishWithoutUpdate(r, v, reply) ==
    /\ current' = [current EXCEPT ![target[r]] = IF @ = 0 THEN v ELSE @]
    /\ rows' = rows \cup {NewRow(r, v)}
    /\ acked' = IF reply THEN acked \cup {[req |-> r, row |-> NewRow(r, v)]}
                         ELSE acked
    /\ Goto(r, IF reply THEN "ok" ELSE "error")
    /\ Release(r)
    /\ UNCHANGED <<claimed, target, text, seen, known, listed>>

\* Faulty variant: the error of tx.Commit is ignored.
PublishUnchecked(r, v, reply) ==
    /\ current' = [current EXCEPT ![target[r]] = IF reply THEN v ELSE @]
    /\ rows' = IF reply THEN rows \cup {NewRow(r, v)} ELSE rows
    /\ acked' = acked \cup {[req |-> r, row |-> NewRow(r, v)]}
    /\ Goto(r, "ok")
    /\ Release(r)
    /\ UNCHANGED <<claimed, target, text, seen, known, listed>>

\* Faulty variant: an existing version is edited in place.
PublishInPlace(r, v, reply) ==
    LET old == {row \in rows : row.prompt = target[r]} IN
    /\ current' = [current EXCEPT ![target[r]] = 1]
    /\ rows' = (rows \ old) \cup {NewRow(r, 1)}
    /\ acked' = IF reply THEN acked \cup {[req |-> r, row |-> NewRow(r, 1)]}
                         ELSE acked
    /\ Goto(r, IF reply THEN "ok" ELSE "error")
    /\ Release(r)
    /\ UNCHANGED <<claimed, target, text, seen, known, listed>>

Publish(r, v, reply) ==
    /\ current' = [current EXCEPT ![target[r]] = v]
    /\ rows' = rows \cup {NewRow(r, v)}
    /\ acked' = IF reply THEN acked \cup {[req |-> r, row |-> NewRow(r, v)]}
                         ELSE acked
    /\ Goto(r, IF reply THEN "ok" ELSE "error")
    /\ Release(r)
    /\ UNCHANGED <<claimed, target, text, seen, known, listed>>

CommitCreate(r, reply) ==
    /\ pc[r] = "commit_create"
    /\ Publish(r, 1, reply)

(***************************************************************************)
(* CreateVersion: SELECT current_version ... FOR UPDATE, insert the next   *)
(* version, move current_version, commit.                                  *)
(***************************************************************************)
BeginVersion(r) ==
    /\ pc[r] = "idle"
    /\ Goto(r, "select")
    /\ UNCHANGED <<current, rows, claimed, lock, target, text, seen, acked, known, listed>>

\* Faulty variant: the SELECT without FOR UPDATE.
SelectUnlocked(r) ==
    /\ pc[r] = "select"
    /\ current[target[r]] # 0
    /\ seen' = [seen EXCEPT ![r] = current[target[r]]]
    /\ Goto(r, "insert")
    /\ UNCHANGED <<current, rows, claimed, lock, target, text, acked, known, listed>>

SelectForUpdate(r) ==
    /\ pc[r] = "select"
    /\ current[target[r]] # 0
    /\ lock[target[r]] = NoRequest
    /\ lock' = [lock EXCEPT ![target[r]] = r]
    /\ seen' = [seen EXCEPT ![r] = current[target[r]]]
    /\ Goto(r, "insert")
    /\ UNCHANGED <<current, rows, claimed, target, text, acked, known, listed>>

\* An uncommitted row with the same UNIQUE (prompt_id, version) key makes the
\* INSERT wait for the transaction that wrote it.
ConflictsPending(r) ==
    \E q \in Requests \ {r} : /\ pc[q] \in {"update", "commit"}
                              /\ target[q] = target[r]
                              /\ seen[q] = seen[r]

\* A committed row with that key makes it fail.
UniqueViolation(r) == seen[r] + 1 \in VersionsOf(target[r])

InsertVersion(r) ==
    /\ pc[r] = "insert"
    /\ ~ConflictsPending(r)
    /\ ~UniqueViolation(r)
    /\ Goto(r, "update")
    /\ UNCHANGED <<current, rows, claimed, lock, target, text, seen, acked, known, listed>>

\* Faulty variant: the UPDATE runs on the pool and not in the transaction.
UpdateOutside(r) ==
    /\ pc[r] = "update"
    /\ current' = [current EXCEPT ![target[r]] = seen[r] + 1]
    /\ Goto(r, "commit")
    /\ UNCHANGED <<rows, claimed, lock, target, text, seen, acked, known, listed>>

UpdateCurrent(r) ==
    /\ pc[r] = "update"
    /\ lock[target[r]] \in {r, NoRequest}
    /\ lock' = [lock EXCEPT ![target[r]] = r]
    /\ Goto(r, "commit")
    /\ UNCHANGED <<current, rows, claimed, target, text, seen, acked, known, listed>>

CommitVersion(r, reply) ==
    /\ pc[r] = "commit"
    /\ Publish(r, seen[r] + 1, reply)

(***************************************************************************)
(* RenderPrompt: version 0 asks for the current one, which takes a read of *)
(* prompts first; then the row of prompt_versions, then the substitution,  *)
(* which fails when the caller's variables do not cover the template's.    *)
(***************************************************************************)
BeginRead(r, label, v) ==
    /\ pc[r] = "idle"
    /\ Goto(r, label)
    /\ seen' = [seen EXCEPT ![r] = v]
    /\ known' = [known EXCEPT ![r] = AckedOf(target[r])]
    /\ UNCHANGED <<current, rows, claimed, lock, target, text, acked, listed>>

BeginRender(r) ==
    \/ BeginRead(r, "read_current", 0)
    \/ \E v \in 1..MaxVersion : BeginRead(r, "fetch", v)

ReadRow(r, from, to) ==
    /\ pc[r] = from
    /\ current[target[r]] # 0
    /\ seen' = [seen EXCEPT ![r] = current[target[r]]]
    /\ Goto(r, to)
    /\ UNCHANGED <<current, rows, claimed, lock, target, text, acked, known, listed>>

ReadCurrent(r) == ReadRow(r, "read_current", "fetch_current")

FetchVersion(r) ==
    /\ pc[r] \in {"fetch", "fetch_current"}
    /\ \E row \in rows :
          /\ row.prompt = target[r] /\ row.version = seen[r]
          /\ text' = [text EXCEPT ![r] = row.template]
    /\ Goto(r, "ok")
    /\ UNCHANGED <<current, rows, claimed, lock, target, seen, acked, known, listed>>

(***************************************************************************)
(* GetByID: the prompt row, then the list of its versions.                 *)
(***************************************************************************)
BeginGet(r) == BeginRead(r, "read_prompt", 0)

ReadPrompt(r) == ReadRow(r, "read_prompt", "list")

ListVersions(r) ==
    /\ pc[r] = "list"
    /\ listed' = [listed EXCEPT ![r] = VersionsOf(target[r])]
    /\ Goto(r, "ok")
    /\ UNCHANGED <<current, rows, claimed, lock, target, text, seen, acked, known>>

\* The rows come newest first.  When the connection breaks or the request is cancelled
\* between two of them rows.Next ends the loop, and nobody asks rows.Err: those that
\* were read are returned as the list.
ListCut(r) ==
    /\ pc[r] = "list"
    /\ \E v \in VersionsOf(target[r]) :
          listed' = [listed EXCEPT ![r] = {w \in VersionsOf(target[r]) : w > v}]
    /\ Goto(r, "cut")
    /\ UNCHANGED <<current, rows, claimed, lock, target, text, seen, acked, known>>

Abort(r) ==
    /\ Release(r)
    /\ Goto(r, "error")
    /\ UNCHANGED <<current, rows, claimed, target, text, seen, acked, known, listed>>

\* A statement that finds no row, or meets the UNIQUE key, ends the request.
RowMissing(r) ==
    /\ pc[r] \in {"select", "read_current", "read_prompt"}
    /\ current[target[r]] = 0

VersionMissing(r) ==
    /\ pc[r] \in {"fetch", "fetch_current"}
    /\ seen[r] \notin VersionsOf(target[r])

KeyTaken(r) ==
    /\ pc[r] = "insert"
    /\ ~ConflictsPending(r)
    /\ UniqueViolation(r)

Refuse(r) ==
    /\ RowMissing(r) \/ VersionMissing(r) \/ KeyTaken(r)
    /\ Abort(r)

(***************************************************************************)
(* Every statement can also fail on its own (a lost connection, a cancelled *)
(* request, the death of the API process, missing template variables); the *)
(* deferred Rollback, or the server, undoes the transaction.               *)
(***************************************************************************)
Fail(r) ==
    /\ pc[r] \notin Finished \cup {"idle"}
    /\ Abort(r)

\* The goroutine of a request that meets no fault.
Progress(r) ==
    \/ InsertPrompt(r) \/ InsertFirst(r) \/ CommitCreate(r, TRUE)
    \/ SelectForUpdate(r) \/ InsertVersion(r) \/ UpdateCurrent(r)
    \/ CommitVersion(r, TRUE)
    \/ ReadCurrent(r) \/ FetchVersion(r) \/ ReadPrompt(r) \/ ListVersions(r)
    \/ Refuse(r)

Fault(r) == CommitCreate(r, FALSE) \/ CommitVersion(r, FALSE) \/ ListCut(r) \/ Fail(r)

Begin(r) == BeginCreate(r) \/ BeginVersion(r) \/ BeginRender(r) \/ BeginGet(r)

\* The requests of a run are all answered.
Terminating == /\ \A r \in Requests : pc[r] \in Finished
               /\ UNCHANGED vars

Next == (\E r \in Requests : Begin(r) \/ Progress(r) \/ Fault(r)) \/ Terminating

Spec == Init /\ [][Next]_vars

\* A goroutine that can run its next statement eventually does.
FairSpec == Spec /\ \A r \in Requests : WF_vars(Progress(r))

-----------------------------------------------------------------------------
(***************************************************************************)
(* Properties.                                                             *)
(***************************************************************************)

TypeOK ==
    /\ current \in [Prompts -> Nat]
    /\ rows \subseteq Rows
    /\ claimed \subseteq Prompts
    /\ lock \in [Prompts -> Requests \cup {NoRequest}]
    /\ pc \in [Requests -> Labels]
    /\ target \in [Requests -> Prompts]
    /\ text \in [Requests -> Templates]
    /\ seen \in [Requests -> Nat]
    /\ acked \subseteq Acks
    /\ known \in [Requests -> SUBSET Nat]
    /\ listed \in [Requests -> SUBSET Nat]

\* The committed versions of a prompt are 1..current_version, each with one
\* text: concurrent CreateVersion calls neither skip, reuse nor overwrite a
\* number, and current_version always points at the newest text.
HistoryContiguous ==
    /\ \A p \in Prompts : VersionsOf(p) = 1..current[p]
    /\ \A x, y \in rows :
          x.prompt = y.prompt /\ x.version = y.version => x = y

\* A creation answered with success is kept, and no two of them were answered
\* with the same version of the same prompt.
AckedDurable ==
    /\ \A a \in acked : a.row \in rows
    /\ \A a, b \in acked :
          a.row.prompt = b.row.prompt /\ a.row.version = b.row.version => a = b

\* SELECT ... FOR UPDATE serialises the writers of a prompt, so the INSERT of a
\* CreateVersion meets neither a committed nor a pending row with its key.
NoSpuriousConflict ==
    \A r \in Requests : pc[r] = "insert" => /\ ~ConflictsPending(r)
                                            /\ ~UniqueViolation(r)

\* A render of the current version, whose two reads are separate statements,
\* never misses: the version it read is there whatever committed in between.
RenderFindsCurrent ==
    \A r \in Requests : pc[r] = "fetch_current" => ~VersionMissing(r)

\* What a client was told exists before it asks is there when it reads: a
\* render of the current version is at least as new as every acknowledged one.
\* The list of a GetByID holds every acknowledged version and every version up
\* to the current_version it returns, without a gap; a list that is cut short,
\* though answered as a success, lacks old versions only: what is newer than a
\* listed version is listed.
ReadsSeeAcked ==
    \A r \in Requests :
        /\ pc[r] \in {"fetch_current", "list"} => \A v \in known[r] : v <= seen[r]
        /\ \A v \in listed[r] :
              \A w \in known[r] \cup listed[r] \cup {seen[r]} : v..w \subseteq listed[r]
        /\ listed[r] # {} /\ pc[r] # "cut" => 1 \in listed[r]

\* Without faults every request is answered: writers of one prompt wait for
\* each other's row lock but never in a cycle, and no lock outlives its request.
AllAnswered ==
    \A r \in Requests : pc[r] # "idle" ~> pc[r] \in Finished
=============================================================================
