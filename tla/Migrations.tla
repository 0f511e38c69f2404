----------------------------- MODULE Migrations -----------------------------
(***************************************************************************)
(* RunMigrations (internal/database/migrations.go), run by every instance  *)
(* of the API at startup (cmd/api/main.go), over one PostgreSQL database.  *)
(* Instances may start together, be of different releases, fail, crash and *)
(* start again.                                                            *)
(*                                                                         *)
(* "make migrate" (Makefile) applies the same files with psql, any number   *)
(* of times.  psql commits every statement on its own, goes on after one   *)
(* that fails, and writes nothing to schema_migrations; the loop goes on   *)
(* with the next file whatever psql returned.  So the files are modelled as *)
(* their statements, numbered in the order they are run.                   *)
(***************************************************************************)
EXTENDS Integers, Sequences

CONSTANTS
    Instances,   \* API processes
    Files,       \* how many migration files the release of each carries
    FileOf,      \* the file (1, 2, ...) of each statement, in order
    Needs,       \* the statements whose objects a statement refers to
    Named,       \* statements that fail when their object exists (CREATE TABLE)
    Unnamed,     \* statements that add another object each time (CREATE INDEX ON)
    MaxRounds,   \* bound on the runs of make migrate
    MaxFaults    \* bound on database errors, crashes and restarts

Last == Len(FileOf)
Statements == 1..Last

\* Neither named nor unnamed: guarded by IF NOT EXISTS, run again without effect.
ASSUME FilesAssumption == Files \in [Instances -> Nat]
ASSUME StatementsAssumption ==
    /\ FileOf \in Seq(Nat \ {0})
    /\ Needs \in [Statements -> SUBSET Statements]
    /\ Named \cap Unnamed = {}
ASSUME MaxRoundsAssumption == MaxRounds \in Nat
ASSUME MaxFaultsAssumption == MaxFaults \in Nat

VARIABLES
    table,     \* does the table schema_migrations exist?
    recorded,  \* its committed rows
    copies,    \* how many committed objects each statement has made
    applied,   \* ghost: times RunMigrations committed each version
    pc,        \* what each instance is doing
    at,        \* the version its loop is at
    sawTable,  \* did its CREATE TABLE IF NOT EXISTS find the table?
    result,    \* of its latest RunMigrations: none, ok, error
    psql,      \* the statement make migrate is at, 0 while it is not run
    rounds,    \* how often it was started
    faults     \* faults so far

database == <<recorded, copies, applied>>
manual == <<psql, rounds>>
vars == <<table, database, pc, at, sawTable, result, manual, faults>>

Versions == UNION {1..Files[i] : i \in Instances}

Of(v) == {s \in Statements : FileOf[s] = v}
Exists(s) == copies[s] > 0

\* The SQL of version v has been run in a transaction that is not over: whoever
\* creates the same objects waits for its end.
Open(i, v) == pc[i] \in {"record", "commit"} /\ at[i] = v
Busy(v) == \E i \in Instances : Open(i, v)

Goto(i, label) == pc' = [pc EXCEPT ![i] = label]

\* RunMigrations returns, with its transaction rolled back if one is open; the API
\* starts serving whatever it returned.
Return(i, r) ==
    /\ Goto(i, "serving")
    /\ result' = [result EXCEPT ![i] = r]

Fault == faults < MaxFaults /\ faults' = faults + 1

-----------------------------------------------------------------------------

Init ==
    /\ table = FALSE
    /\ recorded = {}
    /\ copies = [s \in Statements |-> 0]
    /\ applied = [v \in Versions |-> 0]
    /\ pc = [i \in Instances |-> "down"]
    /\ at = [i \in Instances |-> 0]
    /\ sawTable = [i \in Instances |-> FALSE]
    /\ result = [i \in Instances |-> "none"]
    /\ psql = 0
    /\ rounds = 0
    /\ faults = 0

Start(i) ==
    /\ pc[i] = "down"
    /\ Goto(i, "create")
    /\ at' = [at EXCEPT ![i] = 1]
    /\ sawTable' = [sawTable EXCEPT ![i] = table]
    /\ UNCHANGED <<table, database, result, manual, faults>>

\* Of two instances that create the table at once one may get a unique violation of
\* the system catalog, IF NOT EXISTS notwithstanding.
CreateTable(i) ==
    /\ pc[i] = "create"
    /\ table' = TRUE
    /\ \/ Goto(i, "check") /\ UNCHANGED result
       \/ table /\ ~sawTable[i] /\ Return(i, "error")
    /\ UNCHANGED <<database, at, sawTable, manual, faults>>

\* SELECT EXISTS, outside of any transaction: continue when the version is recorded.
Check(i) ==
    /\ pc[i] = "check"
    /\ IF at[i] > Files[i]
         THEN Return(i, "ok") /\ UNCHANGED at
         ELSE /\ UNCHANGED result
              /\ IF at[i] \in recorded
                   THEN at' = [at EXCEPT ![i] = @ + 1] /\ UNCHANGED pc
                   ELSE Goto(i, "exec") /\ UNCHANGED at
    /\ UNCHANGED <<table, database, sawTable, manual, faults>>

\* All statements of a file, in one transaction, meet neither an object that exists
\* nor one that is missing.
Runnable(v) ==
    \A s \in Of(v) : (s \in Named => ~Exists(s)) /\ \A n \in Needs[s] : Exists(n) \/ n \in Of(v)

\* Faulty variant: a file that fails is skipped, as psql would.
ExecOrSkip(i) ==
    /\ pc[i] = "exec"
    /\ ~Busy(at[i])
    /\ IF Runnable(at[i]) THEN Goto(i, "record") /\ UNCHANGED at
                          ELSE Goto(i, "check") /\ at' = [at EXCEPT ![i] = @ + 1]
    /\ UNCHANGED <<table, database, sawTable, result, manual, faults>>

\* Begin and run the SQL: wait for an open transaction on the same version; one
\* statement that fails ends it.
Exec(i) ==
    /\ pc[i] = "exec"
    /\ ~Busy(at[i])
    /\ IF Runnable(at[i]) THEN Goto(i, "record") /\ UNCHANGED result
                          ELSE Return(i, "error")
    /\ UNCHANGED <<table, database, at, sawTable, manual, faults>>

\* Faulty variant: ON CONFLICT DO NOTHING.
RecordAnyway(i) ==
    /\ pc[i] = "record"
    /\ Goto(i, "commit")
    /\ UNCHANGED <<table, database, at, sawTable, result, manual, faults>>

\* The version is the primary key of schema_migrations.
Record(i) ==
    /\ pc[i] = "record"
    /\ IF at[i] \in recorded
         THEN Return(i, "error")
         ELSE Goto(i, "commit") /\ UNCHANGED result
    /\ UNCHANGED <<table, database, at, sawTable, manual, faults>>

\* The objects of a statement after it was run once more.
OneMore(s) == IF s \in Named \cup Unnamed THEN copies[s] + 1 ELSE 1

Apply(i) ==
    /\ recorded' = recorded \cup {at[i]}
    /\ copies' = [s \in Statements |-> IF FileOf[s] = at[i] THEN OneMore(s) ELSE copies[s]]
    /\ applied' = [applied EXCEPT ![at[i]] = @ + 1]

\* Faulty variant: the SQL is run outside of the transaction that records it.
CommitRecordOnly(i) ==
    /\ pc[i] = "commit"
    /\ recorded' = recorded \cup {at[i]}
    /\ at' = [at EXCEPT ![i] = @ + 1]
    /\ Goto(i, "check")
    /\ UNCHANGED <<table, copies, applied, sawTable, result, manual, faults>>

Commit(i) ==
    /\ pc[i] = "commit"
    /\ Apply(i)
    /\ at' = [at EXCEPT ![i] = @ + 1]
    /\ Goto(i, "check")
    /\ UNCHANGED <<table, sawTable, result, manual, faults>>

\* Any statement may fail, a commit with or without effect.
Fails(i) ==
    /\ pc[i] \in {"create", "check", "exec", "record", "commit"}
    /\ Fault
    /\ Return(i, "error")
    /\ \/ UNCHANGED database
       \/ pc[i] = "commit" /\ Apply(i)
    /\ UNCHANGED <<table, at, sawTable, manual>>

\* A crash or a redeployment; the database rolls an open transaction back.
Stop(i) ==
    /\ pc[i] # "down"
    /\ Fault
    /\ Goto(i, "down")
    /\ at' = [at EXCEPT ![i] = 0]
    /\ sawTable' = [sawTable EXCEPT ![i] = FALSE]
    /\ result' = [result EXCEPT ![i] = "none"]
    /\ UNCHANGED <<table, database, manual>>

(***************************************************************************)
(* make migrate.                                                           *)
(***************************************************************************)
MakeMigrate ==
    /\ psql = 0
    /\ rounds < MaxRounds
    /\ psql' = 1
    /\ rounds' = rounds + 1
    /\ UNCHANGED <<table, database, pc, at, sawTable, result, faults>>

Missing(s) == \E n \in Needs[s] : ~Exists(n)

\* The statement commits alone, after an open transaction on its file.
PsqlRuns ==
    /\ psql \in Statements
    /\ ~Missing(psql) /\ ~Busy(FileOf[psql])
    /\ psql \in Named => ~Exists(psql)
    /\ copies' = [copies EXCEPT ![psql] = OneMore(psql)]
    /\ psql' = psql + 1
    /\ UNCHANGED <<table, recorded, applied, pc, at, sawTable, result, rounds, faults>>

\* It fails, and psql goes on: there is no ON_ERROR_STOP.
PsqlFails ==
    /\ psql \in Statements
    /\ Missing(psql) \/ (psql \in Named /\ Exists(psql))
    /\ psql' = psql + 1
    /\ UNCHANGED <<table, database, pc, at, sawTable, result, rounds, faults>>

\* It fails on its own (CREATE EXTENSION without the extension), or the connection is
\* lost and the loop goes on with another file, or make is interrupted.
FileStarts(s) == s = Last + 1 \/ FileOf[s] # FileOf[s - 1]
PsqlBroken ==
    /\ psql \in Statements
    /\ Fault
    /\ psql' \in {s \in (psql + 1)..(Last + 1) : s = psql + 1 \/ FileStarts(s)}
    /\ UNCHANGED <<table, database, pc, at, sawTable, result, rounds>>

PsqlDone ==
    /\ psql = Last + 1
    /\ psql' = 0
    /\ UNCHANGED <<table, database, pc, at, sawTable, result, rounds, faults>>

Serving ==
    /\ \A i \in Instances : pc[i] = "serving"
    /\ UNCHANGED vars

Step(i) == Start(i) \/ CreateTable(i) \/ Check(i) \/ Exec(i) \/ Record(i) \/ Commit(i)

Next ==
    \/ \E i \in Instances : Step(i) \/ Fails(i) \/ Stop(i)
    \/ MakeMigrate \/ PsqlRuns \/ PsqlFails \/ PsqlBroken \/ PsqlDone
    \/ Serving

Spec == Init /\ [][Next]_vars

-----------------------------------------------------------------------------
(***************************************************************************)
(* Properties.                                                             *)
(***************************************************************************)

TypeOK ==
    /\ table \in BOOLEAN
    /\ recorded \subseteq Versions
    /\ copies \in [Statements -> Nat]
    /\ applied \in [Versions -> Nat]
    /\ pc \in [Instances -> {"down", "create", "check", "exec", "record", "commit", "serving"}]
    /\ at \in [Instances -> Nat] /\ \A i \in Instances : at[i] <= Files[i] + 1
    /\ sawTable \in [Instances -> BOOLEAN]
    /\ result \in [Instances -> {"none", "ok", "error"}]
    /\ psql \in 0..(Last + 1)
    /\ rounds \in 0..MaxRounds
    /\ faults \in 0..MaxFaults

\* Whatever instances race or crash, and whatever part of the files make migrate has
\* applied, the records grow in the order of the files, without a gap, and a version
\* is recorded only with all of its objects.
InOrder ==
    /\ \A v \in recorded : 1..v \subseteq recorded
    /\ \A s \in Statements : FileOf[s] \in recorded => Exists(s)

\* RunMigrations takes effect exactly once for the versions that are recorded, and
\* never for another.  It makes no object twice: a second copy is of an unnamed index,
\* and each run of make migrate adds one at most.
RunOnce ==
    /\ \A v \in Versions : applied[v] = IF v \in recorded THEN 1 ELSE 0
    /\ \A s \in Statements :
          copies[s] <= IF s \notin Unnamed THEN 1
                       ELSE IF FileOf[s] \in recorded THEN rounds + 1 ELSE rounds

\* RunMigrations returns no error only when every file it found is recorded.
OkMeansApplied == \A i \in Instances : result[i] = "ok" => 1..Files[i] \subseteq recorded

=============================================================================
