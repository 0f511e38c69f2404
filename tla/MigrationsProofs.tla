-------------------------- MODULE MigrationsProofs --------------------------
(***************************************************************************)
(* What instances that race, fail, crash and restart can make of the schema, *)
(* for every set of instances, whatever files each of them carries, next to *)
(* any number of runs of make migrate.                                     *)
(***************************************************************************)
EXTENDS Migrations, TLAPS

Looping == {"check", "exec", "record", "commit"}

\* What an instance is past is recorded.
Past ==
    \A i \in Instances :
        /\ pc[i] \in Looping => at[i] # 0 /\ 1..(at[i] - 1) \subseteq recorded
        /\ pc[i] \in Looping \ {"check"} => at[i] \in 1..Files[i]
        /\ pc[i] = "create" => at[i] = 1

\* An open transaction has its version to itself: nobody makes its tables or records
\* it meanwhile.
Alone ==
    /\ \A i, j \in Instances : \A v \in Versions : Open(i, v) /\ Open(j, v) => i = j
    /\ \A i \in Instances : \A v \in Versions : \A s \in Named :
          Open(i, v) /\ s \in Of(v) => copies[s] = 0
    /\ \A i \in Instances : pc[i] = "commit" => at[i] \notin recorded

\* make migrate runs a statement once a round.
Tries(s) == IF 0 < psql /\ psql <= s THEN rounds - 1 ELSE rounds

Copied(s) == copies[s] <= IF s \notin Unnamed THEN 1
                          ELSE IF FileOf[s] \in recorded THEN Tries(s) + 1 ELSE Tries(s)

Rounds == psql # 0 => rounds > 0

\* Every object is accounted for.
Counted ==
    /\ \A v \in Versions : applied[v] = IF v \in recorded THEN 1 ELSE 0
    /\ \A s \in Statements : Copied(s)

IInv == TypeOK /\ InOrder /\ OkMeansApplied /\ Past /\ Alone /\ Counted /\ Rounds

-----------------------------------------------------------------------------

LEMMA VersionsFacts ==
    /\ Versions \subseteq Nat \ {0}
    /\ \A i \in Instances : Files[i] \in Nat /\ 1..Files[i] \subseteq Versions
  BY FilesAssumption DEF Versions

LEMMA StatementsFacts ==
    /\ Last \in Nat
    /\ Statements \subseteq Nat \ {0}
    /\ \A s \in Statements : s <= Last /\ FileOf[s] \in Nat
  BY StatementsAssumption DEF Statements, Last

LEMMA CountedIsRunOnce == IInv => RunOnce
<1>. SUFFICES ASSUME IInv PROVE RunOnce
  OBVIOUS
<1>1. \A s \in Statements : rounds \in Nat /\ Tries(s) <= rounds /\ Tries(s) \in Int
  BY StatementsFacts, MaxRoundsAssumption DEF IInv, TypeOK, Tries
<1>2. \A s \in Statements :
          copies[s] <= IF s \notin Unnamed THEN 1
                       ELSE IF FileOf[s] \in recorded THEN rounds + 1 ELSE rounds
  BY <1>1 DEF IInv, TypeOK, Counted, Copied
<1>. QED
  BY <1>2 DEF IInv, Counted, RunOnce

LEMMA InitInductive == Init => IInv
<1>. SUFFICES ASSUME Init PROVE IInv
  OBVIOUS
<1>. USE DEF Init
<1>1. TypeOK
  <2>1. \A i \in Instances : at[i] <= Files[i] + 1
    <3>1. \A i \in Instances : at[i] = 0 /\ Files[i] \in Nat
      BY FilesAssumption
    <3>2. \A f \in Nat : 0 <= f + 1
      OBVIOUS
    <3>. QED
      BY <3>1, <3>2, Zenon
  <2>2. faults \in 0..MaxFaults /\ rounds \in 0..MaxRounds /\ psql \in 0..(Last + 1)
    BY MaxFaultsAssumption, MaxRoundsAssumption, StatementsFacts
  <2>. QED
    BY <2>1, <2>2 DEF TypeOK
<1>2. InOrder /\ OkMeansApplied /\ Past /\ Alone
  BY VersionsFacts, StatementsFacts DEF InOrder, OkMeansApplied, Past, Alone, Looping, Open, Of
<1>3. Counted /\ Rounds
  BY StatementsFacts DEF Counted, Copied, Tries, Rounds
<1>. QED
  BY <1>1, <1>2, <1>3 DEF IInv

\* A step that commits nothing and moves one instance, to a place where the
\* invariant's conditions on that instance hold.
LEMMA MoveKeeps ==
    ASSUME IInv, TypeOK', NEW i \in Instances,
           UNCHANGED <<database, manual>>,
           \A j \in Instances \ {i} : pc'[j] = pc[j] /\ at'[j] = at[j] /\ result'[j] = result[j],
           result'[i] = "ok" => 1..Files[i] \subseteq recorded,
           pc'[i] \in Looping => at'[i] # 0 /\ 1..(at'[i] - 1) \subseteq recorded,
           pc'[i] \in Looping \ {"check"} => at'[i] \in 1..Files[i],
           pc'[i] = "create" => at'[i] = 1,
           pc'[i] \in {"record", "commit"} =>
               /\ \A s \in Named \cap Of(at'[i]) : copies[s] = 0
               /\ \A j \in Instances \ {i} : ~Open(j, at'[i]),
           pc'[i] = "commit" => at'[i] \notin recorded
    PROVE  IInv'
<1>. USE DEF IInv, database, manual
<1>1. InOrder' /\ Counted' /\ Rounds'
  BY DEF InOrder, Counted, Copied, Tries, Rounds, Exists
<1>2. OkMeansApplied' /\ Past'
  BY DEF OkMeansApplied, Past
<1>3. Alone'
  BY DEF Alone, Open, Of
<1>. QED
  BY <1>1, <1>2, <1>3

LEMMA ApplyTypes ==
    ASSUME TypeOK, NEW i \in Instances, at[i] \in Versions, Apply(i)
    PROVE  /\ recorded' \subseteq Versions
           /\ copies' \in [Statements -> Nat]
           /\ applied' \in [Versions -> Nat]
<1>1. \A s \in Statements : OneMore(s) \in Nat
  BY DEF OneMore, TypeOK
<1>. QED
  BY <1>1 DEF Apply, TypeOK

\* The commit of a version by the instance that has it open.
LEMMA ApplyKeeps ==
    ASSUME IInv, NEW i \in Instances, pc[i] = "commit", Apply(i), TypeOK', UNCHANGED manual,
           \A j \in Instances \ {i} : pc'[j] = pc[j] /\ at'[j] = at[j] /\ result'[j] = result[j],
           \/ pc'[i] = "serving" /\ result'[i] = "error"
           \/ pc'[i] = "check" /\ at'[i] = at[i] + 1 /\ result'[i] = result[i]
    PROVE  IInv'
<1>. USE DEF IInv
<1>0. PICK w \in Versions :
          w = at[i] /\ w \in Nat /\ 1..(w - 1) \subseteq recorded /\ Open(i, w) /\ w \notin recorded
  BY VersionsFacts DEF Past, Looping, Open, Alone
<1>1. /\ recorded' = recorded \cup {w} /\ applied' = [applied EXCEPT ![w] = @ + 1]
      /\ copies' = [s \in Statements |-> IF FileOf[s] = w THEN OneMore(s) ELSE copies[s]]
      /\ psql' = psql /\ rounds' = rounds
  BY <1>0 DEF Apply, manual
<1>c. \A s \in Statements :
          /\ copies[s] \in Nat
          /\ copies'[s] = IF FileOf[s] = w THEN OneMore(s) ELSE copies[s]
          /\ OneMore(s) = IF s \in Named \cup Unnamed THEN copies[s] + 1 ELSE 1
  BY <1>1 DEF TypeOK, OneMore
<1>2. InOrder'
  <2>1. 1..w \subseteq recorded \cup {w}
    BY <1>0
  <2>2. ASSUME NEW v \in recorded' PROVE 1..v \subseteq recorded'
    BY <1>1, <2>1, <2>2 DEF InOrder
  <2>3. ASSUME NEW s \in Statements, FileOf[s] \in recorded' PROVE copies'[s] > 0
    BY <1>1, <1>c, <2>3 DEF InOrder, Exists
  <2>. QED
    BY <2>2, <2>3 DEF InOrder, Exists
<1>3. Counted'
  <2>1. \A v \in Versions : applied'[v] = IF v = w THEN applied[v] + 1 ELSE applied[v]
    BY <1>1 DEF TypeOK
  <2>2. \A v \in Versions : applied'[v] = IF v \in recorded' THEN 1 ELSE 0
    BY <1>0, <1>1, <2>1 DEF Counted
  <2>3. ASSUME NEW s \in Statements PROVE Copied(s)'
    <3>1. Tries(s)' = Tries(s) /\ Tries(s) \in Int
      BY <1>1, StatementsFacts, MaxRoundsAssumption DEF Tries, TypeOK
    <3>2. Copied(s) /\ (Copied(s)' <=> copies'[s] <=
              IF s \notin Unnamed THEN 1
              ELSE IF FileOf[s] \in recorded' THEN Tries(s) + 1 ELSE Tries(s))
      BY <3>1 DEF Counted, Copied
    <3>3. CASE FileOf[s] # w
      BY <1>1, <1>c, <3>1, <3>2, <3>3 DEF Copied
    <3>4. CASE FileOf[s] = w /\ s \in Unnamed
      BY <1>0, <1>1, <1>c, <3>1, <3>2, <3>4 DEF Copied
    <3>5. CASE FileOf[s] = w /\ s \notin Unnamed
      <4>1. s \in Named => copies[s] = 0
        BY <1>0, <3>5 DEF Alone, Of
      <4>. QED
        BY <1>c, <3>2, <3>5, <4>1
    <3>. QED
      BY <3>3, <3>4, <3>5
  <2>. QED
    BY <2>2, <2>3 DEF Counted
<1>4. OkMeansApplied'
  BY <1>1 DEF OkMeansApplied
<1>5. Past'
  <2>1. ASSUME NEW j \in Instances, j # i
        PROVE  /\ pc'[j] \in Looping => at'[j] # 0 /\ 1..(at'[j] - 1) \subseteq recorded'
               /\ pc'[j] \in Looping \ {"check"} => at'[j] \in 1..Files[j]
               /\ pc'[j] = "create" => at'[j] = 1
    BY <1>1, <2>1 DEF Past
  <2>2. /\ pc'[i] \in Looping => at'[i] # 0 /\ 1..(at'[i] - 1) \subseteq recorded'
        /\ pc'[i] \in Looping \ {"check"} => at'[i] \in 1..Files[i]
        /\ pc'[i] = "create" => at'[i] = 1
    BY <1>0, <1>1 DEF Looping
  <2>. QED
    BY <2>1, <2>2 DEF Past
<1>6. Alone'
  <2>1. ASSUME NEW j \in Instances, NEW v \in Versions, Open(j, v)'
        PROVE  j # i /\ Open(j, v) /\ v # w
    BY <1>0, <2>1 DEF Alone, Open
  <2>2. ASSUME NEW j \in Instances, NEW v \in Versions, NEW s \in Named, Open(j, v)', s \in Of(v)
        PROVE  copies'[s] = 0
    <3>1. s \in Statements /\ FileOf[s] # w /\ copies[s] = 0
      BY <2>1, <2>2 DEF Alone, Of
    <3>. QED
      BY <1>c, <3>1
  <2>3. ASSUME NEW j \in Instances, pc'[j] = "commit" PROVE at'[j] \notin recorded'
    <3>1. j # i
      BY <2>3
    <3>2. pc[j] = "commit" /\ at'[j] = at[j] /\ at[j] \in Versions
      BY <2>3, <3>1, VersionsFacts DEF Past, Looping
    <3>3. at[j] # w
      BY <1>0, <3>1, <3>2 DEF Alone, Open
    <3>. QED
      BY <1>1, <3>2, <3>3 DEF Alone
  <2>4. \A j, k \in Instances : \A v \in Versions : Open(j, v)' /\ Open(k, v)' => j = k
    BY <2>1 DEF Alone
  <2>5. (\A j \in Instances : \A v \in Versions : \A s \in Named :
            Open(j, v) /\ s \in Of(v) => copies[s] = 0)'
    BY <2>2 DEF Of
  <2>. QED
    BY <2>3, <2>4, <2>5 DEF Alone
<1>7. Rounds'
  BY <1>1 DEF Rounds
<1>. QED
  BY <1>2, <1>3, <1>4, <1>5, <1>6, <1>7

\* make migrate moves on: what it has just run is one more copy at most.
LEMMA PsqlKeeps ==
    ASSUME IInv, TypeOK', UNCHANGED <<recorded, applied, pc, at, result, rounds>>,
           psql \in Statements, psql' > psql,
           \/ copies' = copies
           \/ /\ copies' = [copies EXCEPT ![psql] = OneMore(psql)]
              /\ psql \in Named => copies[psql] = 0
              /\ ~Busy(FileOf[psql])
    PROVE  IInv'
<1>. USE DEF IInv
<1>0. PICK p \in Statements : p = psql /\ p \in Nat /\ p # 0
  BY StatementsFacts
<1>1. \A s \in Statements :
          /\ copies[s] \in Nat /\ copies'[s] \in Nat
          /\ s # p => copies'[s] = copies[s]
          /\ OneMore(s) = IF s \in Named \cup Unnamed THEN copies[s] + 1 ELSE 1
  BY <1>0 DEF TypeOK, OneMore
<1>2. \/ copies'[p] = copies[p]
      \/ /\ copies'[p] = OneMore(p)
         /\ p \in Named => copies[p] = 0
         /\ ~Busy(FileOf[p])
  BY <1>0 DEF TypeOK
<1>3. InOrder'
  <2>1. \A s \in Statements : copies[s] > 0 => copies'[s] > 0
    BY <1>1, <1>2
  <2>. QED
    BY <2>1 DEF InOrder, Exists
<1>4. Counted'
  <2>1. ASSUME NEW s \in Statements PROVE Copied(s)'
    <3>1. /\ rounds \in Nat /\ psql' \in Nat /\ psql' > p /\ s \in Nat
          /\ Tries(s)' = IF 0 < psql' /\ psql' <= s THEN rounds - 1 ELSE rounds
          /\ Tries(s) = IF 0 < p /\ p <= s THEN rounds - 1 ELSE rounds
      BY <1>0, StatementsFacts, MaxRoundsAssumption DEF Tries, TypeOK
    <3>2. Tries(s) \in Int /\ Tries(s)' \in Int /\ Tries(s) <= Tries(s)'
      BY <1>0, <3>1
    <3>3. Tries(p)' = Tries(p) + 1
      BY <1>0, StatementsFacts, MaxRoundsAssumption DEF Tries, TypeOK
    <3>4. Copied(s) /\ (Copied(s)' <=> copies'[s] <=
              IF s \notin Unnamed THEN 1
              ELSE IF FileOf[s] \in recorded THEN Tries(s)' + 1 ELSE Tries(s)')
      BY DEF Counted, Copied
    <3>5. CASE copies'[s] = copies[s]
      BY <1>1, <3>2, <3>4, <3>5 DEF Copied
    <3>6. CASE copies'[s] # copies[s]
      <4>1. s = p /\ copies'[s] = OneMore(s) /\ (s \in Named => copies[s] = 0)
        BY <1>1, <1>2, <3>6
      <4>2. CASE s \in Unnamed
        BY <1>1, <3>2, <3>3, <3>4, <4>1, <4>2 DEF Copied
      <4>3. CASE s \notin Unnamed
        BY <1>1, <3>4, <4>1, <4>3
      <4>. QED
        BY <4>2, <4>3
    <3>. QED
      BY <3>5, <3>6
  <2>. QED
    BY <2>1 DEF Counted
<1>5. Alone'
  <2>1. ASSUME NEW i \in Instances, NEW v \in Versions, NEW s \in Named, Open(i, v), s \in Of(v)
        PROVE  copies'[s] = 0
    <3>1. s \in Statements /\ copies[s] = 0 /\ FileOf[s] = v
      BY <2>1 DEF Alone, Of
    <3>2. CASE copies'[s] # copies[s]
      <4>1. s = p /\ ~Busy(FileOf[p])
        BY <1>1, <1>2, <3>1, <3>2
      <4>. QED
        BY <2>1, <3>1, <4>1 DEF Busy
    <3>. QED
      BY <3>1, <3>2
  <2>. QED
    BY <2>1 DEF Alone, Open, Of
<1>6. OkMeansApplied' /\ Past' /\ Rounds'
  BY <1>0 DEF OkMeansApplied, Past, Rounds
<1>. QED
  BY <1>3, <1>4, <1>5, <1>6

LEMMA NextInductive == IInv /\ [Next]_vars => IInv'
<1>. SUFFICES ASSUME IInv, [Next]_vars PROVE IInv'
  OBVIOUS
<1>. USE DEF IInv
<1>t. \A i \in Instances :
         /\ at[i] \in Nat /\ Files[i] \in Nat /\ at[i] <= Files[i] + 1
         /\ pc[i] \in Looping \ {"check"} => at[i] \in Versions
  BY VersionsFacts DEF TypeOK, Past
<1>f. /\ faults \in Nat /\ MaxFaults \in Nat /\ faults <= MaxFaults
      /\ rounds \in Nat /\ MaxRounds \in Nat /\ rounds <= MaxRounds
      /\ psql \in Nat /\ psql <= Last + 1 /\ Last \in Nat
  BY MaxFaultsAssumption, MaxRoundsAssumption, StatementsFacts DEF TypeOK
<1>. USE DEF database, manual
<1>1. ASSUME NEW i \in Instances, Start(i) PROVE IInv'
  <2>1. TypeOK'
    BY <1>1, <1>t DEF Start, Goto, TypeOK
  <2>. QED
    BY <1>1, <2>1, MoveKeeps DEF Start, Goto, TypeOK, Looping, OkMeansApplied
<1>2. ASSUME NEW i \in Instances, CreateTable(i) PROVE IInv'
  <2>1. TypeOK'
    BY <1>2, <1>t DEF CreateTable, Goto, Return, TypeOK
  <2>2. at[i] = 1
    BY <1>2 DEF CreateTable, Past
  <2>. QED
    BY <1>2, <2>1, <2>2, <1>t, MoveKeeps DEF CreateTable, Goto, Return, TypeOK, Looping, OkMeansApplied
<1>3. ASSUME NEW i \in Instances, Check(i) PROVE IInv'
  <2>0. pc[i] = "check" /\ at[i] # 0 /\ 1..(at[i] - 1) \subseteq recorded
    BY <1>3 DEF Check, Past, Looping
  <2>1. CASE at[i] > Files[i]
    <3>1. TypeOK'
      BY <1>3, <2>1, <1>t DEF Check, Return, Goto, TypeOK
    <3>2. 1..Files[i] \subseteq recorded
      BY <2>0, <2>1, <1>t
    <3>. QED
      BY <1>3, <2>1, <3>1, <3>2, MoveKeeps DEF Check, Return, Goto, TypeOK, Looping
  <2>2. CASE at[i] <= Files[i] /\ at[i] \in recorded
    <3>1. TypeOK'
      BY <1>3, <2>2, <1>t DEF Check, TypeOK
    <3>2. 1..(at'[i] - 1) \subseteq recorded /\ pc'[i] = "check" /\ result'[i] = result[i]
      BY <1>3, <2>0, <2>2, <1>t DEF Check, TypeOK
    <3>. QED
      BY <1>3, <2>2, <1>t, <3>1, <3>2, MoveKeeps DEF Check, TypeOK, Looping, OkMeansApplied
  <2>3. CASE at[i] <= Files[i] /\ at[i] \notin recorded
    <3>1. TypeOK'
      BY <1>3, <2>3, <1>t DEF Check, Goto, TypeOK
    <3>2. at[i] \in 1..Files[i] /\ pc'[i] = "exec" /\ at' = at /\ result' = result
      BY <1>3, <2>0, <2>3, <1>t DEF Check, Goto, TypeOK
    <3>3. UNCHANGED <<database, manual>> /\ at'[i] = at[i]
      BY <1>3, <3>2 DEF Check
    <3>4. \A j \in Instances \ {i} : pc'[j] = pc[j] /\ at'[j] = at[j] /\ result'[j] = result[j]
      <4>1. pc' = [pc EXCEPT ![i] = "exec"]
        BY <1>3, <2>3, <1>t DEF Check, Goto
      <4>. QED
        BY <3>2, <4>1 DEF TypeOK
    <3>5. result'[i] = "ok" => 1..Files[i] \subseteq recorded
      BY <3>2 DEF OkMeansApplied
    <3>. QED
      BY <2>0, <3>1, <3>2, <3>3, <3>4, <3>5, MoveKeeps DEF Looping
  <2>. QED
    BY <2>1, <2>2, <2>3, <1>t
<1>4. ASSUME NEW i \in Instances, Exec(i) PROVE IInv'
  <2>1. TypeOK'
    BY <1>4, <1>t DEF Exec, Return, Goto, TypeOK
  <2>2. at[i] \in 1..Files[i] /\ 1..(at[i] - 1) \subseteq recorded /\ pc[i] = "exec"
    BY <1>4 DEF Exec, Past, Looping
  <2>3. \A j \in Instances : ~Open(j, at[i])
    BY <1>4 DEF Exec, Busy
  <2>4. pc'[i] = "record" => \A s \in Named \cap Of(at[i]) : copies[s] = 0
    <3>1. pc'[i] = "record" => Runnable(at[i])
      BY <1>4 DEF Exec, Return, Goto, TypeOK
    <3>2. \A s \in Of(at[i]) : copies[s] \in Nat
      BY DEF Of, TypeOK
    <3>. QED
      BY <3>1, <3>2 DEF Runnable, Exists
  <2>. QED
    BY <1>4, <2>1, <2>2, <2>3, <2>4, MoveKeeps DEF Exec, Return, Goto, TypeOK, Looping, OkMeansApplied
<1>5. ASSUME NEW i \in Instances, Record(i) PROVE IInv'
  <2>1. TypeOK'
    BY <1>5, <1>t DEF Record, Return, Goto, TypeOK
  <2>2. at[i] \in 1..Files[i] /\ 1..(at[i] - 1) \subseteq recorded /\ pc[i] = "record"
    BY <1>5 DEF Record, Past, Looping
  <2>3. PICK v \in Versions : v = at[i]
    BY <2>2, <1>t DEF Looping
  <2>4. /\ \A s \in Named \cap Of(v) : copies[s] = 0
        /\ \A j \in Instances \ {i} : ~Open(j, v)
    BY <2>2, <2>3 DEF Alone, Open
  <2>. QED
    BY <1>5, <2>1, <2>2, <2>3, <2>4, MoveKeeps
       DEF Record, Return, Goto, TypeOK, Looping, OkMeansApplied
<1>6. ASSUME NEW i \in Instances, Commit(i) PROVE IInv'
  <2>1. pc[i] = "commit" /\ at[i] \in 1..Files[i] /\ at[i] \in Versions
    BY <1>6, <1>t DEF Commit, Past, Looping
  <2>2. TypeOK'
    BY <1>6, <2>1, <1>t, ApplyTypes DEF Commit, Goto, TypeOK
  <2>. QED
    BY <1>6, <2>2, ApplyKeeps DEF Commit, Goto, TypeOK
<1>7. ASSUME NEW i \in Instances, Fails(i) PROVE IInv'
  <2>1. CASE UNCHANGED <<recorded, copies, applied>>
    <3>1. TypeOK'
      BY <1>7, <2>1, <1>t, <1>f DEF Fails, Fault, Return, Goto, TypeOK
    <3>. QED
      BY <1>7, <2>1, <3>1, MoveKeeps DEF Fails, Return, Goto, TypeOK, Looping
  <2>2. CASE pc[i] = "commit" /\ Apply(i)
    <3>1. at[i] \in Versions
      BY <2>2, <1>t DEF Looping
    <3>2. TypeOK'
      BY <1>7, <2>2, <3>1, <1>t, <1>f, ApplyTypes DEF Fails, Fault, Return, Goto, TypeOK
    <3>. QED
      BY <1>7, <2>2, <3>2, ApplyKeeps DEF Fails, Return, Goto, TypeOK
  <2>. QED
    BY <1>7, <2>1, <2>2 DEF Fails
<1>8. ASSUME NEW i \in Instances, Stop(i) PROVE IInv'
  <2>1. TypeOK'
    BY <1>8, <1>t, <1>f DEF Stop, Fault, Goto, TypeOK
  <2>. QED
    BY <1>8, <2>1, MoveKeeps DEF Stop, Goto, TypeOK, Looping, OkMeansApplied
<1>9. CASE MakeMigrate
  <2>1. TypeOK'
    BY <1>9, <1>f DEF MakeMigrate, TypeOK
  <2>2. ASSUME NEW s \in Statements PROVE Copied(s)'
    <3>1. s \in Nat /\ 1 <= s /\ psql = 0 /\ psql' = 1 /\ rounds' = rounds + 1
      BY <1>9, StatementsFacts DEF MakeMigrate
    <3>2. Tries(s) = rounds /\ Tries(s)' = rounds
      BY <1>f, <3>1 DEF Tries
    <3>. QED
      BY <1>9, <3>2 DEF MakeMigrate, Counted, Copied
  <2>3. Counted'
    BY <1>9, <2>2 DEF MakeMigrate, Counted
  <2>4. InOrder' /\ OkMeansApplied' /\ Past'
    BY <1>9 DEF MakeMigrate, InOrder, Exists, OkMeansApplied, Past
  <2>5. Alone' /\ Rounds'
    BY <1>9, <1>f DEF MakeMigrate, Alone, Open, Of, Rounds
  <2>. QED
    BY <2>1, <2>3, <2>4, <2>5
<1>11. CASE PsqlRuns
  <2>0. psql \in Statements /\ psql + 1 \in 0..(Last + 1)
    BY <1>11, <1>f, StatementsFacts DEF PsqlRuns
  <2>1. TypeOK'
    <3>1. OneMore(psql) \in Nat
      BY <2>0 DEF OneMore, TypeOK
    <3>. QED
      BY <1>11, <2>0, <3>1 DEF PsqlRuns, TypeOK
  <2>2. psql \in Named => copies[psql] = 0
    BY <1>11, <2>0 DEF PsqlRuns, Exists, TypeOK
  <2>3. psql' > psql
    BY <1>11, <1>f DEF PsqlRuns
  <2>. QED
    BY <1>11, <2>0, <2>1, <2>2, <2>3, PsqlKeeps DEF PsqlRuns
<1>12. CASE PsqlFails
  <2>0. psql \in Statements /\ psql + 1 \in 0..(Last + 1)
    BY <1>12, <1>f, StatementsFacts DEF PsqlFails
  <2>1. TypeOK'
    BY <1>12, <2>0 DEF PsqlFails, TypeOK
  <2>2. psql' > psql
    BY <1>12, <1>f DEF PsqlFails
  <2>. QED
    BY <1>12, <2>0, <2>1, <2>2, PsqlKeeps DEF PsqlFails
<1>13. CASE PsqlBroken
  <2>0. psql \in Statements /\ psql' \in 0..(Last + 1) /\ psql' > psql
    BY <1>13, <1>f, StatementsFacts DEF PsqlBroken
  <2>1. TypeOK'
    BY <1>13, <1>f, <2>0 DEF PsqlBroken, Fault, TypeOK
  <2>. QED
    BY <1>13, <2>0, <2>1, PsqlKeeps DEF PsqlBroken
<1>14. CASE PsqlDone
  <2>1. TypeOK'
    BY <1>14, <1>f DEF PsqlDone, TypeOK
  <2>2. ASSUME NEW s \in Statements PROVE Copied(s)'
    <3>1. s \in Nat /\ s <= Last /\ psql = Last + 1 /\ psql' = 0 /\ rounds' = rounds
      BY <1>14, StatementsFacts DEF PsqlDone
    <3>2. Tries(s) = rounds /\ Tries(s)' = rounds
      BY <1>f, <3>1 DEF Tries
    <3>. QED
      BY <1>14, <3>2 DEF PsqlDone, Counted, Copied
  <2>3. Counted'
    BY <1>14, <2>2 DEF PsqlDone, Counted
  <2>4. InOrder' /\ OkMeansApplied' /\ Past' /\ Alone' /\ Rounds'
    BY <1>14 DEF PsqlDone, InOrder, Exists, OkMeansApplied, Past, Alone, Open, Of, Rounds
  <2>. QED
    BY <2>1, <2>3, <2>4
<1>10. CASE UNCHANGED vars
  BY <1>10 DEF vars, TypeOK, InOrder, Exists, OkMeansApplied, Past, Alone, Open, Of, Counted, Copied,
               Tries, Rounds
<1>. QED
  BY <1>1, <1>2, <1>3, <1>4, <1>5, <1>6, <1>7, <1>8, <1>9, <1>10, <1>11, <1>12, <1>13, <1>14
  DEF Next, Step, Serving

LEMMA InductiveInvariant == Spec => []IInv
  BY InitInductive, NextInductive, PTL DEF Spec

-----------------------------------------------------------------------------

\* The types of the state of RunMigrations and its database.
THEOREM TypeCorrect == Spec => []TypeOK
<1>1. IInv => TypeOK
  BY DEF IInv
<1>. QED
  BY <1>1, InductiveInvariant, PTL

\* Versions are recorded in the order of their files, each with all of its objects,
\* whatever instances race, fail or crash and whatever make migrate has left behind.
THEOREM AppliedInOrder == Spec => []InOrder
<1>1. IInv => InOrder
  BY DEF IInv
<1>. QED
  BY <1>1, InductiveInvariant, PTL

\* RunMigrations commits exactly what it records, once, and doubles no object; make
\* migrate doubles unnamed indexes only, one a run.
THEOREM AppliedOnce == Spec => []RunOnce
  BY CountedIsRunOnce, InductiveInvariant, PTL

\* A RunMigrations without error leaves every file of its release recorded.
THEOREM OkIsTrue == Spec => []OkMeansApplied
<1>1. IInv => OkMeansApplied
  BY DEF IInv
<1>. QED
  BY <1>1, InductiveInvariant, PTL
=============================================================================
