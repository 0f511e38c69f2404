------------------------ MODULE PromptVersionsProofs ------------------------
(***************************************************************************)
(* The safety properties of PromptVersions and its refinement of           *)
(* PromptHistory, for any number of requests, prompts and templates.       *)
(***************************************************************************)
EXTENDS PromptRefinement, SequenceTheorems, TLAPS

Creating == {"insert_prompt", "insert_first", "commit_create"}

\* The row lock is held from SELECT ... FOR UPDATE to the commit, and the
\* version number read under it stays the current one.
Locked ==
    \A r \in Requests : pc[r] \in HoldsLock =>
        /\ lock[target[r]] = r
        /\ seen[r] = current[target[r]]
        /\ current[target[r]] # 0

\* A prompt being created is nobody else's and is not visible yet.
Claimed ==
    /\ \A r \in Requests : pc[r] \in Creating =>
          target[r] \in claimed /\ current[target[r]] = 0
    /\ \A r, q \in Requests :
          pc[r] \in Creating /\ pc[q] \in Creating /\ target[r] = target[q] => r = q
    /\ \A p \in Prompts \ claimed : current[p] = 0

\* What a reader was told or has read is committed, and versions never go back.
Fresh ==
    \A r \in Requests :
        /\ known[r] \subseteq 1..current[target[r]]
        /\ pc[r] \in {"fetch_current", "list"} => seen[r] \in 1..current[target[r]]
        /\ pc[r] \notin {"ok", "cut"} => listed[r] = {}

IInv == /\ TypeOK /\ Locked /\ Claimed /\ HistoryContiguous
        /\ AckedDurable /\ Fresh /\ ReadsSeeAcked

-----------------------------------------------------------------------------

\* Every variable keeps its type.
THEOREM TypeCorrect == Spec => []TypeOK
<1>1. Init => TypeOK
  BY DEF Init, TypeOK, Labels
<1>2. TypeOK /\ [Next]_vars => TypeOK'
  <2> SUFFICES ASSUME TypeOK, [Next]_vars PROVE TypeOK'
    OBVIOUS
  <2> USE DEF TypeOK, Labels, Goto, Release
  <2>1. ASSUME NEW r \in Requests, Begin(r) PROVE TypeOK'
    <3>1. AckedOf(target[r]) \in SUBSET Nat
      BY DEF AckedOf, Acks, Rows
    <3>2. CASE BeginCreate(r)
      BY <3>2 DEF BeginCreate
    <3>3. CASE BeginVersion(r)
      BY <3>3 DEF BeginVersion
    <3>4. CASE BeginRender(r)
      <4>1. CASE BeginRead(r, "read_current", 0)
        BY <3>1, <4>1 DEF BeginRead
      <4>2. ASSUME NEW v \in 1..MaxVersion, BeginRead(r, "fetch", v) PROVE TypeOK'
        BY <3>1, <4>2, MaxVersionAssumption DEF BeginRead
      <4> QED BY <3>4, <4>1, <4>2 DEF BeginRender
    <3>5. CASE BeginGet(r)
      BY <3>1, <3>5 DEF BeginGet, BeginRead
    <3> QED BY <2>1, <3>2, <3>3, <3>4, <3>5 DEF Begin
  <2>2. ASSUME NEW r \in Requests, NEW v \in Nat \ {0}, NEW b \in BOOLEAN,
               Publish(r, v, b)
        PROVE  TypeOK'
    <3>1. NewRow(r, v) \in Rows
      BY DEF NewRow, Rows
    <3>2. acked' \subseteq Acks
      BY <2>2, <3>1 DEF Publish, Acks
    <3> QED BY <2>2, <3>1, <3>2 DEF Publish
  <2>3. ASSUME NEW r \in Requests, NEW b \in BOOLEAN,
               CommitCreate(r, b) \/ CommitVersion(r, b)
        PROVE  TypeOK'
    BY <2>2, <2>3 DEF CommitCreate, CommitVersion
  <2>4. ASSUME NEW r \in Requests, Abort(r) PROVE TypeOK'
    BY <2>4 DEF Abort
  <2>5. ASSUME NEW r \in Requests, Progress(r) PROVE TypeOK'
    <3>1. CASE InsertPrompt(r)
      BY <3>1 DEF InsertPrompt
    <3>2. CASE InsertFirst(r)
      BY <3>2 DEF InsertFirst
    <3>3. CASE SelectForUpdate(r)
      BY <3>3 DEF SelectForUpdate
    <3>4. CASE InsertVersion(r)
      BY <3>4 DEF InsertVersion
    <3>5. CASE UpdateCurrent(r)
      BY <3>5 DEF UpdateCurrent
    <3>6. CASE ReadCurrent(r)
      BY <3>6 DEF ReadCurrent, ReadRow
    <3>7. CASE FetchVersion(r)
      BY <3>7 DEF FetchVersion, Rows
    <3>8. CASE ReadPrompt(r)
      BY <3>8 DEF ReadPrompt, ReadRow
    <3>9. CASE ListVersions(r)
      BY <3>9 DEF ListVersions, VersionsOf, Rows
    <3>10. CASE Refuse(r)
      BY <2>4, <3>10 DEF Refuse
    <3> QED BY <2>3, <2>5, <3>1, <3>2, <3>3, <3>4, <3>5, <3>6, <3>7, <3>8, <3>9,
               <3>10 DEF Progress
  <2>6. ASSUME NEW r \in Requests, Fault(r) PROVE TypeOK'
    <3>1. CASE ListCut(r)
      BY <3>1 DEF ListCut, VersionsOf, Rows
    <3> QED BY <2>3, <2>4, <2>6, <3>1 DEF Fault, Fail
  <2>7. CASE UNCHANGED vars
    BY <2>7 DEF vars
  <2> QED BY <2>1, <2>5, <2>6, <2>7 DEF Next, Terminating
<1> QED BY <1>1, <1>2, PTL DEF Spec

-----------------------------------------------------------------------------

\* A step of a request that is not answered with a list.
LEMMA NoListStep ==
    ASSUME IInv, NEW r \in Requests, listed' = listed, pc[r] \notin {"ok", "cut"},
           \A q \in Requests \ {r} :
               pc'[q] = pc[q] /\ known'[q] = known[q] /\ seen'[q] = seen[q],
           pc'[r] \in {"fetch_current", "list"} => \A v \in known'[r] : v <= seen'[r]
    PROVE  ReadsSeeAcked'
<1>1. listed[r] = {}
  BY DEF IInv, Fresh
<1>2. ASSUME NEW q \in Requests
      PROVE  /\ pc'[q] \in {"fetch_current", "list"} => \A v \in known'[q] : v <= seen'[q]
             /\ \A v \in listed'[q] :
                   \A w \in known'[q] \cup listed'[q] \cup {seen'[q]} : v..w \subseteq listed'[q]
             /\ listed'[q] # {} /\ pc'[q] # "cut" => 1 \in listed'[q]
  <2>1. CASE q = r
    BY <1>1, <2>1
  <2>2. CASE q # r
    BY <2>2 DEF IInv, ReadsSeeAcked
  <2> QED BY <2>1, <2>2
<1> QED BY <1>2 DEF ReadsSeeAcked

LEMMA OneMore == ASSUME NEW n \in Nat PROVE 1..(n + 1) = (1..n) \cup {n + 1}
OBVIOUS

\* The step of a transaction that moves a prompt from version v - 1 to v.
LEMMA PublishStep ==
    ASSUME IInv, TypeOK', NEW r \in Requests, NEW b \in BOOLEAN,
           Publish(r, current[target[r]] + 1, b),
           pc[r] \in HoldsLock \/ pc[r] \in Creating
    PROVE  IInv'
<1> DEFINE p == target[r]
           v == current[p] + 1
           row == NewRow(r, v)
<1> USE DEF IInv
<1>1. /\ p \in Prompts /\ v \in Nat \ {0} /\ row \in Rows
      /\ row.prompt = p /\ row.version = v
  BY DEF TypeOK, NewRow, Rows
<1>2. /\ current' = [current EXCEPT ![p] = v]
      /\ rows' = rows \cup {row}
      /\ pc' = [pc EXCEPT ![r] = IF b THEN "ok" ELSE "error"]
      /\ lock' = [lock EXCEPT ![p] = IF @ = r THEN NoRequest ELSE @]
      /\ UNCHANGED <<claimed, target, text, seen, known, listed>>
  BY DEF Publish, Goto, Release
<1>3. \A q \in Prompts : current'[q] = IF q = p THEN v ELSE current[q]
  BY <1>1, <1>2 DEF TypeOK
<1>4. \A q \in Requests \ {r} : /\ pc'[q] = pc[q]
                                /\ pc[q] \in HoldsLock => target[q] # p
                                /\ pc[q] \in Creating => target[q] # p
  BY <1>2 DEF TypeOK, Locked, Claimed, HoldsLock, Creating
<1>5. pc'[r] \notin HoldsLock /\ pc'[r] \notin Creating
      /\ pc'[r] \notin {"fetch_current", "list"}
  BY <1>2 DEF TypeOK, HoldsLock, Creating
<1>6. Locked'
  BY <1>1, <1>2, <1>3, <1>4, <1>5 DEF TypeOK, Locked
<1>7. p \in claimed
  BY DEF Claimed, Locked, TypeOK
<1>8. Claimed'
  BY <1>1, <1>2, <1>3, <1>4, <1>5, <1>7 DEF TypeOK, Claimed
<1>9. HistoryContiguous'
  <2>1. \A q \in Prompts : VersionsOf(q)' = IF q = p THEN VersionsOf(q) \cup {v}
                                                     ELSE VersionsOf(q)
    BY <1>1, <1>2 DEF VersionsOf
  <2>2. \A q \in Prompts : VersionsOf(q)' = 1..current'[q]
    <3>1. 1..v = (1..current[p]) \cup {v}
      BY <1>1, OneMore DEF TypeOK
    <3> QED BY <1>3, <2>1, <3>1 DEF HistoryContiguous
  <2>3. v \notin VersionsOf(p)
    BY <1>1 DEF HistoryContiguous, TypeOK
  <2>4. \A x \in rows : x.prompt = p => x.version # v
    BY <2>3 DEF VersionsOf
  <2> QED BY <1>1, <1>2, <2>2, <2>4 DEF HistoryContiguous
<1>10. AckedDurable'
  <2>1. \A a \in acked : a.row.prompt = p => a.row.version # v
    BY <1>1 DEF AckedDurable, HistoryContiguous, VersionsOf, TypeOK
  <2>2. acked' \subseteq acked \cup {[req |-> r, row |-> row]}
    BY DEF Publish
  <2>3. \A a \in acked' : a \in acked \/ a = [req |-> r, row |-> row]
    BY <2>2
  <2>4. \A a \in acked' : a.row \in rows'
    BY <1>2, <2>3 DEF AckedDurable
  <2>5. ASSUME NEW a \in acked', NEW c \in acked',
               a.row.prompt = c.row.prompt, a.row.version = c.row.version
        PROVE  a = c
    BY <1>1, <2>1, <2>3, <2>5 DEF AckedDurable
  <2> QED BY <2>4, <2>5 DEF AckedDurable
<1>11. Fresh'
  BY <1>1, <1>2, <1>3, <1>4, <1>5 DEF TypeOK, Fresh, HoldsLock, Creating
<1>12. ReadsSeeAcked'
  <2>1. pc[r] \notin {"ok", "cut"} /\ listed' = listed
    BY <1>2 DEF HoldsLock, Creating
  <2>2. \A q \in Requests \ {r} : pc'[q] = pc[q] /\ known'[q] = known[q] /\ seen'[q] = seen[q]
    BY <1>2, <1>4
  <2> QED BY <1>5, <2>1, <2>2, NoListStep
<1> QED BY <1>6, <1>8, <1>9, <1>10, <1>11, <1>12

\* A rollback only gives up the lock.
LEMMA AbortStep ==
    ASSUME IInv, TypeOK', NEW r \in Requests, Abort(r),
           pc[r] \notin {"ok", "cut"}
    PROVE  IInv'
<1> USE DEF IInv
<1>1. /\ pc' = [pc EXCEPT ![r] = "error"]
      /\ lock' = [lock EXCEPT ![target[r]] = IF @ = r THEN NoRequest ELSE @]
      /\ UNCHANGED <<current, rows, claimed, target, text, seen, acked, known, listed>>
  BY DEF Abort, Goto, Release
<1>2. Locked'
  BY <1>1 DEF TypeOK, Locked, HoldsLock
<1>3. Claimed'
  BY <1>1 DEF TypeOK, Claimed, Creating
<1>4. HistoryContiguous' /\ AckedDurable'
  BY <1>1 DEF HistoryContiguous, AckedDurable, VersionsOf
<1>5. Fresh'
  BY <1>1 DEF TypeOK, Fresh
<1>6. ReadsSeeAcked'
  BY <1>1 DEF TypeOK, ReadsSeeAcked
<1> QED BY <1>2, <1>3, <1>4, <1>5, <1>6

\* A statement that commits nothing leaves the tables and the acknowledgements.
LEMMA TablesKept ==
    ASSUME IInv, UNCHANGED <<current, rows, acked>>
    PROVE  HistoryContiguous' /\ AckedDurable'
BY DEF IInv, HistoryContiguous, AckedDurable, VersionsOf

\* A request begins: a Create draws an unused id, a read notes what is known.
LEMMA BeginStep ==
    ASSUME IInv, TypeOK', NEW r \in Requests, Begin(r)
    PROVE  IInv'
<1> USE DEF IInv
<1>1. HistoryContiguous' /\ AckedDurable'
  BY TablesKept DEF Begin, BeginCreate, BeginVersion, BeginRender, BeginGet, BeginRead
<1>2. AckedOf(target[r]) \subseteq 1..current[target[r]]
  BY DEF AckedOf, AckedDurable, HistoryContiguous, VersionsOf, TypeOK
<1>3. CASE BeginCreate(r)
  <2>1. target[r] \in Prompts /\ current[target[r]] = 0
    BY <1>3 DEF BeginCreate, Claimed, TypeOK
  <2>2. Claimed'
    BY <1>3, <2>1 DEF BeginCreate, Goto, TypeOK, Claimed, Creating
  <2>3. Locked'
    BY <1>3 DEF BeginCreate, Goto, TypeOK, Locked, HoldsLock
  <2>4. Fresh' /\ ReadsSeeAcked'
    BY <1>3 DEF BeginCreate, Goto, TypeOK, Fresh, ReadsSeeAcked
  <2> QED BY <1>1, <2>2, <2>3, <2>4
<1>4. CASE BeginVersion(r)
  <2>1. Locked' /\ Claimed'
    BY <1>4 DEF BeginVersion, Goto, TypeOK, Locked, HoldsLock, Claimed, Creating
  <2>2. Fresh' /\ ReadsSeeAcked'
    BY <1>4 DEF BeginVersion, Goto, TypeOK, Fresh, ReadsSeeAcked
  <2> QED BY <1>1, <2>1, <2>2
<1>5. ASSUME NEW v \in Nat, NEW label \in {"read_current", "fetch", "read_prompt"},
             BeginRead(r, label, v)
      PROVE  IInv'
  <2>1. Locked' /\ Claimed'
    BY <1>5 DEF BeginRead, Goto, TypeOK, Locked, HoldsLock, Claimed, Creating
  <2>2. Fresh' /\ ReadsSeeAcked'
    BY <1>2, <1>5 DEF BeginRead, Goto, TypeOK, Fresh, ReadsSeeAcked
  <2> QED BY <1>1, <2>1, <2>2
<1> QED BY <1>3, <1>4, <1>5, MaxVersionAssumption DEF Begin, BeginRender, BeginGet

LEMMA CommitStep ==
    ASSUME IInv, TypeOK', NEW r \in Requests, NEW b \in BOOLEAN,
           CommitCreate(r, b) \/ CommitVersion(r, b)
    PROVE  IInv'
<1>1. CASE CommitCreate(r, b)
  <2>1. pc[r] \in Creating /\ current[target[r]] + 1 = 1
    BY <1>1 DEF CommitCreate, Creating, IInv, Claimed
  <2> QED BY <1>1, <2>1, PublishStep DEF CommitCreate
<1>2. CASE CommitVersion(r, b)
  <2>1. pc[r] \in HoldsLock /\ current[target[r]] + 1 = seen[r] + 1
    BY <1>2 DEF CommitVersion, HoldsLock, IInv, Locked
  <2> QED BY <1>2, <2>1, PublishStep DEF CommitVersion
<1> QED BY <1>1, <1>2

\* The versions of a prompt from some number on are what a list may hold.
LEMMA NewestListed ==
    ASSUME IInv, TypeOK', NEW r \in Requests, NEW lo \in Nat \ {0}, NEW label \in {"ok", "cut"},
           pc[r] = "list", pc' = [pc EXCEPT ![r] = label],
           listed' = [listed EXCEPT ![r] = lo..current[target[r]]],
           label = "cut" \/ lo = 1,
           known' = known, seen' = seen
    PROVE  ReadsSeeAcked'
<1>0. /\ current[target[r]] \in Nat
      /\ known[r] \subseteq 1..current[target[r]]
      /\ seen[r] \in 1..current[target[r]]
  BY DEF IInv, TypeOK, Fresh
<1>1. PICK n \in Nat : /\ n = current[target[r]]
                       /\ known[r] \cup {seen[r]} \subseteq 1..n
                       /\ seen[r] \in 1..n
  BY <1>0
<1>2. /\ listed'[r] = lo..n /\ pc'[r] = label
      /\ \A q \in Requests \ {r} : listed'[q] = listed[q] /\ pc'[q] = pc[q]
  BY <1>1 DEF IInv, TypeOK
<1>3. \A v \in lo..n : \A w \in known[r] \cup (lo..n) \cup {seen[r]} : w \in Int /\ w <= n
  BY <1>1
<1>4. \A v \in lo..n : \A w \in Int : w <= n => v..w \subseteq lo..n
  OBVIOUS
<1>5. lo..n # {} /\ label # "cut" => 1 \in lo..n
  BY <1>1
<1>6. ASSUME NEW q \in Requests
      PROVE  /\ pc'[q] \in {"fetch_current", "list"} => \A v \in known'[q] : v <= seen'[q]
             /\ \A v \in listed'[q] :
                   \A w \in known'[q] \cup listed'[q] \cup {seen'[q]} : v..w \subseteq listed'[q]
             /\ listed'[q] # {} /\ pc'[q] # "cut" => 1 \in listed'[q]
  <2>1. CASE q = r
    <3>1. \A v \in listed'[r] :
              \A w \in known'[r] \cup listed'[r] \cup {seen'[r]} : v..w \subseteq listed'[r]
      BY <1>2, <1>3, <1>4
    <3>2. pc'[r] \notin {"fetch_current", "list"} /\ listed'[r] = lo..n /\ pc'[r] = label
      BY <1>2
    <3> QED BY <1>5, <2>1, <3>1, <3>2
  <2>2. CASE q # r
    BY <1>2, <2>2 DEF IInv, ReadsSeeAcked
  <2> QED BY <2>1, <2>2
<1> QED BY <1>6 DEF ReadsSeeAcked

LEMMA ListCutStep ==
    ASSUME IInv, TypeOK', NEW r \in Requests, ListCut(r)
    PROVE  IInv'
<1> USE DEF IInv, Goto
<1>1. Locked' /\ Claimed' /\ Fresh'
  BY DEF ListCut, TypeOK, Locked, HoldsLock, Claimed, Creating, Fresh
<1>2. PICK v \in VersionsOf(target[r]) :
          listed' = [listed EXCEPT ![r] = {w \in VersionsOf(target[r]) : w > v}]
  BY DEF ListCut
<1>3. VersionsOf(target[r]) = 1..current[target[r]] /\ current[target[r]] \in Nat
  BY DEF HistoryContiguous, TypeOK
<1>4. \A n \in Nat : \A k \in 1..n : k + 1 \in Nat \ {0} /\ {w \in 1..n : w > k} = (k + 1)..n
  OBVIOUS
<1>5. v + 1 \in Nat \ {0} /\ listed' = [listed EXCEPT ![r] = (v + 1)..current[target[r]]]
  BY <1>2, <1>3, <1>4
<1>6. ReadsSeeAcked'
  <2>1. /\ pc[r] = "list" /\ pc' = [pc EXCEPT ![r] = "cut"]
        /\ known' = known /\ seen' = seen
    BY DEF ListCut
  <2>2. "cut" \in {"ok", "cut"}
    OBVIOUS
  <2> QED BY <1>5, <2>1, <2>2, NewestListed
<1> QED BY <1>1, <1>6, TablesKept DEF ListCut

LEMMA ProgressStep ==
    ASSUME IInv, TypeOK', NEW r \in Requests, Progress(r)
    PROVE  IInv'
<1> USE DEF IInv, Goto
<1>1. CASE InsertPrompt(r) \/ InsertFirst(r) \/ InsertVersion(r)
  <2> USE DEF InsertPrompt, InsertFirst, InsertVersion
  <2>1. Locked' /\ Claimed'
    BY <1>1 DEF TypeOK, Locked, HoldsLock, Claimed, Creating
  <2>2. Fresh' /\ ReadsSeeAcked'
    BY <1>1 DEF TypeOK, Fresh, ReadsSeeAcked
  <2> QED BY <1>1, <2>1, <2>2, TablesKept
<1>2. CASE SelectForUpdate(r)
  <2>1. Locked'
    BY <1>2, NoRequestAssumption DEF SelectForUpdate, TypeOK, Locked, HoldsLock
  <2>2. Claimed' /\ Fresh' /\ ReadsSeeAcked'
    BY <1>2 DEF SelectForUpdate, TypeOK, Claimed, Creating, Fresh, ReadsSeeAcked
  <2> QED BY <1>2, <2>1, <2>2, TablesKept DEF SelectForUpdate
<1>3. CASE UpdateCurrent(r)
  <2>1. Locked'
    BY <1>3 DEF UpdateCurrent, TypeOK, Locked, HoldsLock
  <2>2. Claimed' /\ Fresh' /\ ReadsSeeAcked'
    BY <1>3 DEF UpdateCurrent, TypeOK, Claimed, Creating, Fresh, ReadsSeeAcked
  <2> QED BY <1>3, <2>1, <2>2, TablesKept DEF UpdateCurrent
<1>4. CASE ReadCurrent(r) \/ ReadPrompt(r)
  <2>1. Locked' /\ Claimed'
    BY <1>4 DEF ReadCurrent, ReadPrompt, ReadRow, TypeOK, Locked, HoldsLock, Claimed,
                Creating
  <2>2. Fresh' /\ ReadsSeeAcked'
    <3>1. /\ listed' = listed /\ known' = known /\ pc[r] \notin {"ok", "cut"}
          /\ \A q \in Requests \ {r} : pc'[q] = pc[q] /\ seen'[q] = seen[q]
          /\ seen'[r] = current[target[r]] /\ current[target[r]] \in Nat \ {0}
      BY <1>4 DEF ReadCurrent, ReadPrompt, ReadRow, TypeOK
    <3>2. \A v \in known'[r] : v <= seen'[r]
      BY <3>1 DEF Fresh
    <3>3. ReadsSeeAcked'
      BY <3>1, <3>2, NoListStep
    <3>4. Fresh'
      BY <1>4, <3>1 DEF ReadCurrent, ReadPrompt, ReadRow, TypeOK, Fresh
    <3> QED BY <3>3, <3>4
  <2> QED BY <1>4, <2>1, <2>2, TablesKept DEF ReadCurrent, ReadPrompt, ReadRow
<1>5. CASE FetchVersion(r)
  <2>1. Locked' /\ Claimed'
    BY <1>5 DEF FetchVersion, TypeOK, Locked, HoldsLock, Claimed, Creating
  <2>2. Fresh' /\ ReadsSeeAcked'
    BY <1>5 DEF FetchVersion, TypeOK, Fresh, ReadsSeeAcked
  <2> QED BY <1>5, <2>1, <2>2, TablesKept DEF FetchVersion
<1>6. CASE ListVersions(r)
  <2>1. Locked' /\ Claimed' /\ Fresh'
    BY <1>6 DEF ListVersions, TypeOK, Locked, HoldsLock, Claimed, Creating, Fresh
  <2>2. /\ VersionsOf(target[r]) = 1..current[target[r]]
        /\ known[r] \subseteq 1..current[target[r]]
        /\ seen[r] \in 1..current[target[r]]
    BY <1>6 DEF ListVersions, HistoryContiguous, Fresh, TypeOK
  <2>3. ReadsSeeAcked'
    <3>1. listed' = [listed EXCEPT ![r] = 1..current[target[r]]]
      BY <1>6, <2>2 DEF ListVersions
    <3>2. /\ pc[r] = "list" /\ pc' = [pc EXCEPT ![r] = "ok"]
          /\ known' = known /\ seen' = seen
      BY <1>6 DEF ListVersions
    <3>3. 1 \in Nat \ {0} /\ "ok" \in {"ok", "cut"}
      OBVIOUS
    <3> QED BY <3>1, <3>2, <3>3, NewestListed DEF IInv
  <2> QED BY <1>6, <2>1, <2>3, TablesKept DEF ListVersions
<1>7. CASE Refuse(r)
  BY <1>7, AbortStep DEF Refuse, RowMissing, VersionMissing, KeyTaken
<1> QED BY <1>1, <1>2, <1>3, <1>4, <1>5, <1>6, <1>7, CommitStep DEF Progress

LEMMA InductiveInvariant == Spec => []IInv
<1>1. Init => IInv
  BY DEF Init, IInv, TypeOK, Labels, Locked, HoldsLock, Claimed, Creating,
         HistoryContiguous, VersionsOf, AckedDurable, Fresh, ReadsSeeAcked
<1>2. IInv /\ TypeOK' /\ [Next]_vars => IInv'
  <2> SUFFICES ASSUME IInv, TypeOK', [Next]_vars PROVE IInv'
    OBVIOUS
  <2>1. ASSUME NEW r \in Requests, Fault(r) PROVE IInv'
    BY <2>1, CommitStep, AbortStep, ListCutStep DEF Fault, Fail, Finished
  <2>2. CASE UNCHANGED vars
    BY <2>2 DEF vars, IInv, TypeOK, Locked, Claimed, HistoryContiguous, VersionsOf,
                AckedDurable, Fresh, ReadsSeeAcked
  <2> QED BY <2>1, <2>2, BeginStep, ProgressStep DEF Next, Terminating
<1> QED BY <1>1, <1>2, TypeCorrect, PTL DEF Spec

-----------------------------------------------------------------------------

\* The versions of every prompt are 1..current_version, one text each.
THEOREM HistoryIsContiguous == Spec => []HistoryContiguous
BY InductiveInvariant, PTL DEF IInv

\* What a creation was answered is never lost and never given out twice.
THEOREM AckedIsDurable == Spec => []AckedDurable
BY InductiveInvariant, PTL DEF IInv

\* A reader sees everything acknowledged before it began, but for old versions that a
\* broken connection cuts off.
THEOREM ReadersAreFresh == Spec => []ReadsSeeAcked
BY InductiveInvariant, PTL DEF IInv

\* The row lock alone keeps two CreateVersion calls from colliding.
THEOREM NoConflict == Spec => []NoSpuriousConflict
<1>1. IInv => NoSpuriousConflict
  BY DEF IInv, TypeOK, Locked, HoldsLock, HistoryContiguous, NoSpuriousConflict,
         ConflictsPending, UniqueViolation
<1> QED BY <1>1, InductiveInvariant, PTL

\* A render of the current version finds its row.
THEOREM RenderNeverMisses == Spec => []RenderFindsCurrent
<1>1. IInv => RenderFindsCurrent
  BY DEF IInv, TypeOK, Fresh, HistoryContiguous, RenderFindsCurrent, VersionMissing
<1> QED BY <1>1, InductiveInvariant, PTL

-----------------------------------------------------------------------------
(***************************************************************************)
(* The refinement.                                                         *)
(***************************************************************************)
\* Below current_version there is exactly one row per version.
LEMMA RowOfVersion ==
    ASSUME IInv, NEW p \in Prompts, NEW v \in 1..current[p]
    PROVE  \E row \in rows : /\ row.prompt = p /\ row.version = v
                             /\ TextOf(p, v) = row.template
                             /\ row.template \in Templates
<1>1. v \in VersionsOf(p)
  BY DEF IInv, HistoryContiguous
<1>2. PICK row \in rows : row.prompt = p /\ row.version = v
  BY <1>1 DEF VersionsOf
<1>3. (CHOOSE x \in rows : x.prompt = p /\ x.version = v) = row
  BY <1>2 DEF IInv, HistoryContiguous
<1> QED BY <1>2, <1>3 DEF TextOf, IInv, TypeOK, Rows

LEMMA HistoryIsSeq ==
    ASSUME IInv, NEW p \in Prompts
    PROVE  /\ HistoryOf(p) \in Seq(Templates)
           /\ Len(HistoryOf(p)) = current[p]
           /\ current[p] \in Nat
<1>1. current[p] \in Nat
  BY DEF IInv, TypeOK
<1>2. \A v \in 1..current[p] : TextOf(p, v) \in Templates
  BY RowOfVersion
<1> QED BY <1>1, <1>2 DEF HistoryOf

\* A commit appends the text of its request to its prompt's history.
LEMMA PublishAppends ==
    ASSUME IInv, IInv', NEW r \in Requests, NEW b \in BOOLEAN,
           Publish(r, current[target[r]] + 1, b)
    PROVE  History!Next
<1> DEFINE map == [q \in Prompts |-> HistoryOf(q)]
<1>a. PICK p \in Prompts, n \in Nat, t \in Templates :
          p = target[r] /\ n = current[target[r]] /\ t = text[r]
  BY DEF IInv, TypeOK
<1>b. PICK row : row = NewRow(r, n + 1)
  OBVIOUS
<1>1. row.prompt = p /\ row.version = n + 1 /\ row.template = t
  BY <1>a, <1>b DEF NewRow
<1>2. /\ current' = [current EXCEPT ![p] = n + 1]
      /\ rows' = rows \cup {row}
  BY <1>a, <1>b DEF Publish
<1>3. \A q \in Prompts : current'[q] = IF q = p THEN n + 1 ELSE current[q]
  BY <1>1, <1>2 DEF IInv, TypeOK
<1>4. \A q \in Prompts : \A v \in 1..current[q] : TextOf(q, v)' = TextOf(q, v)
  <2> SUFFICES ASSUME NEW q \in Prompts, NEW v \in 1..current[q]
               PROVE  TextOf(q, v)' = TextOf(q, v)
    OBVIOUS
  <2>1. PICK x \in rows : x.prompt = q /\ x.version = v /\ TextOf(q, v) = x.template
    BY RowOfVersion
  <2>2. x \in rows'
    BY <1>2
  <2>3. (CHOOSE y \in rows' : y.prompt = q /\ y.version = v) = x
    BY <2>1, <2>2 DEF IInv, HistoryContiguous
  <2> QED BY <2>1, <2>3 DEF TextOf
<1>5. TextOf(p, n + 1)' = t
  <2>1. row \in rows'
    BY <1>2
  <2>2. (CHOOSE y \in rows' : y.prompt = p /\ y.version = n + 1) = row
    BY <1>1, <2>1 DEF IInv, HistoryContiguous
  <2> QED BY <1>1, <2>2 DEF TextOf
<1>6. HistoryOf(p)' = Append(HistoryOf(p), t)
  <2>1. /\ HistoryOf(p)' \in Seq(Templates)
        /\ Len(HistoryOf(p)') = n + 1
        /\ \A v \in 1..(n + 1) : HistoryOf(p)'[v] = TextOf(p, v)'
    <3>1. current'[p] = n + 1
      BY <1>3
    <3>2. \A v \in 1..(n + 1) : v = n + 1 \/ v \in 1..current[p]
      BY <1>a
    <3>3. \A v \in 1..(n + 1) : TextOf(p, v)' \in Templates
      BY <1>4, <1>5, <3>2, RowOfVersion
    <3> QED BY <3>1, <3>3 DEF HistoryOf
  <2>2. /\ HistoryOf(p) \in Seq(Templates) /\ Len(HistoryOf(p)) = n
        /\ \A v \in 1..n : HistoryOf(p)[v] = TextOf(p, v)
    BY <1>a, HistoryIsSeq DEF HistoryOf
  <2> DEFINE longer == Append(HistoryOf(p), t)
  <2>3. /\ longer \in Seq(Templates) /\ Len(longer) = n + 1
        /\ \A v \in 1..n : longer[v] = HistoryOf(p)[v]
        /\ longer[n + 1] = t
    BY <2>2
  <2>4. \A v \in 1..(n + 1) : HistoryOf(p)'[v] = longer[v]
    <3> SUFFICES ASSUME NEW v \in 1..(n + 1) PROVE HistoryOf(p)'[v] = longer[v]
      OBVIOUS
    <3>1. CASE v = n + 1
      BY <1>5, <2>1, <2>3, <3>1
    <3>2. CASE v \in 1..n
      <4>1. TextOf(p, v)' = TextOf(p, v)
        BY <1>4, <1>a, <3>2
      <4> QED BY <2>1, <2>2, <2>3, <3>2, <4>1
    <3>3. v = n + 1 \/ v \in 1..n
      BY <1>a
    <3> QED BY <3>1, <3>2, <3>3
  <2>5. \A s, u \in Seq(Templates) :
            Len(s) = n + 1 /\ Len(u) = n + 1 /\ (\A v \in 1..(n + 1) : s[v] = u[v])
            => s = u
    BY <1>a, SeqEqual
  <2> HIDE DEF longer
  <2>6. HistoryOf(p)' = longer
    BY <2>1, <2>3, <2>4, <2>5
  <2> QED BY <2>6 DEF longer
<1>7. \A q \in Prompts : q # p => HistoryOf(q)' = HistoryOf(q)
  BY <1>3, <1>4 DEF HistoryOf
<1>8. map' = [map EXCEPT ![p] = Append(@, t)]
  BY <1>6, <1>7
<1> QED BY <1>8 DEF History!Next, History!AddVersion

LEMMA StepRefines ==
    ASSUME IInv, IInv', [Next]_vars
    PROVE  [History!Next]_([p \in Prompts |-> HistoryOf(p)])
<1>1. ASSUME UNCHANGED <<current, rows>>
      PROVE  [p \in Prompts |-> HistoryOf(p)]' = [p \in Prompts |-> HistoryOf(p)]
  BY <1>1 DEF HistoryOf, TextOf
<1>2. ASSUME NEW r \in Requests, NEW b \in BOOLEAN, CommitCreate(r, b)
      PROVE  History!Next
  <2>1. current[target[r]] + 1 = 1
    BY <1>2 DEF CommitCreate, IInv, Claimed, Creating
  <2> QED BY <1>2, <2>1, PublishAppends DEF CommitCreate
<1>3. ASSUME NEW r \in Requests, NEW b \in BOOLEAN, CommitVersion(r, b)
      PROVE  History!Next
  <2>1. current[target[r]] = seen[r]
    BY <1>3 DEF CommitVersion, IInv, Locked, HoldsLock
  <2> QED BY <1>3, <2>1, PublishAppends DEF CommitVersion
<1>4. ASSUME NEW r \in Requests, Begin(r) PROVE UNCHANGED <<current, rows>>
  BY <1>4 DEF Begin, BeginCreate, BeginVersion, BeginRender, BeginGet, BeginRead
<1>5. ASSUME NEW r \in Requests, Progress(r), ~CommitCreate(r, TRUE),
             ~CommitVersion(r, TRUE)
      PROVE  UNCHANGED <<current, rows>>
  BY <1>5 DEF Progress, InsertPrompt, InsertFirst, SelectForUpdate, InsertVersion,
              UpdateCurrent, ReadCurrent, ReadPrompt, ReadRow, FetchVersion,
              ListVersions, Refuse, Abort
<1>6. ASSUME NEW r \in Requests, Fault(r), ~CommitCreate(r, FALSE),
             ~CommitVersion(r, FALSE)
      PROVE  UNCHANGED <<current, rows>>
  BY <1>6 DEF Fault, ListCut, Fail, Abort
<1>7. CASE UNCHANGED vars
  BY <1>1, <1>7 DEF vars
<1> QED BY <1>1, <1>2, <1>3, <1>4, <1>5, <1>6, <1>7 DEF Next, Terminating

\* The prompt tables behave as append-only histories.
THEOREM HistoryRefinement == Spec => ImplementsHistory
<1>1. Init => History!Init
  BY DEF Init, History!Init, HistoryOf
<1> QED BY <1>1, StepRefines, InductiveInvariant, PTL
        DEF Spec, ImplementsHistory, History!Spec
=============================================================================
