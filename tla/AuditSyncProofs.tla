--------------------------- MODULE AuditSyncProofs ---------------------------
(***************************************************************************)
(* What the hash chain guarantees for any number of appends in progress,   *)
(* what the race between an append's SELECT and its commit can take from   *)
(* it, and what the sync guarantees until that happens, for any batch size *)
(* and any number of failures and restores.                                *)
(*                                                                         *)
(* ChainRooted is inductive together with what a writer holds in between:  *)
(* the hash it read is that of a row still in the table (rows are never    *)
(* removed) or "genesis", and the time its INSERT started is its own.      *)
(* ForkedOnlyByRace needs more (SoundInv): the hash held by a writer that  *)
(* no commit has passed since its SELECT is still the last one, and its    *)
(* INSERT comes after every row.                                           *)
(*                                                                         *)
(* The steps of the composition are steps of the log or leave it alone, so *)
(* these invariants carry over.  NoRowSkipped is inductive with two facts: *)
(* a batch leaves out no row between the cursor and its last row, and an   *)
(* accepted batch was delivered.  The first holds until a row commits      *)
(* behind a batch already read, which takes a race.                        *)
(*                                                                         *)
(* IsReplica needs the shape of every batch that can still arrive: it has  *)
(* no gap.  The dashboard takes it only if it continues the chain it has,  *)
(* so nothing can be missing before the oldest row it adds.                *)
(***************************************************************************)
EXTENDS AuditReplica, TLAPS, FiniteSetTheorems, WellFoundedInduction

-----------------------------------------------------------------------------
\* The log.
RowsInv ==
  /\ ChainRooted
  /\ \A r \in rows : r.at <= clock

HeldInv ==
  \A w \in Writers : stage[w] # "idle" => draft[w].prev \in {0} \union Stamps(rows)

InsertInv ==
  \A w \in Writers : stage[w] = "inserting" =>
    /\ draft[w].prev < draft[w].at
    /\ draft[w].at <= clock
    /\ draft[w].at \notin Stamps(rows)
    /\ \A v \in Writers \ {w} : stage[v] = "inserting" => draft[v].at # draft[w].at

Inv == LogTypeOK /\ RowsInv /\ HeldInv /\ InsertInv

-----------------------------------------------------------------------------
LEMMA InitInv == LogInit => Inv
<1> SUFFICES ASSUME LogInit PROVE Inv
  OBVIOUS
<1>1. 0 \in Stamp /\ Blank \in Row
  BY StampAssumption DEF Stamp, Row, Blank
<1>2. LogTypeOK
  BY <1>1 DEF LogInit, LogTypeOK
<1>3. RowsInv /\ HeldInv /\ InsertInv
  BY DEF LogInit, RowsInv, ChainRooted, HeldInv, InsertInv
<1> QED
  BY <1>2, <1>3 DEF Inv

\* What the INSERTs in progress add to the table, whichever of them commit.
LEMMA CommitRows ==
  ASSUME Inv, NEW done \in SUBSET {w \in Writers : stage[w] = "inserting"},
         rows' = rows \union {draft[w] : w \in done}, clock' = clock
  PROVE  RowsInv' /\ rows' \subseteq Row
<1>1. rows' \subseteq Row
  BY DEF Inv, LogTypeOK
<1>2. \A r \in rows' : r.prev < r.at /\ r.at <= clock'
  BY DEF Inv, RowsInv, ChainRooted, InsertInv
<1>3. Stamps(rows) \subseteq Stamps(rows')
  BY DEF Stamps
<1>4. \A r \in rows' : r.prev # 0 => r.prev \in Stamps(rows')
  <2> SUFFICES ASSUME NEW r \in rows', r.prev # 0
               PROVE  r.prev \in Stamps(rows)
    BY <1>3
  <2>1. CASE r \in rows
    BY <2>1 DEF Inv, RowsInv, ChainRooted
  <2>2. CASE \E w \in done : r = draft[w]
    BY <2>2 DEF Inv, HeldInv
  <2> QED
    BY <2>1, <2>2
<1>5. \A r, x \in rows' : x.at = r.at => x = r
  <2> SUFFICES ASSUME NEW r \in rows', NEW x \in rows', x.at = r.at
               PROVE  x = r
    OBVIOUS
  <2>1. CASE r \in rows /\ x \in rows
    BY <2>1 DEF Inv, RowsInv, ChainRooted
  <2>2. ASSUME NEW y \in rows, NEW w \in done PROVE y.at # draft[w].at
    BY DEF Inv, InsertInv, Stamps
  <2>3. ASSUME NEW v \in done, NEW w \in done, draft[v].at = draft[w].at
        PROVE  v = w
    BY <2>3 DEF Inv, InsertInv
  <2> QED
    BY <2>1, <2>2, <2>3
<1> QED
  BY <1>1, <1>2, <1>4, <1>5 DEF RowsInv, ChainRooted

LEMMA ReadLastInv ==
  ASSUME Inv, NEW w \in Writers, ReadLast(w)
  PROVE  Inv'
<1>1. PICK l \in Stamp :
        IsLatest(l, rows) /\ draft' = [draft EXCEPT ![w].prev = l]
  BY DEF ReadLast
<1>2. /\ stage' = [stage EXCEPT ![w] = "read"]
      /\ UNCHANGED <<rows, clock>>
  BY DEF ReadLast
<1>3. l \in {0} \union Stamps(rows)
  BY <1>1 DEF IsLatest
<1>4. /\ draft' \in [Writers -> Row]
      /\ draft'[w].prev = l
      /\ \A v \in Writers \ {w} : draft'[v] = draft[v] /\ stage'[v] = stage[v]
  BY <1>1, <1>2 DEF Inv, LogTypeOK, Row
<1>5. LogTypeOK'
  BY <1>2, <1>4 DEF Inv, LogTypeOK
<1>6. RowsInv'
  BY <1>2 DEF Inv, RowsInv, ChainRooted, Stamps
<1>7. HeldInv'
  BY <1>2, <1>3, <1>4 DEF Inv, HeldInv, Stamps
<1>8. stage'[w] = "read"
  BY <1>2 DEF Inv, LogTypeOK
<1>9. InsertInv'
  BY <1>2, <1>4, <1>8 DEF Inv, InsertInv, Stamps
<1> QED
  BY <1>5, <1>6, <1>7, <1>9 DEF Inv

LEMMA StartInsertInv ==
  ASSUME Inv, NEW w \in Writers, StartInsert(w)
  PROVE  Inv'
<1>1. /\ clock' = clock + 1
      /\ draft' = [draft EXCEPT ![w].at = clock']
      /\ stage' = [stage EXCEPT ![w] = "inserting"]
      /\ rows' = rows
      /\ stage[w] = "read"
  BY DEF StartInsert
<1>2. clock \in Nat /\ clock' \in Stamp
  BY <1>1, StampAssumption DEF Inv, LogTypeOK, StartInsert, Stamp
<1>3. /\ draft' \in [Writers -> Row]
      /\ draft'[w].at = clock' /\ draft'[w].prev = draft[w].prev
      /\ \A v \in Writers \ {w} : draft'[v] = draft[v] /\ stage'[v] = stage[v]
  BY <1>1, <1>2 DEF Inv, LogTypeOK, Row
<1>4. LogTypeOK'
  BY <1>1, <1>2, <1>3 DEF Inv, LogTypeOK
<1>5. \A r \in rows : r.at \in Nat /\ r.at <= clock
  BY DEF Inv, LogTypeOK, RowsInv, Row, Stamp
<1>6. RowsInv'
  BY <1>1, <1>2, <1>5 DEF Inv, RowsInv, ChainRooted, Stamps
<1>7. HeldInv'
  BY <1>1, <1>3 DEF Inv, HeldInv, Stamps
<1>8. draft'[w].prev < clock' /\ clock' \notin Stamps(rows')
  BY <1>1, <1>2, <1>3, <1>5 DEF Inv, HeldInv, Stamps
<1>9. \A v \in Writers \ {w} : stage'[v] = "inserting" => draft'[v].at < clock'
  <2> SUFFICES ASSUME NEW v \in Writers \ {w}, stage'[v] = "inserting"
               PROVE  draft'[v].at < clock'
    OBVIOUS
  <2>1. draft[v].at \in Nat /\ draft[v].at <= clock
    BY <1>3 DEF Inv, InsertInv, LogTypeOK, Row, Stamp
  <2> QED
    BY <1>1, <1>2, <1>3, <2>1
<1>10. InsertInv'
  <2> SUFFICES ASSUME NEW v \in Writers, stage'[v] = "inserting"
               PROVE  /\ draft'[v].prev < draft'[v].at
                      /\ draft'[v].at <= clock'
                      /\ draft'[v].at \notin Stamps(rows')
                      /\ \A u \in Writers \ {v} : stage'[u] = "inserting" =>
                           draft'[u].at # draft'[v].at
    BY DEF InsertInv
  <2>1. CASE v = w
    BY <1>2, <1>3, <1>8, <1>9, <2>1 DEF Stamp
  <2>2. CASE v # w
    <3>1. /\ draft'[v].prev < draft'[v].at
          /\ draft'[v].at \in Nat /\ draft'[v].at <= clock
          /\ draft'[v].at \notin Stamps(rows')
      BY <1>1, <1>3, <2>2 DEF Inv, InsertInv, LogTypeOK, Row, Stamp
    <3>2. ASSUME NEW u \in Writers \ {v}, stage'[u] = "inserting"
          PROVE  draft'[u].at # draft'[v].at
      <4>1. CASE u = w
        BY <1>2, <1>3, <1>9, <2>2, <3>1, <4>1 DEF Stamp
      <4>2. CASE u # w
        BY <1>3, <2>2, <3>2, <4>2 DEF Inv, InsertInv
      <4> QED
        BY <4>1, <4>2
    <3> QED
      BY <1>1, <1>2, <3>1, <3>2
  <2> QED
    BY <2>1, <2>2
<1> QED
  BY <1>4, <1>6, <1>7, <1>10 DEF Inv

LEMMA LeaveFacts ==
  ASSUME Inv, NEW w \in Writers, Leave(w)
  PROVE  /\ stage' \in [Writers -> {"idle", "read", "inserting"}]
         /\ draft' \in [Writers -> Row]
         /\ stage'[w] = "idle"
         /\ \A v \in Writers \ {w} : draft'[v] = draft[v] /\ stage'[v] = stage[v]
<1>1. Blank \in Row
  BY StampAssumption DEF Blank, Row, Stamp
<1> QED
  BY <1>1 DEF Inv, LogTypeOK, Leave

LEMMA CommitInsertInv ==
  ASSUME Inv, NEW w \in Writers, CommitInsert(w)
  PROVE  Inv'
<1>1. /\ stage[w] = "inserting"
      /\ rows' = rows \union {draft[w]}
      /\ Leave(w)
      /\ clock' = clock
  BY DEF CommitInsert
<1>2. PICK done \in SUBSET {v \in Writers : stage[v] = "inserting"} : done = {w}
  BY <1>1
<1>3. RowsInv' /\ rows' \subseteq Row
  <2>1. rows' = rows \union {draft[v] : v \in done}
    BY <1>1, <1>2
  <2> QED
    BY <1>1, <2>1, CommitRows
<1>4. LogTypeOK'
  BY <1>1, <1>3, LeaveFacts DEF Inv, LogTypeOK
<1>5. Stamps(rows') = Stamps(rows) \union {draft[w].at}
  BY <1>1 DEF Stamps
<1>6. HeldInv'
  BY <1>1, <1>5, LeaveFacts DEF Inv, HeldInv
<1>7. InsertInv'
  <2> SUFFICES ASSUME NEW v \in Writers, stage'[v] = "inserting"
               PROVE  /\ draft'[v].prev < draft'[v].at
                      /\ draft'[v].at <= clock'
                      /\ draft'[v].at \notin Stamps(rows')
                      /\ \A u \in Writers \ {v} : stage'[u] = "inserting" =>
                           draft'[u].at # draft'[v].at
    BY DEF InsertInv
  <2>1. v # w /\ draft'[v] = draft[v] /\ stage[v] = "inserting"
    BY <1>1, LeaveFacts
  <2>2. draft[v].at # draft[w].at
    BY <1>1, <2>1 DEF Inv, InsertInv
  <2>3. \A u \in Writers \ {v} : stage'[u] = "inserting" =>
          u # w /\ draft'[u] = draft[u] /\ stage[u] = "inserting"
    BY <1>1, LeaveFacts
  <2> QED
    BY <1>1, <1>5, <2>1, <2>2, <2>3 DEF Inv, InsertInv
<1> QED
  BY <1>3, <1>4, <1>6, <1>7 DEF Inv

LEMMA FailAppendInv ==
  ASSUME Inv, NEW w \in Writers, FailAppend(w)
  PROVE  Inv'
<1>1. Leave(w) /\ rows' = rows /\ clock' = clock
  BY DEF FailAppend
<1>2. LogTypeOK'
  BY <1>1, LeaveFacts DEF Inv, LogTypeOK
<1>3. RowsInv'
  BY <1>1 DEF Inv, RowsInv, ChainRooted, Stamps
<1>4. HeldInv'
  BY <1>1, LeaveFacts DEF Inv, HeldInv, Stamps
<1>5. InsertInv'
  BY <1>1, LeaveFacts DEF Inv, InsertInv, Stamps
<1> QED
  BY <1>2, <1>3, <1>4, <1>5 DEF Inv

LEMMA RestartInv ==
  ASSUME Inv, LogRestart
  PROVE  Inv'
<1>1. PICK done \in SUBSET {w \in Writers : stage[w] = "inserting"} :
        rows' = rows \union {draft[w] : w \in done}
  BY DEF LogRestart
<1>2. /\ stage' = [w \in Writers |-> "idle"]
      /\ draft' = [w \in Writers |-> Blank]
      /\ clock' = clock
  BY DEF LogRestart
<1>3. RowsInv' /\ rows' \subseteq Row
  BY <1>1, <1>2, CommitRows
<1>4. Blank \in Row
  BY StampAssumption DEF Blank, Row, Stamp
<1>5. LogTypeOK'
  BY <1>2, <1>3, <1>4 DEF Inv, LogTypeOK
<1>6. HeldInv' /\ InsertInv'
  BY <1>2 DEF HeldInv, InsertInv
<1> QED
  BY <1>3, <1>5, <1>6 DEF Inv

LEMMA StepInv == Inv /\ [LogNext]_logVars => Inv'
<1> SUFFICES ASSUME Inv, [LogNext]_logVars PROVE Inv'
  OBVIOUS
<1>1. CASE LogRestart
  BY <1>1, RestartInv
<1>2. ASSUME NEW w \in Writers, AppendStep(w) PROVE Inv'
  BY <1>2, ReadLastInv, StartInsertInv, CommitInsertInv, FailAppendInv
     DEF AppendStep
<1>3. CASE UNCHANGED logVars
  BY <1>3 DEF logVars, Inv, LogTypeOK, RowsInv, ChainRooted, HeldInv, InsertInv, Stamps
<1> QED
  BY <1>1, <1>2, <1>3 DEF LogNext

\* The inductive invariant holds for any number of writers.
THEOREM Invariance == LogSpec => []Inv
  BY InitInv, StepInv, PTL DEF LogSpec

\* Rows, drafts and stages keep their types.
THEOREM TypeCorrect == LogSpec => []LogTypeOK
<1>1. Inv => LogTypeOK
  BY DEF Inv
<1> QED
  BY <1>1, Invariance, PTL

\* Racing appends may fork the chain, but every row leads back to "genesis".
THEOREM RootedForAnyWriters == LogSpec => []ChainRooted
<1>1. Inv => ChainRooted
  BY DEF Inv, RowsInv
<1> QED
  BY <1>1, Invariance, PTL

-----------------------------------------------------------------------------
\* A chain grows by a row that comes last and carries the last hash.
LEMMA ChainGrows ==
  ASSUME NEW S, NEW d, \A r \in S : r.at \in Nat, d.at \in Nat,
         IsChain(S), IsLatest(d.prev, S), \A r \in S : r.at < d.at
  PROVE  IsChain(S \union {d})
<1>1. ASSUME NEW r \in S PROVE Before(r.at, S \union {d}) = Before(r.at, S)
  <2>1. ~(d.at < r.at)
    OBVIOUS
  <2> QED
    BY <2>1 DEF Before
<1>2. Before(d.at, S \union {d}) = S
  BY DEF Before
<1> QED
  BY <1>1, <1>2 DEF IsChain

-----------------------------------------------------------------------------
\* The log and the sync.
LEMMA LogOfInit == Init => LogInit
  BY DEF Init

LEMMA LogOfStep == [Next]_vars => [LogNext]_logVars
<1> SUFFICES ASSUME [Next]_vars PROVE [LogNext]_logVars
  OBVIOUS
<1>1. ASSUME NEW w \in Writers, LogStep(w) PROVE LogNext
  BY <1>1 DEF LogStep, LogNext
<1>2. CASE Restart
  BY <1>2 DEF Restart, LogNext
<1>3. ASSUME NEW b \in late, ArriveLate(b) PROVE UNCHANGED logVars
  BY <1>3 DEF ArriveLate, auditVars
<1>4. CASE PostBatch \/ Answer \/ PostFails \/ PostTimesOut
  BY <1>4 DEF PostBatch, Answer, PostFails, PostTimesOut, auditVars
<1>5. CASE SaveCursor \/ ResetCursor \/ AnswerLost \/ DashboardRestore
  BY <1>5 DEF SaveCursor, ResetCursor, AnswerLost, DashboardRestore, auditVars
<1>6. CASE UNCHANGED vars
  BY <1>6 DEF vars, auditVars
<1> QED
  BY <1>1, <1>2, <1>3, <1>4, <1>5, <1>6 DEF Next

LEMMA LogInvariance == Spec => []Inv
  BY LogOfInit, LogOfStep, InitInv, StepInv, PTL DEF Spec

\* Rows are never removed.
LEMMA RowsGrow == [LogNext]_logVars => rows \subseteq rows'
<1> SUFFICES ASSUME [LogNext]_logVars PROVE rows \subseteq rows'
  OBVIOUS
<1>1. CASE LogRestart
  BY <1>1 DEF LogRestart
<1>2. ASSUME NEW w \in Writers, AppendStep(w) PROVE rows \subseteq rows'
  BY <1>2 DEF AppendStep, ReadLast, StartInsert, CommitInsert, FailAppend
<1>3. CASE UNCHANGED logVars
  BY <1>3 DEF logVars
<1> QED
  BY <1>1, <1>2, <1>3 DEF LogNext

-----------------------------------------------------------------------------
\* Type correctness, for any number of writers.
LEMMA InitType == Init => TypeOK
<1> SUFFICES ASSUME Init PROVE TypeOK
  OBVIOUS
<1>1. LogTypeOK
  BY InitInv DEF Init, Inv
<1>2. 0 \in Stamp /\ 0 \in 0 .. MaxRestores
  BY StampAssumption, SyncAssumption DEF Stamp
<1> QED
  BY <1>1, <1>2 DEF Init, TypeOK

LEMMA ReceiveType ==
  ASSUME TypeOK, NEW b \in SUBSET rows, Receive(b)
  PROVE  /\ dashboard' \subseteq delivered'
         /\ delivered' \subseteq rows
         /\ delivered \subseteq delivered'
  BY DEF TypeOK, Receive

LEMMA StepType == TypeOK /\ Inv' /\ [Next]_vars => TypeOK'
<1> SUFFICES ASSUME TypeOK, Inv', [Next]_vars PROVE TypeOK'
  OBVIOUS
<1>1. LogTypeOK'
  BY DEF Inv
<1>2. rows \subseteq rows'
  BY LogOfStep, RowsGrow
<1>3. ASSUME NEW w \in Writers, LogStep(w) PROVE TypeOK'
  BY <1>1, <1>2, <1>3 DEF LogStep, Track, syncVars, TypeOK
<1>4. CASE PostBatch
  BY <1>1, <1>4 DEF PostBatch, FirstPending, Pending, auditVars, logVars, TypeOK
<1>5. CASE Answer
  <2>1. batch \in SUBSET rows /\ Receive(batch)
    BY <1>5 DEF Answer, TypeOK
  <2>2. /\ dashboard' \subseteq delivered' /\ delivered' \subseteq rows
    BY <2>1, ReceiveType
  <2>3. sync' \in {"accepted", "rejected"}
    BY <1>5 DEF Answer
  <2> QED
    BY <1>1, <1>5, <2>2, <2>3 DEF Answer, auditVars, logVars, TypeOK
<1>6. CASE PostFails \/ PostTimesOut
  BY <1>1, <1>6 DEF PostFails, PostTimesOut, Finish, auditVars, logVars, TypeOK
<1>7. ASSUME NEW b \in late, ArriveLate(b) PROVE TypeOK'
  <2>1. b \in SUBSET rows /\ Receive(b)
    BY <1>7 DEF ArriveLate, TypeOK
  <2>2. /\ dashboard' \subseteq delivered' /\ delivered' \subseteq rows
    BY <2>1, ReceiveType
  <2> QED
    BY <1>1, <1>7, <2>2 DEF ArriveLate, auditVars, logVars, TypeOK
<1>8. CASE SaveCursor \/ ResetCursor \/ AnswerLost
  <2>1. 0 \in Stamp
    BY StampAssumption DEF Stamp
  <2> QED
    BY <1>1, <1>8, <2>1
       DEF SaveCursor, ResetCursor, AnswerLost, Finish, auditVars, logVars, TypeOK
<1>9. CASE DashboardRestore
  <2>1. dashboard' \subseteq dashboard
    BY <1>9 DEF DashboardRestore, Before
  <2>2. restores' \in 0 .. MaxRestores
    BY <1>9, SyncAssumption DEF DashboardRestore, TypeOK
  <2> QED
    BY <1>1, <1>9, <2>1, <2>2 DEF DashboardRestore, auditVars, logVars, TypeOK
<1>10. CASE Restart
  BY <1>1, <1>2, <1>10 DEF Restart, Track, Finish, TypeOK
<1>11. CASE UNCHANGED vars
  BY <1>1, <1>11 DEF vars, syncVars, auditVars, logVars, TypeOK
<1> QED
  BY <1>3, <1>4, <1>5, <1>6, <1>7, <1>8, <1>9, <1>10, <1>11 DEF Next

\* The log and the sync task keep their types.
THEOREM SyncTypeCorrect == Spec => []TypeOK
  BY InitType, StepType, LogInvariance, PTL DEF Spec

\* The chain stays rooted under the composition, for any number of writers.
THEOREM RootedWhileSyncing == Spec => []ChainRooted
<1>1. Inv => ChainRooted
  BY DEF Inv, RowsInv
<1> QED
  BY <1>1, LogInvariance, PTL

-----------------------------------------------------------------------------
\* The chain, until an append commits that another one overtook.

\* What a writer holds that was not overtaken is the last row, and its INSERT
\* comes after that.
SoundInv ==
  ~raced =>
    /\ Unforked
    /\ \A w \in Writers \ overtaken :
         /\ stage[w] # "idle" => IsLatest(draft[w].prev, rows)
         /\ stage[w] = "inserting" => \A r \in rows : r.at < draft[w].at

\* A step of the log, with the history it leaves.
TrackedStep == [LogNext]_logVars /\ (Track \/ UNCHANGED auditVars)

LEMMA TrackOfStep == [Next]_vars => TrackedStep
<1> SUFFICES ASSUME [Next]_vars PROVE TrackedStep
  OBVIOUS
<1>1. CASE Restart \/ \E w \in Writers : LogStep(w)
  BY <1>1, LogOfStep DEF Restart, LogStep, TrackedStep
<1>2. CASE \/ PostBatch \/ Answer \/ PostFails \/ PostTimesOut
           \/ SaveCursor \/ ResetCursor \/ AnswerLost \/ DashboardRestore
           \/ \E b \in late : ArriveLate(b)
  BY <1>2, LogOfStep DEF PostBatch, Answer, PostFails, PostTimesOut, SaveCursor,
       ResetCursor, AnswerLost, DashboardRestore, ArriveLate, TrackedStep
<1>3. CASE UNCHANGED vars
  BY <1>3, LogOfStep DEF vars, TrackedStep
<1> QED
  BY <1>1, <1>2, <1>3 DEF Next

LEMMA RacedStays == TrackedStep /\ raced => raced'
BY DEF TrackedStep, Track, auditVars

\* How a step of the log changes the rows.
LEMMA HowRowsGrow ==
  ASSUME [LogNext]_logVars
  PROVE  \E done \in SUBSET {w \in Writers : stage[w] = "inserting"} :
           rows' = rows \union {draft[w] : w \in done}
<1>1. CASE LogRestart
  BY <1>1 DEF LogRestart
<1>2. CASE rows' = rows
  <2>1. rows' = rows \union {draft[w] : w \in {}}
    BY <1>2
  <2> QED
    BY <2>1
<1>3. ASSUME NEW w \in Writers, CommitInsert(w)
      PROVE  \E done \in SUBSET {v \in Writers : stage[v] = "inserting"} :
               rows' = rows \union {draft[v] : v \in done}
  <2>1. {w} \in SUBSET {v \in Writers : stage[v] = "inserting"}
    BY <1>3 DEF CommitInsert
  <2>2. rows' = rows \union {draft[v] : v \in {w}}
    BY <1>3 DEF CommitInsert
  <2> QED
    BY <2>1, <2>2
<1>4. CASE UNCHANGED logVars
  BY <1>2, <1>4 DEF logVars
<1> QED
  BY <1>1, <1>2, <1>3, <1>4
  DEF LogNext, AppendStep, ReadLast, StartInsert, FailAppend

\* Without a race a step commits at most one row, of a writer not overtaken.
LEMMA CommitsOne ==
  ASSUME Inv, TrackedStep, ~raced', rows' # rows
  PROVE  \E w \in Writers \ overtaken :
           stage[w] = "inserting" /\ rows' = rows \union {draft[w]}
<1>1. PICK done \in SUBSET {w \in Writers : stage[w] = "inserting"} :
        rows' = rows \union {draft[w] : w \in done}
  BY HowRowsGrow DEF TrackedStep
<1>2. Track
  BY DEF TrackedStep, auditVars, logVars
<1>3. \A w \in done : draft[w] \in rows' \ rows
  BY <1>1 DEF Inv, InsertInv, Stamps
<1>4. PICK w \in done : TRUE
  BY <1>1
<1>5. \A v \in done : draft[v] = draft[w]
  BY <1>2, <1>3 DEF Track
<1>6. w \notin overtaken
  BY <1>2, <1>3 DEF Track
<1>7. rows' = rows \union {draft[w]}
  BY <1>1, <1>5
<1> QED
  BY <1>1, <1>6, <1>7

\* Until a race new rows come after all others.
LEMMA NewRowsLast ==
  ASSUME Inv, SoundInv, TrackedStep, ~raced'
  PROVE  \A d \in rows' \ rows, r \in rows : r.at < d.at
<1>1. ~raced
  BY RacedStays
<1> QED
  BY <1>1, CommitsOne DEF SoundInv

LEMMA UnforkedStep ==
  ASSUME Inv, SoundInv, TrackedStep, ~raced'
  PROVE  Unforked'
<1>1. ~raced /\ Unforked
  BY RacedStays DEF SoundInv
<1>2. CASE rows' = rows
  BY <1>1, <1>2 DEF Unforked
<1>3. CASE rows' # rows
  <2>1. PICK w \in Writers \ overtaken :
          stage[w] = "inserting" /\ rows' = rows \union {draft[w]}
    BY <1>3, CommitsOne
  <2>2. (\A r \in rows : r.at \in Nat) /\ draft[w].at \in Nat
    BY DEF Inv, LogTypeOK, Row, Stamp
  <2>3. IsLatest(draft[w].prev, rows) /\ \A r \in rows : r.at < draft[w].at
    BY <1>1, <2>1 DEF SoundInv
  <2>4. IsChain(rows \union {draft[w]})
    BY <1>1, <2>2, <2>3, ChainGrows DEF Unforked
  <2> QED
    BY <2>1, <2>4 DEF Unforked
<1> QED
  BY <1>2, <1>3

\* A writer that nothing overtakes keeps the last row.
LEMMA HeldStep ==
  ASSUME Inv, SoundInv, TrackedStep, ~raced', NEW w \in Writers \ overtaken'
  PROVE  /\ stage'[w] # "idle" => IsLatest(draft'[w].prev, rows')
         /\ stage'[w] = "inserting" => \A r \in rows' : r.at < draft'[w].at
<1>1. ~raced
  BY RacedStays
<1>2. SUFFICES ASSUME stage'[w] # "idle"
               PROVE  /\ IsLatest(draft'[w].prev, rows')
                      /\ stage'[w] = "inserting" => \A r \in rows' : r.at < draft'[w].at
  OBVIOUS
<1>3. rows' = rows /\ w \notin overtaken
  BY <1>2 DEF TrackedStep, Track, auditVars, logVars
<1>4. CASE stage'[w] = stage[w] /\ draft'[w] = draft[w]
  BY <1>1, <1>2, <1>3, <1>4 DEF SoundInv
<1>5. CASE ReadLast(w)
  <2>1. PICK l \in Stamp :
          IsLatest(l, rows) /\ draft' = [draft EXCEPT ![w].prev = l]
    BY <1>5 DEF ReadLast
  <2>2. stage'[w] = "read" /\ draft'[w].prev = l
    BY <1>5, <2>1 DEF ReadLast, Inv, LogTypeOK, Row
  <2> QED
    BY <1>3, <2>1, <2>2
<1>6. CASE StartInsert(w)
  <2>1. draft'[w].at = clock + 1 /\ draft'[w].prev = draft[w].prev /\ stage[w] = "read"
    BY <1>6 DEF StartInsert, Inv, LogTypeOK, Row
  <2>2. \A r \in rows : r.at < clock + 1
    BY DEF Inv, RowsInv, LogTypeOK, Row, Stamp
  <2> QED
    BY <1>1, <1>3, <2>1, <2>2 DEF SoundInv
<1>7. CASE CommitInsert(w) \/ FailAppend(w)
  BY <1>2, <1>7, LeaveFacts DEF CommitInsert, FailAppend
<1>8. ASSUME NEW v \in Writers \ {w}, AppendStep(v)
      PROVE  stage'[w] = stage[w] /\ draft'[w] = draft[w]
  BY <1>8 DEF AppendStep, ReadLast, StartInsert, CommitInsert, FailAppend, Leave,
              Inv, LogTypeOK
<1>9. CASE LogRestart
  BY <1>2, <1>9 DEF LogRestart
<1> QED
  BY <1>4, <1>5, <1>6, <1>7, <1>8, <1>9 DEF TrackedStep, LogNext, AppendStep, logVars

LEMMA SoundStep == Inv /\ SoundInv /\ TrackedStep => SoundInv'
<1> SUFFICES ASSUME Inv, SoundInv, TrackedStep, ~raced'
             PROVE  /\ Unforked'
                    /\ \A w \in Writers \ overtaken' :
                         /\ stage'[w] # "idle" => IsLatest(draft'[w].prev, rows')
                         /\ stage'[w] = "inserting" => \A r \in rows' : r.at < draft'[w].at
  BY DEF SoundInv
<1> QED
  BY UnforkedStep, HeldStep

LEMMA SoundInvariance == Spec => []SoundInv
<1>1. Init => SoundInv
  BY DEF Init, LogInit, SoundInv, Unforked, IsChain
<1>2. Inv /\ SoundInv /\ [Next]_vars => SoundInv'
  BY TrackOfStep, SoundStep
<1> QED
  BY <1>1, <1>2, LogInvariance, PTL DEF Spec

\* For any number of appends in progress, with any of them failing and any
\* restarts in between: the chain forks only if an append commits that another
\* one overtook.
THEOREM ForksOnlyByRace == Spec => []ForkedOnlyByRace
<1>1. SoundInv => ForkedOnlyByRace
  BY DEF SoundInv, ForkedOnlyByRace
<1> QED
  BY <1>1, SoundInvariance, PTL

-----------------------------------------------------------------------------
\* The cursor.
\* Between the cursor and its last row, the batch leaves out none.
Contiguous ==
  \A b \in batch, x \in rows : cursor < x.at /\ x.at <= b.at => x \in batch

CursorInv ==
  /\ TypeOK
  /\ NoRowSkipped
  /\ cursor \in {0} \union Stamps(rows)
  /\ ~raced => Contiguous
  /\ sync = "accepted" => batch \subseteq delivered

\* created_at tells the rows apart, and the clock is bounded.
LEMMA RowsFinite ==
  ASSUME Inv
  PROVE  IsFiniteSet(rows)
<1> DEFINE At == [r \in rows |-> r.at]
<1>1. IsFiniteSet(0 .. MaxStamp)
  BY StampAssumption, FS_Interval
<1>2. At \in [rows -> 0 .. MaxStamp]
  BY DEF Inv, LogTypeOK, Row, Stamp
<1>3. \A r, x \in rows : At[r] = At[x] => r = x
  BY DEF Inv, RowsInv, ChainRooted
<1>4. At \in Injection(rows, 0 .. MaxStamp)
  BY <1>2, <1>3 DEF Injection, IsInjective
<1> QED
  BY <1>1, <1>4, FS_Injection

\* LIMIT after ORDER BY: an older pending row comes before a newer one.
LEMMA FirstPendingContiguous ==
  ASSUME Inv, IsFiniteSet(rows), cursor \in Stamp,
         NEW b \in FirstPending, NEW x \in rows, cursor < x.at, x.at <= b.at
  PROVE  x \in FirstPending
<1> DEFINE Older(r) == {y \in Pending : y.at < r.at}
<1>1. x \in Pending /\ b \in rows /\ Cardinality(Older(b)) < BatchSize
  BY DEF Pending, FirstPending
<1>2. \A y \in rows : y.at \in Nat
  BY DEF Inv, LogTypeOK, Row, Stamp
<1>3. Older(x) \subseteq Older(b)
  <2> SUFFICES ASSUME NEW y \in Older(x) PROVE y.at < b.at
    OBVIOUS
  <2>1. y \in rows /\ y.at < x.at
    BY DEF Pending
  <2> QED
    BY <1>1, <1>2, <2>1
<1>4. IsFiniteSet(Older(b)) /\ IsFiniteSet(Older(x))
  <2>1. Older(b) \subseteq rows /\ Older(x) \subseteq rows
    BY DEF Pending
  <2> QED
    BY <2>1, FS_Subset
<1>5. Cardinality(Older(x)) <= Cardinality(Older(b))
  BY <1>3, <1>4, FS_Subset
<1>6. Cardinality(Older(x)) \in Nat /\ Cardinality(Older(b)) \in Nat
  BY <1>4, FS_CardinalityType
<1>7. Cardinality(Older(x)) < BatchSize
  BY <1>1, <1>5, <1>6, SyncAssumption
<1> QED
  BY <1>1, <1>7 DEF FirstPending

\* Steps of the log, alone or in a restart, do not disturb the cursor's part.
LEMMA LogKeepsCursorInv ==
  ASSUME Inv, Inv', SoundInv, CursorInv, TypeOK', TrackedStep,
         cursor' = cursor, delivered' = delivered,
         \/ batch' = batch /\ sync' = sync
         \/ batch' = {} /\ sync' = "idle"
  PROVE  CursorInv'
<1>1. rows \subseteq rows'
  BY RowsGrow DEF TrackedStep
<1>2. ASSUME ~raced' PROVE ~raced /\ \A d \in rows' \ rows, r \in rows : r.at < d.at
  BY <1>2, RacedStays, NewRowsLast
<1>3. \A r \in rows' : r.at \in Nat /\ 0 < r.at
  <2> SUFFICES ASSUME NEW r \in rows' PROVE r.at \in Nat /\ 0 < r.at
    OBVIOUS
  <2>1. r.at \in Nat /\ r.prev \in Nat
    BY DEF Inv, LogTypeOK, Row, Stamp
  <2>2. r.prev < r.at
    BY DEF Inv, RowsInv, ChainRooted
  <2> QED
    BY <2>1, <2>2
<1>4. cursor \in Nat /\ cursor' \in {0} \union Stamps(rows')
  BY <1>1 DEF CursorInv, TypeOK, Stamp, Stamps
<1>5. ASSUME ~raced' PROVE \A d \in rows' \ rows : cursor < d.at
  BY <1>2, <1>3, <1>5 DEF CursorInv, Stamps
<1>6. NoRowSkipped'
  <2> SUFFICES ASSUME ~raced', NEW r \in rows', r.at <= cursor PROVE r \in delivered
    BY DEF NoRowSkipped
  <2>1. r \in rows
    BY <1>3, <1>4, <1>5
  <2> QED
    BY <1>2, <2>1 DEF CursorInv, NoRowSkipped
<1>7. ASSUME ~raced', NEW b \in batch', NEW x \in rows', cursor' < x.at, x.at <= b.at
      PROVE  x \in batch'
  <2>1. b \in rows /\ batch' = batch
    BY <1>7 DEF CursorInv, TypeOK
  <2>2. x \in rows
    BY <1>1, <1>2, <1>3, <1>7, <2>1
  <2> QED
    BY <1>2, <1>7, <2>1, <2>2 DEF CursorInv, Contiguous
<1>8. sync' = "accepted" => batch' \subseteq delivered'
  BY DEF CursorInv
<1> QED
  BY <1>4, <1>6, <1>7, <1>8 DEF CursorInv, Contiguous

\* Steps of the sync task and the dashboard, which leave the log alone.
LEMMA SyncKeepsCursorInv ==
  ASSUME Inv, CursorInv, TypeOK', UNCHANGED auditVars,
         \/ PostBatch \/ Answer \/ PostFails \/ PostTimesOut
         \/ SaveCursor \/ ResetCursor \/ AnswerLost \/ DashboardRestore
         \/ \E b \in late : ArriveLate(b)
  PROVE  CursorInv'
<1>0. rows' = rows /\ raced' = raced /\ Stamps(rows)' = Stamps(rows)
  BY DEF auditVars, logVars, Stamps
<1>1. CASE PostBatch
  <2>1. /\ batch' = FirstPending /\ sync' = "posted"
        /\ cursor' = cursor /\ delivered' = delivered
    BY <1>1 DEF PostBatch
  <2>2. Contiguous'
    BY <1>0, <2>1, RowsFinite, FirstPendingContiguous DEF CursorInv, TypeOK, Contiguous
  <2> QED
    BY <1>0, <2>1, <2>2 DEF CursorInv, NoRowSkipped, Contiguous
<1>2. CASE Answer
  <2>1. /\ batch' = batch /\ cursor' = cursor
        /\ delivered \subseteq delivered'
        /\ sync' = "accepted" => batch \subseteq delivered'
    BY <1>2 DEF Answer, Receive
  <2> QED
    BY <1>0, <2>1 DEF CursorInv, NoRowSkipped, Contiguous
<1>3. CASE \E b \in late : ArriveLate(b)
  <2>1. /\ batch' = batch /\ cursor' = cursor /\ sync' = sync
        /\ delivered \subseteq delivered'
    BY <1>3 DEF ArriveLate, Receive
  <2> QED
    BY <1>0, <2>1 DEF CursorInv, NoRowSkipped, Contiguous
<1>4. CASE PostFails \/ PostTimesOut \/ AnswerLost
  <2>1. batch' = {} /\ sync' = "idle" /\ cursor' = cursor /\ delivered' = delivered
    BY <1>4 DEF PostFails, PostTimesOut, AnswerLost, Finish
  <2> QED
    BY <1>0, <2>1 DEF CursorInv, NoRowSkipped, Contiguous
<1>5. CASE DashboardRestore
  <2>1. batch' = batch /\ sync' = sync /\ cursor' = cursor /\ delivered' = delivered
    BY <1>5 DEF DashboardRestore
  <2> QED
    BY <1>0, <2>1 DEF CursorInv, NoRowSkipped, Contiguous
<1>6. CASE SaveCursor
  <2>1. /\ batch' = {} /\ sync' = "idle" /\ delivered' = delivered
        /\ sync = "accepted" /\ IsLatest(cursor', batch)
    BY <1>6 DEF SaveCursor, Finish
  <2>2. batch \subseteq delivered /\ batch \subseteq rows
    BY <2>1 DEF CursorInv, TypeOK
  <2>3. cursor' \in {0} \union Stamps(rows)
    BY <2>1, <2>2 DEF IsLatest, Stamps
  <2>4. ASSUME ~raced, NEW r \in rows, r.at <= cursor' PROVE r \in delivered
    <3>1. r.at \in Nat /\ r.prev \in Nat /\ r.prev < r.at /\ cursor \in Nat
      BY DEF Inv, LogTypeOK, RowsInv, ChainRooted, Row, Stamp, CursorInv, TypeOK
    <3>2. CASE r.at <= cursor
      BY <2>4, <3>2 DEF CursorInv, NoRowSkipped, Contiguous
    <3>3. CASE cursor < r.at
      <4>1. batch # {}
        BY <2>1, <2>4, <3>1 DEF IsLatest
      <4>2. PICK b \in batch : b.at = cursor'
        BY <2>1, <4>1 DEF IsLatest, Stamps
      <4>3. r \in batch
        BY <2>4, <3>3, <4>2 DEF CursorInv, Contiguous
      <4> QED
        BY <2>2, <4>3
    <3> QED
      BY <3>1, <3>2, <3>3
  <2> QED
    BY <1>0, <2>1, <2>3, <2>4 DEF CursorInv, NoRowSkipped, Contiguous
<1>7. CASE ResetCursor
  <2>1. batch' = {} /\ sync' = "idle" /\ cursor' = 0 /\ delivered' = delivered
    BY <1>7 DEF ResetCursor, Finish
  <2>2. \A r \in rows : ~(r.at <= 0)
    BY DEF Inv, LogTypeOK, RowsInv, ChainRooted, Row, Stamp
  <2> QED
    BY <1>0, <2>1, <2>2 DEF CursorInv, NoRowSkipped, Contiguous
<1> QED
  BY <1>1, <1>2, <1>3, <1>4, <1>5, <1>6, <1>7

LEMMA CursorStep ==
  Inv /\ Inv' /\ SoundInv /\ CursorInv /\ TypeOK' /\ [Next]_vars
    => CursorInv'
<1> SUFFICES ASSUME Inv, Inv', SoundInv, CursorInv, TypeOK', [Next]_vars
             PROVE  CursorInv'
  OBVIOUS
<1>1. ASSUME NEW w \in Writers, LogStep(w) PROVE CursorInv'
  <2>1. cursor' = cursor /\ delivered' = delivered /\ batch' = batch /\ sync' = sync
    BY <1>1 DEF LogStep, syncVars
  <2> QED
    BY <2>1, TrackOfStep, LogKeepsCursorInv
<1>2. CASE Restart
  <2>1. cursor' = cursor /\ delivered' = delivered /\ batch' = {} /\ sync' = "idle"
    BY <1>2 DEF Restart, Finish
  <2> QED
    BY <2>1, TrackOfStep, LogKeepsCursorInv
<1>3. CASE UNCHANGED vars
  <2>1. cursor' = cursor /\ delivered' = delivered /\ batch' = batch /\ sync' = sync
    BY <1>3 DEF vars, syncVars
  <2> QED
    BY <2>1, TrackOfStep, LogKeepsCursorInv
<1>4. CASE \/ PostBatch \/ Answer \/ PostFails \/ PostTimesOut
           \/ SaveCursor \/ ResetCursor \/ AnswerLost \/ DashboardRestore
           \/ \E b \in late : ArriveLate(b)
  <2>1. UNCHANGED auditVars
    BY <1>4 DEF PostBatch, Answer, PostFails, PostTimesOut, SaveCursor,
                ResetCursor, AnswerLost, DashboardRestore, ArriveLate
  <2> QED
    BY <1>4, <2>1, SyncKeepsCursorInv
<1> QED
  BY <1>1, <1>2, <1>3, <1>4 DEF Next

LEMMA CursorInvariance == Spec => []CursorInv
<1>1. Init => CursorInv
  <2> SUFFICES ASSUME Init PROVE CursorInv
    OBVIOUS
  <2>1. TypeOK
    BY InitType
  <2> QED
    BY <2>1 DEF Init, LogInit, CursorInv, NoRowSkipped, Contiguous
<1>2. Inv /\ Inv' /\ SoundInv /\ CursorInv /\ TypeOK' /\ [Next]_vars => CursorInv'
  BY CursorStep
<1> QED
  BY <1>1, <1>2, LogInvariance, SoundInvariance, SyncTypeCorrect, PTL DEF Spec

\* The sync skips no row, for every batch size and any number of appends in
\* progress, until an append commits that another one overtook.
THEOREM NoRowIsSkipped == Spec => []NoRowSkipped
<1>1. CursorInv => NoRowSkipped
  BY DEF CursorInv
<1> QED
  BY <1>1, CursorInvariance, PTL

-----------------------------------------------------------------------------
\* The dashboard's copy.
DashboardIsPrefix == DashboardCopy!Prefix(dashboard, rows)

\* Between two rows of b, b leaves out none.
Gapless(b) ==
  \A y, z \in b, x \in rows : y.at <= x.at /\ x.at <= z.at => x \in b

ReplicaInv ==
  ~raced =>
    /\ DashboardIsPrefix
    /\ Gapless(batch)
    /\ \A b \in late : Gapless(b)

LEMMA RowsAreStamped ==
  ASSUME Inv
  PROVE  \A r \in rows : r.at \in Nat /\ r.prev \in Nat /\ r.prev < r.at
BY DEF Inv, RowsInv, ChainRooted, LogTypeOK, Row, Stamp

\* A set of rows has an oldest one.
LEMMA OldestRow ==
  ASSUME Inv, NEW b, b \subseteq rows, b # {}
  PROVE  \E m \in b : \A y \in b : m.at <= y.at
<1>1. Stamps(b) \subseteq Nat /\ Stamps(b) # {}
  BY RowsAreStamped DEF Stamps
<1>2. PICK t \in Stamps(b) : \A u \in Stamps(b) : ~(<<u, t>> \in OpToRel(<, Nat))
  BY <1>1, NatLessThanWellFounded, WFMin
<1>3. \A u \in Stamps(b) : u \in Nat /\ t \in Nat /\ ~(u < t)
  BY <1>1, <1>2 DEF OpToRel
<1>4. PICK m \in b : m.at = t
  BY DEF Stamps
<1>5. \A y \in b : y.at \in Stamps(b)
  BY DEF Stamps
<1>6. \A y \in b : m.at <= y.at
  BY <1>3, <1>4, <1>5
<1> QED
  BY <1>6

\* A batch the dashboard takes leaves no row out before it.
LEMMA AcceptedIsPrefix ==
  ASSUME Inv, Unforked, DashboardIsPrefix, NEW b, b \subseteq rows, Gapless(b), Accepts(b)
  PROVE  DashboardCopy!Prefix(dashboard \union b, rows)
<1> DEFINE D == dashboard \union b
<1>1. D \subseteq rows
  BY DEF DashboardIsPrefix, DashboardCopy!Prefix
<1>2. ASSUME NEW e \in D, NEW f \in rows, f.at <= e.at, f \notin D
      PROVE  FALSE
  <2>1. e \in b
    BY <1>2 DEF DashboardIsPrefix, DashboardCopy!Prefix
  <2>2. \A y \in b : f.at < y.at
    <3> SUFFICES ASSUME NEW y \in b, ~(f.at < y.at) PROVE FALSE
      OBVIOUS
    <3>1. y.at <= f.at
      BY RowsAreStamped
    <3> QED
      BY <1>2, <2>1, <3>1 DEF Gapless
  <2>3. PICK m \in b : \A y \in b : m.at <= y.at
    BY <2>1, OldestRow
  <2>4. f.at < m.at /\ f \in Before(m.at, rows) /\ 0 < f.at
    BY <2>2, RowsAreStamped DEF Before
  <2>5. IsLatest(m.prev, Before(m.at, rows)) /\ IsLatest(m.prev, Before(m.at, D))
    BY <1>1 DEF Unforked, Accepts, IsChain
  <2>6. f.at <= m.prev
    BY <2>4, <2>5 DEF IsLatest
  <2>7. m.prev # 0
    BY <2>4, <2>6, RowsAreStamped
  <2>8. PICK p \in D : p.at = m.prev /\ p.at < m.at
    BY <2>5, <2>7 DEF IsLatest, Before, Stamps
  <2>9. p \in dashboard
    BY <2>3, <2>8, RowsAreStamped
  <2> QED
    BY <1>2, <2>6, <2>8, <2>9 DEF DashboardIsPrefix, DashboardCopy!Prefix
<1> QED
  BY <1>1, <1>2 DEF DashboardCopy!Prefix

\* New rows come last: what had no gap, or was a prefix, still is.
LEMMA LogKeepsShape ==
  ASSUME Inv, Inv', SoundInv, TrackedStep, ~raced'
  PROVE  /\ DashboardCopy!Prefix(rows, rows')
         /\ \A b : b \subseteq rows /\ Gapless(b) => Gapless(b)'
         /\ DashboardIsPrefix /\ dashboard' = dashboard => DashboardIsPrefix'
<1>1. rows \subseteq rows' /\ \A d \in rows' \ rows, r \in rows : r.at < d.at
  BY RowsGrow, NewRowsLast DEF TrackedStep
<1>2. \A d \in rows' : d.at \in Nat
  BY DEF Inv, LogTypeOK, Row, Stamp
<1>3. \A r \in rows, d \in rows' : d.at <= r.at => d \in rows
  BY <1>1, <1>2
<1>4. DashboardCopy!Prefix(rows, rows')
  BY <1>1, <1>3 DEF DashboardCopy!Prefix
<1>5. ASSUME NEW b, b \subseteq rows, Gapless(b) PROVE Gapless(b)'
  BY <1>3, <1>5 DEF Gapless
<1>6. ASSUME DashboardIsPrefix, dashboard' = dashboard PROVE DashboardIsPrefix'
  BY <1>1, <1>3, <1>6 DEF DashboardIsPrefix, DashboardCopy!Prefix
<1> QED
  BY <1>4, <1>5, <1>6

\* The oldest pending rows leave none out between them.
LEMMA FirstPendingGapless ==
  ASSUME Inv, cursor \in Stamp
  PROVE  Gapless(FirstPending)
<1> SUFFICES ASSUME NEW y \in FirstPending, NEW z \in FirstPending, NEW x \in rows,
                    y.at <= x.at, x.at <= z.at
             PROVE  x \in FirstPending
  BY DEF Gapless
<1>1. y \in rows /\ cursor < y.at /\ cursor \in Nat
  BY DEF FirstPending, Pending, Stamp
<1>2. cursor < x.at
  BY <1>1, RowsAreStamped
<1> QED
  BY <1>2, RowsFinite, FirstPendingContiguous

\* A batch that reaches the dashboard, in time or late.
LEMMA ReceiveRefines ==
  ASSUME Inv, Unforked, DashboardIsPrefix, NEW b, b \subseteq rows, Gapless(b),
         Receive(b), rows' = rows, raced' = raced, ~raced
  PROVE  /\ DashboardIsPrefix'
         /\ [DashboardCopy!Next]_DashboardCopy!vars
<1>1. CASE Accepts(b)
  <2>1. dashboard' = dashboard \union b
    BY <1>1 DEF Receive
  <2>2. DashboardCopy!Prefix(dashboard', rows)
    BY <1>1, <2>1, AcceptedIsPrefix
  <2>3. DashboardCopy!Replicate
    BY <2>1, <2>2 DEF DashboardCopy!Replicate
  <2> QED
    BY <2>2, <2>3 DEF DashboardIsPrefix, DashboardCopy!Prefix, DashboardCopy!Next
<1>2. CASE ~Accepts(b)
  <2>1. dashboard' = dashboard
    BY <1>2 DEF Receive
  <2> QED
    BY <2>1 DEF DashboardIsPrefix, DashboardCopy!Prefix, DashboardCopy!vars
<1> QED
  BY <1>1, <1>2

\* What a restored backup holds is what came before some moment.
LEMMA RestoreRefines ==
  ASSUME Inv, DashboardIsPrefix, DashboardRestore, ~raced
  PROVE  DashboardIsPrefix' /\ DashboardCopy!Next
<1>1. PICK t \in Stamp : dashboard' = Before(t, dashboard)
  BY DEF DashboardRestore
<1>2. rows' = rows /\ raced' = raced
  BY DEF DashboardRestore, auditVars, logVars
<1>3. dashboard \subseteq rows /\ t \in Nat
  BY DEF DashboardIsPrefix, DashboardCopy!Prefix, Stamp
<1>4. ASSUME NEW e \in dashboard', NEW f \in rows, f.at <= e.at PROVE f \in dashboard'
  <2>1. e \in dashboard /\ e.at < t
    BY <1>1 DEF Before
  <2>2. f \in dashboard
    BY <1>4, <2>1 DEF DashboardIsPrefix, DashboardCopy!Prefix
  <2>3. f.at < t
    BY <1>3, <1>4, <2>1, RowsAreStamped
  <2> QED
    BY <1>1, <2>2, <2>3 DEF Before
<1>5. dashboard' \subseteq dashboard
  BY <1>1 DEF Before
<1>6. DashboardCopy!Prefix(dashboard', rows) /\ DashboardCopy!Prefix(dashboard', dashboard)
  BY <1>3, <1>4, <1>5 DEF DashboardCopy!Prefix
<1>7. DashboardCopy!Restore
  BY <1>2, <1>6 DEF DashboardCopy!Restore
<1> QED
  BY <1>2, <1>6, <1>7 DEF DashboardIsPrefix, DashboardCopy!Prefix, DashboardCopy!Next

\* Steps of the log, alone or in a restart, extend the log or break it.
LEMMA LogRefines ==
  ASSUME Inv, Inv', SoundInv, TypeOK, ReplicaInv, TrackedStep,
         dashboard' = dashboard,
         batch' \in {batch, {}}, late' \subseteq late \union {batch}
  PROVE  ReplicaInv' /\ DashboardCopy!Next
<1>1. CASE raced'
  BY <1>1 DEF ReplicaInv, DashboardCopy!Next, DashboardCopy!Lapse
<1>2. CASE ~raced'
  <2>0. ~raced
    BY <1>2, RacedStays
  <2>1. DashboardIsPrefix' /\ DashboardCopy!Prefix(rows, rows')
    BY <1>2, <2>0, LogKeepsShape DEF ReplicaInv
  <2>2. \A b \in late \union {batch, {}} : Gapless(b)'
    <3>1. \A b \in late \union {batch, {}} : b \subseteq rows /\ Gapless(b)
      BY <2>0 DEF ReplicaInv, TypeOK, Gapless
    <3> QED
      BY <1>2, <3>1, LogKeepsShape
  <2>3. ReplicaInv'
    BY <2>1, <2>2 DEF ReplicaInv, Gapless
  <2>4. rows' \subseteq Row
    BY DEF Inv, LogTypeOK
  <2>5. DashboardCopy!Extend
    BY <1>2, <2>1, <2>4 DEF DashboardCopy!Extend
  <2> QED
    BY <2>0, <2>3, <2>5 DEF DashboardCopy!Next
<1> QED
  BY <1>1, <1>2

\* Steps of the sync task and the dashboard, which leave the log alone.
LEMMA SyncRefines ==
  ASSUME Inv, SoundInv, CursorInv, ReplicaInv, UNCHANGED auditVars, ~raced,
         \/ PostBatch \/ Answer \/ PostFails \/ PostTimesOut
         \/ SaveCursor \/ ResetCursor \/ AnswerLost \/ DashboardRestore
         \/ \E b \in late : ArriveLate(b)
  PROVE  ReplicaInv' /\ [DashboardCopy!Next]_DashboardCopy!vars
<1>0. rows' = rows /\ raced' = raced /\ Unforked
  BY DEF auditVars, logVars, SoundInv
<1>1. batch \subseteq rows /\ late \subseteq SUBSET rows
  BY DEF CursorInv, TypeOK
<1>2. ASSUME DashboardIsPrefix', Gapless(batch'), \A b \in late' : Gapless(b)
      PROVE  ReplicaInv'
  BY <1>0, <1>2 DEF ReplicaInv, Gapless
<1>3. ASSUME dashboard' = dashboard
      PROVE  DashboardIsPrefix' /\ [DashboardCopy!Next]_DashboardCopy!vars
  BY <1>0, <1>3 DEF ReplicaInv, DashboardIsPrefix, DashboardCopy!Prefix, DashboardCopy!vars
<1>4. Gapless({}) /\ Gapless(batch) /\ \A b \in late : Gapless(b)
  BY DEF ReplicaInv, Gapless
<1>5. CASE PostBatch
  <2>1. batch' = FirstPending /\ late' = late /\ dashboard' = dashboard
    BY <1>5 DEF PostBatch
  <2>2. Gapless(FirstPending)
    BY FirstPendingGapless DEF CursorInv, TypeOK
  <2> QED
    BY <1>2, <1>3, <1>4, <2>1, <2>2
<1>6. CASE Answer
  <2>1. Receive(batch) /\ batch' = batch /\ late' = late
    BY <1>6 DEF Answer
  <2>2. DashboardIsPrefix' /\ [DashboardCopy!Next]_DashboardCopy!vars
    BY <1>0, <1>1, <1>4, <2>1, ReceiveRefines DEF ReplicaInv
  <2> QED
    BY <1>2, <1>4, <2>1, <2>2
<1>7. ASSUME NEW b \in late, ArriveLate(b)
      PROVE  ReplicaInv' /\ [DashboardCopy!Next]_DashboardCopy!vars
  <2>1. Receive(b) /\ batch' = batch /\ late' = late \ {b}
    BY <1>7 DEF ArriveLate
  <2>2. DashboardIsPrefix' /\ [DashboardCopy!Next]_DashboardCopy!vars
    BY <1>0, <1>1, <1>4, <2>1, ReceiveRefines DEF ReplicaInv
  <2> QED
    BY <1>2, <1>4, <2>1, <2>2
<1>8. CASE PostTimesOut
  <2>1. batch' = {} /\ late' = late \union {batch} /\ dashboard' = dashboard
    BY <1>8 DEF PostTimesOut, Finish
  <2> QED
    BY <1>2, <1>3, <1>4, <2>1
<1>9. CASE PostFails \/ SaveCursor \/ ResetCursor \/ AnswerLost
  <2>1. batch' = {} /\ late' = late /\ dashboard' = dashboard
    BY <1>9 DEF PostFails, SaveCursor, ResetCursor, AnswerLost, Finish
  <2> QED
    BY <1>2, <1>3, <1>4, <2>1
<1>10. CASE DashboardRestore
  <2>1. batch' = batch /\ late' = late
    BY <1>10 DEF DashboardRestore
  <2>2. DashboardIsPrefix' /\ DashboardCopy!Next
    BY <1>10, RestoreRefines DEF ReplicaInv
  <2> QED
    BY <1>2, <1>4, <2>1, <2>2
<1> QED
  BY <1>5, <1>6, <1>7, <1>8, <1>9, <1>10

LEMMA StepRefines ==
  Inv /\ Inv' /\ SoundInv /\ CursorInv /\ ReplicaInv /\ [Next]_vars
    => ReplicaInv' /\ [DashboardCopy!Next]_DashboardCopy!vars
<1> SUFFICES ASSUME Inv, Inv', SoundInv, CursorInv, ReplicaInv, [Next]_vars
             PROVE  ReplicaInv' /\ [DashboardCopy!Next]_DashboardCopy!vars
  OBVIOUS
<1>0. TypeOK /\ TrackedStep
  BY TrackOfStep DEF CursorInv
<1>1. ASSUME dashboard' = dashboard, batch' \in {batch, {}}, late' \subseteq late \union {batch}
      PROVE  ReplicaInv' /\ [DashboardCopy!Next]_DashboardCopy!vars
  BY <1>0, <1>1, LogRefines
<1>2. ASSUME NEW w \in Writers, LogStep(w)
      PROVE  dashboard' = dashboard /\ batch' = batch /\ late' = late
  BY <1>2 DEF LogStep, syncVars
<1>3. CASE Restart
  <2>1. dashboard' = dashboard /\ batch' = {} /\ late' \subseteq late \union {batch}
    BY <1>3 DEF Restart, Finish
  <2> QED
    BY <1>1, <2>1
<1>4. CASE UNCHANGED vars
  <2>1. dashboard' = dashboard /\ batch' = batch /\ late' = late
    BY <1>4 DEF vars, syncVars
  <2> QED
    BY <1>1, <2>1
<1>5. CASE \/ PostBatch \/ Answer \/ PostFails \/ PostTimesOut
           \/ SaveCursor \/ ResetCursor \/ AnswerLost \/ DashboardRestore
           \/ \E b \in late : ArriveLate(b)
  <2>1. UNCHANGED auditVars
    BY <1>5 DEF PostBatch, Answer, PostFails, PostTimesOut, SaveCursor,
                ResetCursor, AnswerLost, DashboardRestore, ArriveLate
  <2>2. CASE raced
    <3>1. raced'
      BY <2>1, <2>2 DEF auditVars
    <3> QED
      BY <3>1 DEF ReplicaInv, DashboardCopy!Next, DashboardCopy!Lapse
  <2>3. CASE ~raced
    BY <1>5, <2>1, <2>3, SyncRefines
  <2> QED
    BY <2>2, <2>3
<1> QED
  BY <1>1, <1>2, <1>3, <1>4, <1>5 DEF Next

\* The log and its sync implement the replica, for every batch size and any
\* number of appends in progress, failures, late batches, restarts and
\* restores, until an append commits that another one overtook.
THEOREM ReplicaImplemented == Spec => IsReplica
<1>1. Init => ReplicaInv /\ DashboardCopy!Init
  BY DEF Init, LogInit, ReplicaInv, DashboardIsPrefix, Gapless,
         DashboardCopy!Prefix, DashboardCopy!Init
<1>2. Inv /\ Inv' /\ SoundInv /\ CursorInv /\ ReplicaInv /\ [Next]_vars
        => ReplicaInv' /\ [DashboardCopy!Next]_DashboardCopy!vars
  BY StepRefines
<1> QED
  BY <1>1, <1>2, LogInvariance, SoundInvariance, CursorInvariance, PTL
  DEF Spec, IsReplica, DashboardCopy!Spec
=============================================================================
