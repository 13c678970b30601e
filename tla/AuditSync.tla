------------------------------ MODULE AuditSync ------------------------------
(***************************************************************************)
(* The audit log together with the task of internal/sync/mod.rs that       *)
(* copies it to the dashboard: a cursor kept in PostgreSQL, batches of the *)
(* rows beyond it, a POST with a 15 s timeout, and a reset of the cursor   *)
(* when the dashboard answers 422.                                         *)
(*                                                                         *)
(* The dashboard is not part of this repository.  From how the task uses   *)
(* it: it drops entries it already has (a batch whose answer was lost is   *)
(* posted again), and answers 422, storing nothing, unless the others      *)
(* continue its own chain.                                                 *)
(*                                                                         *)
(* Abstractions: the task's two SELECTs are one step, for no one else      *)
(* writes the cursor and rows beyond it are only added at the end or,      *)
(* with several writers, before it; a dashboard that loses data goes back  *)
(* to a prefix of what it had.                                             *)
(***************************************************************************)
EXTENDS AuditLog, FiniteSets

CONSTANTS
  BatchSize,    \* BATCH_SIZE
  MaxRestores   \* bound on the times the dashboard is restored

ASSUME SyncAssumption == BatchSize \in Nat \ {0} /\ MaxRestores \in Nat

VARIABLES
  cursor,       \* sync_state.last_synced_at, 0 is the epoch
  sync,         \* where the sync task is
  batch,        \* the rows it posted last
  late,         \* batches it gave up on that may still reach the dashboard
  dashboard,    \* the rows the dashboard holds
  delivered,    \* history: the rows the dashboard ever accepted
  restores,
  overtaken,    \* history: writers that another INSERT passed since their SELECT
  raced         \* history: an overtaken writer's row was committed all the same

syncVars == <<cursor, sync, batch, late, dashboard, delivered, restores>>
auditVars == <<logVars, overtaken, raced>>
vars == <<auditVars, syncVars>>

TypeOK ==
  /\ LogTypeOK
  /\ cursor \in Stamp
  /\ sync \in {"idle", "posted", "accepted", "rejected"}
  /\ batch \subseteq rows
  /\ late \subseteq SUBSET rows
  /\ dashboard \subseteq delivered
  /\ delivered \subseteq rows
  /\ restores \in 0 .. MaxRestores
  /\ overtaken \subseteq Writers
  /\ raced \in BOOLEAN

Init ==
  /\ LogInit
  /\ cursor = 0
  /\ sync = "idle"
  /\ batch = {}
  /\ late = {}
  /\ dashboard = {}
  /\ delivered = {}
  /\ restores = 0
  /\ overtaken = {}
  /\ raced = FALSE

-----------------------------------------------------------------------------
Pending == {r \in rows : r.at > cursor}

\* sync_batch returns.
Finish == sync' = "idle" /\ batch' = {}

\* Faulty variants of operators below: a cursor moved to the newest row, a
\* cursor kept on 422.
SaveCursorAtNewest ==
  /\ sync = "accepted"
  /\ Finish
  /\ cursor' \in {c \in Stamp : IsLatest(c, rows)}
  /\ UNCHANGED <<auditVars, late, dashboard, delivered, restores>>

KeepCursor ==
  /\ sync = "rejected"
  /\ Finish
  /\ UNCHANGED <<auditVars, cursor, late, dashboard, delivered, restores>>

-----------------------------------------------------------------------------
\* WHERE created_at > $1 ORDER BY created_at ASC LIMIT BATCH_SIZE
FirstPending ==
  {r \in Pending : Cardinality({x \in Pending : x.at < r.at}) < BatchSize}

\* What the dashboard does with a batch.
Accepts(b) == IsChain(dashboard \union b)

Receive(b) ==
  IF Accepts(b)
  THEN /\ dashboard' = dashboard \union b
       /\ delivered' = delivered \union b
  ELSE UNCHANGED <<dashboard, delivered>>

\* The interval ticks, there are rows beyond the cursor: read and POST them.
PostBatch ==
  /\ sync = "idle"
  /\ Pending # {}
  /\ batch' = FirstPending
  /\ sync' = "posted"
  /\ UNCHANGED <<auditVars, cursor, late, dashboard, delivered, restores>>

\* The dashboard answers 2xx or 422 within the timeout.
Answer ==
  /\ sync = "posted"
  /\ Receive(batch)
  /\ sync' = IF Accepts(batch) THEN "accepted" ELSE "rejected"
  /\ UNCHANGED <<auditVars, cursor, batch, late, restores>>

\* Another status, or no connection: the batch was not taken.
PostFails ==
  /\ sync = "posted"
  /\ Finish
  /\ UNCHANGED <<auditVars, cursor, late, dashboard, delivered, restores>>

\* No answer within 15 s: the batch may be processed after that.
PostTimesOut ==
  /\ sync = "posted"
  /\ Finish
  /\ late' = late \union {batch}
  /\ UNCHANGED <<auditVars, cursor, dashboard, delivered, restores>>

ArriveLate(b) ==
  /\ Receive(b)
  /\ late' = late \ {b}
  /\ UNCHANGED <<auditVars, cursor, sync, batch, restores>>

\* UPDATE sync_state: the created_at of the batch's last row.
SaveCursor ==
  /\ sync = "accepted"
  /\ Finish
  /\ cursor' \in {c \in Stamp : IsLatest(c, batch)}
  /\ UNCHANGED <<auditVars, late, dashboard, delivered, restores>>

\* 422: UPDATE sync_state to the epoch, for a full resend.
ResetCursor ==
  /\ sync = "rejected"
  /\ Finish
  /\ cursor' = 0
  /\ UNCHANGED <<auditVars, late, dashboard, delivered, restores>>

\* The answer is lost on its way, or the UPDATE fails.
AnswerLost ==
  /\ sync \in {"accepted", "rejected"}
  /\ Finish
  /\ UNCHANGED <<auditVars, cursor, late, dashboard, delivered, restores>>

\* The dashboard's database is wiped or restored from a backup.
DashboardRestore ==
  /\ restores < MaxRestores
  /\ restores' = restores + 1
  /\ \E t \in Stamp :
       /\ dashboard' = Before(t, dashboard)
       /\ dashboard' # dashboard
  /\ UNCHANGED <<auditVars, cursor, sync, batch, late, delivered>>

\* History: whom a commit passes, and whether it was itself passed before.
Track ==
  /\ overtaken' = {w \in Writers : stage'[w] # "idle" /\ (rows' # rows \/ w \in overtaken)}
  /\ raced' = \/ raced
              \/ \E r, s \in rows' \ rows : r # s
              \/ \E w \in overtaken : draft[w] \in rows' \ rows

\* The agent restarts; a POST under way may still arrive.
Restart ==
  /\ LogRestart
  /\ Track
  /\ Finish
  /\ late' = IF sync = "posted" THEN late \union {batch} ELSE late
  /\ UNCHANGED <<cursor, dashboard, delivered, restores>>

LogStep(w) == AppendStep(w) /\ Track /\ UNCHANGED syncVars

Next ==
  \/ \E w \in Writers : LogStep(w)
  \/ PostBatch
  \/ Answer
  \/ PostFails
  \/ PostTimesOut
  \/ \E b \in late : ArriveLate(b)
  \/ SaveCursor
  \/ ResetCursor
  \/ AnswerLost
  \/ DashboardRestore
  \/ Restart

(***************************************************************************)
(* The interval keeps ticking, so a task that can post does.  The network, *)
(* the dashboard and PostgreSQL fail any number of times but not always:   *)
(* a batch posted again and again is answered, an answer received again    *)
(* and again is recorded.                                                  *)
(***************************************************************************)
Fairness ==
  /\ WF_vars(PostBatch)
  /\ SF_vars(Answer)
  /\ SF_vars(SaveCursor)
  /\ SF_vars(ResetCursor)

Spec == Init /\ [][Next]_vars /\ Fairness

-----------------------------------------------------------------------------
(***************************************************************************)
(* Nothing in audit/mod.rs keeps two appends apart, but the rows stop      *)
(* being one chain only if an append commits although another committed    *)
(* between its SELECT and its own commit: overlapping, failing, being cut  *)
(* short by a restart or starting its INSERT first does no harm by itself. *)
(***************************************************************************)
ForkedOnlyByRace == ~raced => Unforked

(***************************************************************************)
(* Until such a race the cursor passes no row the dashboard never          *)
(* accepted, whatever was lost, late, restored or interrupted.             *)
(***************************************************************************)
NoRowSkipped == ~raced => \A r \in rows : r.at <= cursor => r \in delivered

(***************************************************************************)
(* A row beyond the cursor gets to the dashboard, and with it every row    *)
(* before it, those the dashboard lost in an earlier restore included,     *)
(* unless the dashboard is restored again or a race forks the chain, which *)
(* the dashboard then refuses.  Not so while an answer from before the     *)
(* restore waits to be recorded: the cursor then passes rows the dashboard *)
(* has lost, and only a later row brings them back.                        *)
(***************************************************************************)
Holds(t) == \A r \in rows : r.at <= t => r \in dashboard

PendingArrives ==
  \A t \in Stamp, k \in 0 .. MaxRestores :
    (t \in Stamps(Pending) /\ restores = k /\ sync # "accepted")
      ~> (Holds(t) \/ restores > k \/ raced)
=============================================================================
