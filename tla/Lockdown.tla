------------------------------ MODULE Lockdown ------------------------------
(***************************************************************************)
(* Lockdown: the flag and the reason of internal/state.rs, the four tasks  *)
(* that set them (heartbeat and PostgreSQL watchdogs of internal/main.rs,  *)
(* nftables divergence, conflicting software) and the acknowledgements     *)
(* that clear them (HTTP /heartbeat and the WebSocket session).            *)
(*                                                                         *)
(* set_lockdown stores the flag and then, in a second step, the reason.    *)
(* clear_lockdown_if_heartbeat holds the reason's mutex from its test to   *)
(* its last store; the one store others can see in between is the flag's,  *)
(* so it is one step.                                                      *)
(*                                                                         *)
(* Abstractions: the time since the last heartbeat saturates just past the *)
(* timeout; why a restore fails or a conflict cannot be removed is left    *)
(* open; a restart needs PostgreSQL, since main connects before it serves. *)
(***************************************************************************)
EXTENDS Naturals

CONSTANTS
  AckTasks,     \* acknowledgements that can be in progress at once
  Timeout       \* HEARTBEAT_TIMEOUT_SECS

ASSUME TimeoutAssumption == Timeout \in Nat

VARIABLES
  lockdown,     \* AppState.lockdown
  reason,       \* AppState.lockdown_reason
  age,          \* last_heartbeat.elapsed(), up to Timeout + 1
  task,         \* where each of the four tasks is
  ack,          \* where each acknowledgement is
  pgUp          \* PostgreSQL answers

lockdownVars == <<lockdown, reason, age, task, ack, pgUp>>

\* LockdownReason; every task has one of its own.
Sticky == {"PgUnreachable", "IncompatibleSoftware", "NftablesFailure"}
Reason == Sticky \union {"Heartbeat"}

Task == {"heartbeat", "pg", "conflict", "divergence"}

ReasonOf(t) ==
  CASE t = "heartbeat"  -> "Heartbeat"
    [] t = "pg"         -> "PgUnreachable"
    [] t = "conflict"   -> "IncompatibleSoftware"
    [] t = "divergence" -> "NftablesFailure"

(***************************************************************************)
(* "triggered" comes before the test of is_locked_down(), "entering"       *)
(* before the flag is stored, "flagged" before the reason is.              *)
(***************************************************************************)
TaskStage == {"idle", "triggered", "entering", "flagged"}
AckStage == {"none", "verified", "timed"}

LockdownTypeOK ==
  /\ lockdown \in BOOLEAN
  /\ reason \in Reason \union {"None"}
  /\ age \in 0 .. Timeout + 1
  /\ task \in [Task -> TaskStage]
  /\ ack \in [AckTasks -> AckStage]
  /\ pgUp \in BOOLEAN

LockdownInit ==
  /\ lockdown = FALSE
  /\ reason = "None"
  /\ age = 0
  /\ task = [t \in Task |-> "idle"]
  /\ ack = [a \in AckTasks |-> "none"]
  /\ pgUp = TRUE

-----------------------------------------------------------------------------
\* Faulty variants of operators below: the reason stored before the flag, the
\* tasks ending with their first lockdown, a clear that forgets the flag
\* or ignores the reason.
ReasonBeforeFlag(t) ==
  \/ /\ task[t] = "entering"
     /\ reason' = ReasonOf(t)
     /\ task' = [task EXCEPT ![t] = "flagged"]
     /\ UNCHANGED <<lockdown, age, ack, pgUp>>
  \/ /\ task[t] = "flagged"
     /\ lockdown' = TRUE
     /\ task' = [task EXCEPT ![t] = "idle"]
     /\ UNCHANGED <<reason, age, ack, pgUp>>

LockdownEndsTask(t) ==
  \/ /\ task[t] = "entering"
     /\ lockdown' = TRUE
     /\ task' = [task EXCEPT ![t] = "flagged"]
     /\ UNCHANGED <<reason, age, ack, pgUp>>
  \/ /\ task[t] = "flagged"
     /\ reason' = ReasonOf(t)
     /\ task' = [task EXCEPT ![t] = "returned"]
     /\ UNCHANGED <<lockdown, age, ack, pgUp>>

ForgetFlag == reason \in {"None", "Heartbeat"} /\ reason' = "None" /\ UNCHANGED lockdown

IgnoreReason == lockdown' = FALSE /\ reason' = "None"

-----------------------------------------------------------------------------
(***************************************************************************)
(* The tasks.                                                              *)
(***************************************************************************)
Move(t, stage) == task' = [task EXCEPT ![t] = stage]

\* Heartbeat watchdog: elapsed > HEARTBEAT_TIMEOUT_SECS.
HeartbeatLost ==
  /\ task["heartbeat"] = "idle"
  /\ age > Timeout
  /\ Move("heartbeat", "triggered")
  /\ UNCHANGED <<lockdown, reason, age, ack, pgUp>>

\* PostgreSQL watchdog: SELECT 1 returned an error.
PgQueryFails ==
  /\ task["pg"] = "idle"
  /\ ~pgUp
  /\ Move("pg", "triggered")
  /\ UNCHANGED <<lockdown, reason, age, ack, pgUp>>

\* Both watchdogs go on only if the agent is not locked down already.
TestFlag(t) ==
  /\ t \in {"heartbeat", "pg"}
  /\ task[t] = "triggered"
  /\ Move(t, IF lockdown THEN "idle" ELSE "entering")
  /\ UNCHANGED <<lockdown, reason, age, ack, pgUp>>

\* A conflicting package could not be removed, or the ruleset not restored:
\* these tasks call set_lockdown without a test.
Fail(t) ==
  /\ t \in {"conflict", "divergence"}
  /\ task[t] = "idle"
  /\ Move(t, "entering")
  /\ UNCHANGED <<lockdown, reason, age, ack, pgUp>>

\* set_lockdown(reason): the flag, then the reason under its mutex; the task
\* waits for its next tick.
SetLockdown(t) ==
  \/ /\ task[t] = "entering"
     /\ lockdown' = TRUE
     /\ Move(t, "flagged")
     /\ UNCHANGED <<reason, age, ack, pgUp>>
  \/ /\ task[t] = "flagged"
     /\ reason' = ReasonOf(t)
     /\ Move(t, "idle")
     /\ UNCHANGED <<lockdown, age, ack, pgUp>>

-----------------------------------------------------------------------------
(***************************************************************************)
(* The acknowledgements.                                                   *)
(***************************************************************************)

\* verify_command accepted an acknowledgement; it needs the nonce table.
AckVerified(a) ==
  /\ ack[a] = "none"
  /\ pgUp
  /\ ack' = [ack EXCEPT ![a] = "verified"]
  /\ UNCHANGED <<lockdown, reason, age, task, pgUp>>

\* *last_heartbeat = Instant::now()
AckResetsTimer(a) ==
  /\ ack[a] = "verified"
  /\ age' = 0
  /\ ack' = [ack EXCEPT ![a] = "timed"]
  /\ UNCHANGED <<lockdown, reason, task, pgUp>>

ClearIfHeartbeat ==
  IF reason \in {"None", "Heartbeat"}
    THEN lockdown' = FALSE /\ reason' = "None"
    ELSE UNCHANGED <<lockdown, reason>>

\* clear_lockdown_if_heartbeat()
AckClears(a) ==
  /\ ack[a] = "timed"
  /\ ClearIfHeartbeat
  /\ ack' = [ack EXCEPT ![a] = "none"]
  /\ UNCHANGED <<age, task, pgUp>>

-----------------------------------------------------------------------------
(***************************************************************************)
(* The environment: time, PostgreSQL, restarts.                            *)
(***************************************************************************)
LaterAge == IF age > Timeout THEN age ELSE age + 1

TimePasses ==
  /\ age' = LaterAge
  /\ UNCHANGED <<lockdown, reason, task, ack, pgUp>>

PgFlips ==
  /\ pgUp' = ~pgUp
  /\ UNCHANGED <<lockdown, reason, age, task, ack>>

AgentRestarts ==
  /\ pgUp
  /\ lockdown' = FALSE
  /\ reason' = "None"
  /\ age' = 0
  /\ task' = [t \in Task |-> "idle"]
  /\ ack' = [a \in AckTasks |-> "none"]
  /\ UNCHANGED pgUp

TaskStep(t) == TestFlag(t) \/ Fail(t) \/ SetLockdown(t)

AckStep(a) == AckResetsTimer(a) \/ AckClears(a)

LockdownNext ==
  \/ HeartbeatLost
  \/ PgQueryFails
  \/ \E t \in Task : TaskStep(t)
  \/ \E a \in AckTasks : AckVerified(a) \/ AckStep(a)
  \/ TimePasses
  \/ PgFlips
  \/ AgentRestarts

(***************************************************************************)
(* Time passes, both watchdogs keep ticking (loop over interval(30 s)) and *)
(* code that has started runs on.  Nothing obliges the dashboard to send   *)
(* acknowledgements, PostgreSQL to answer, or anything to fail.            *)
(***************************************************************************)
Fairness ==
  /\ WF_lockdownVars(TimePasses)
  /\ WF_lockdownVars(HeartbeatLost)
  /\ WF_lockdownVars(PgQueryFails)
  /\ \A t \in Task : WF_lockdownVars(TestFlag(t)) /\ WF_lockdownVars(SetLockdown(t))
  /\ \A a \in AckTasks : WF_lockdownVars(AckStep(a))

LockdownSpec == LockdownInit /\ [][LockdownNext]_lockdownVars /\ Fairness

-----------------------------------------------------------------------------
(***************************************************************************)
(* The agent is never locked down without a recorded reason, except while  *)
(* a task is about to record one: an acknowledgement that finds no reason  *)
(* never strips a lockdown whose set_lockdown has returned.                *)
(***************************************************************************)
LockdownHasReason ==
  lockdown => reason # "None" \/ \E t \in Task : task[t] = "flagged"

(***************************************************************************)
(* Where a sticky lockdown is safe: the flag is up, the reason is sticky   *)
(* and the heartbeat watchdog is not past its test of the flag.  Only a    *)
(* restart leaves this region; no acknowledgement does, and no order of    *)
(* the other tasks.                                                        *)
(***************************************************************************)
SafelyLocked ==
  /\ lockdown
  /\ reason \in Sticky
  /\ task["heartbeat"] \in {"idle", "triggered"}

StickyStays == [][SafelyLocked => SafelyLocked' \/ AgentRestarts]_lockdownVars

(***************************************************************************)
(* A dashboard that falls silent for good is noticed: unless the agent is  *)
(* restarted for ever, it ends up locked down and stays so, however often  *)
(* it locked and unlocked before and whichever tasks were interrupted.     *)
(***************************************************************************)
Silent == \A a \in AckTasks : ack[a] = "none"

SilenceLocks ==
  <>[]Silent /\ <>[][~AgentRestarts]_lockdownVars => <>[]lockdown

(***************************************************************************)
(* While acknowledgements come in time the agent ends up unlocked for      *)
(* good, or locked for a sticky reason: a watchdog that acted on a reading *)
(* of the timer from before an acknowledgement locks it once more, not     *)
(* again and again, and what that lockdown leaves behind does not last.    *)
(***************************************************************************)
Acknowledged == \E a \in AckTasks : AckClears(a)

TimelyAcks ==
  <>[](age <= Timeout) /\ []<><<Acknowledged>>_lockdownVars

StaysUnlocked ==
  TimelyAcks /\ <>[][~AgentRestarts]_lockdownVars => <>[](~lockdown \/ reason \in Sticky)
=============================================================================
