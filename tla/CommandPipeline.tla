--------------------------- MODULE CommandPipeline ---------------------------
(***************************************************************************)
(* The way of a command from its channel to its audit row:                 *)
(* execute_command and run_verified_command of handlers/system.rs, the     *)
(* rate limiter of state.rs and the session loop and handle_message of     *)
(* ws_client.rs (all in internal/), over the audit log they share.         *)
(*                                                                         *)
(* A request passes the lockdown gate, then the rate limiter, is verified, *)
(* runs its handler, appends an audit row and is answered.  Other requests *)
(* and the lockdown run between any two of these.  The handler of an HTTP  *)
(* client that goes away is dropped, at any await; the WebSocket session   *)
(* handles a message to its end before it looks at the stream again.       *)
(*                                                                         *)
(* Abstractions: verify_command is one step here (CommandAuth takes it     *)
(* apart); what a handler does is its result, and one that is cut short    *)
(* has none; the bearer token and JSON errors come before any state and    *)
(* are left out; the reconnection delay and the session's own heartbeats   *)
(* and metrics are left out.                                               *)
(***************************************************************************)
EXTENDS AuditLog, Sequences

CONSTANTS
  Ws,           \* the WebSocket session, one of the Writers
  Commands,     \* the signed commands in existence
  Acks,         \* those whose inner type reads agent.heartbeat_ack
  Genuine,      \* those whose signature and addressee are right
  Limit,        \* commands per window: 100
  Window,       \* its length: 60 s
  MaxTime,      \* bound on the time
  MaxLockdowns  \* bound on the lockdowns

ASSUME PipelineAssumption ==
  /\ Ws \in Writers
  /\ Acks \subseteq Commands
  /\ Genuine \subseteq Commands
  /\ Limit \in Nat \ {0}
  /\ Window \in Nat \ {0}
  /\ MaxTime \in Nat /\ MaxTime >= Window
  /\ MaxLockdowns \in Nat

VARIABLES
  now,          \* SystemTime::now(), in the unit of Window
  cmdRate,      \* AppState.cmd_rate: start of the window and count
  lockdown,     \* AppState.lockdown
  linkUp,       \* a WebSocket session is established
  request,      \* where each request is, what it carries and came to
  consumed,     \* commands whose nonce is in used_nonces
  lockdowns,    \* history: how often a lockdown began
  admitted,     \* history: when the limiter let commands through, in order
  effects,      \* history: commands whose handler returned, with its result
  logged,       \* history: those with an audit row
  told,         \* history: commands whose callers were told of no failure
  excused       \* history: those told of one, or not there to be told

limiterVars == <<now, cmdRate, admitted>>
gateVars == <<lockdown, lockdowns, linkUp>>
historyVars == <<effects, logged, told, excused>>
vars ==
  <<logVars, limiterVars, gateVars, request, consumed, historyVars>>

Time == 0 .. MaxTime
Result == {"ok", "error"}
Outcome == [cmd : Commands, result : Result]

(***************************************************************************)
(* A request is "rated" once the limiter let it through and "limited" when *)
(* it did not, then "refused" or "verified", and "done" when its handler   *)
(* returned.  gate is the number of lockdowns begun when it passed the     *)
(* gate.                                                                   *)
(***************************************************************************)
Request ==
  [at : {"idle", "limited", "refused"}]
    \union [at : {"rated", "verified"}, cmd : Commands, gate : 0 .. MaxLockdowns]
    \union [at : {"done"}, cmd : Commands, result : Result]

None == [at |-> "idle"]

TypeOK ==
  /\ LogTypeOK
  /\ now \in Time
  /\ cmdRate \in [start : Time, count : 0 .. Limit]
  /\ lockdown \in BOOLEAN
  /\ linkUp \in BOOLEAN
  /\ request \in [Writers -> Request]
  /\ consumed \subseteq Genuine
  /\ lockdowns \in 0 .. MaxLockdowns
  /\ admitted \in Seq(Time)
  /\ effects \subseteq Outcome
  /\ logged \subseteq Outcome
  /\ told \subseteq Commands
  /\ excused \subseteq Commands

\* cmd_rate starts at (0, 0): the first command finds an expired window.
Init ==
  /\ LogInit
  /\ now = Window
  /\ cmdRate = [start |-> 0, count |-> 0]
  /\ lockdown = FALSE
  /\ linkUp = FALSE
  /\ request = [w \in Writers |-> None]
  /\ consumed = {}
  /\ lockdowns = 0
  /\ admitted = <<>>
  /\ effects = {}
  /\ logged = {}
  /\ told = {}
  /\ excused = {}

-----------------------------------------------------------------------------
At(w, place) == request[w].at = place

Become(w, r) == request' = [request EXCEPT ![w] = r]

OutcomeOf(w) == [cmd |-> request[w].cmd, result |-> request[w].result]

\* Where audit::append is called.
Appending(w) == request[w].at \in {"limited", "refused", "done"}

-----------------------------------------------------------------------------
\* Faulty variants of operators below: a session without a gate, a limit off
\* by one, a count that outlives its window, an audit row written as best
\* effort, a session that ends in the middle of a message.
UngatedSession(w, c) == lockdown => w = Ws

LimitInclusive == now >= cmdRate.start + Window \/ cmdRate.count <= Limit

CountAcrossWindows ==
  cmdRate' = IF now >= cmdRate.start + Window
               THEN [start |-> now, count |-> cmdRate.count + 1]
               ELSE [cmdRate EXCEPT !.count = @ + 1]

BestEffortRow(w) ==
  /\ Appending(w)
  /\ FailAppend(w) \/ (stage[w] = "idle" /\ UNCHANGED logVars)
  /\ IF At(w, "done") /\ request[w].result = "ok"
       THEN told' = told \union {request[w].cmd} ELSE UNCHANGED told
  /\ Become(w, [at |-> "idle"])
  /\ UNCHANGED <<limiterVars, gateVars, consumed, effects, logged, excused>>

SessionCutShort ==
  /\ linkUp' = ~linkUp
  /\ Become(Ws, [at |-> "idle"])
  /\ UNCHANGED <<logVars, limiterVars, lockdown, lockdowns, consumed, historyVars>>

-----------------------------------------------------------------------------
(***************************************************************************)
(* The lockdown gate.  /cmd refuses everything under lockdown, the session *)
(* lets through what looks like an acknowledgement.  Nothing tests the     *)
(* flag again.                                                             *)
(***************************************************************************)
PassesGate(w, c) == lockdown => w = Ws /\ c \in Acks

WindowOver == now >= cmdRate.start + Window

\* check_cmd_rate() returns true.
WithinRate == WindowOver \/ cmdRate.count < Limit

CountCommand ==
  cmdRate' = IF WindowOver THEN [start |-> now, count |-> 1]
                           ELSE [cmdRate EXCEPT !.count = @ + 1]

\* A command comes in: gate and limiter, with no await between them.
Receive(w, c) ==
  /\ At(w, "idle")
  /\ w = Ws => linkUp
  /\ PassesGate(w, c)
  /\ \/ /\ WithinRate
        /\ CountCommand
        /\ admitted' = Append(admitted, now)
        /\ Become(w, [at |-> "rated", cmd |-> c, gate |-> lockdowns])
     \/ /\ ~WithinRate
        /\ Become(w, [at |-> "limited"])
        /\ UNCHANGED <<cmdRate, admitted>>
  /\ UNCHANGED <<logVars, now, gateVars, consumed, historyVars>>

\* verify_command: at most one request gets a command past its nonce.
Verify(w) ==
  /\ At(w, "rated")
  /\ request[w].cmd \in Genuine \ consumed
  /\ consumed' = consumed \union {request[w].cmd}
  /\ Become(w, [request[w] EXCEPT !.at = "verified"])
  /\ UNCHANGED <<logVars, limiterVars, gateVars, historyVars>>

\* It fails: a bad signature, a stale timestamp, a used nonce, the database,
\* which may have committed the nonce all the same.
VerifyFails(w) ==
  /\ At(w, "rated")
  /\ consumed' \in {consumed, consumed \union ({request[w].cmd} \intersect Genuine)}
  /\ Become(w, [at |-> "refused"])
  /\ UNCHANGED <<logVars, limiterVars, gateVars, historyVars>>

-----------------------------------------------------------------------------
\* An acknowledgement clears the lockdown if its reason allows.
Clear == lockdown' \in {FALSE, lockdown} /\ UNCHANGED <<lockdowns, linkUp>>

\* command_dispatch returns; the error decides what the row will say.
Dispatch(w) ==
  /\ At(w, "verified")
  /\ \E r \in Result :
       /\ IF request[w].cmd \in Acks THEN r = "ok" /\ Clear ELSE UNCHANGED gateVars
       /\ Become(w, [at |-> "done", cmd |-> request[w].cmd, result |-> r])
       /\ effects' = effects \union {[cmd |-> request[w].cmd, result |-> r]}
  /\ UNCHANGED <<logVars, limiterVars, consumed, logged, told, excused>>

\* POST /heartbeat: verified, then the type is checked; no limit and no row.
Heartbeat(c) ==
  /\ c \in Genuine \ consumed
  /\ consumed' = consumed \union {c}
  /\ IF c \in Acks THEN Clear ELSE UNCHANGED gateVars
  /\ UNCHANGED <<logVars, limiterVars, request, historyVars>>

-----------------------------------------------------------------------------
Done(S) == {w \in S : At(w, "done")}

CommandsOf(S) == {request[w].cmd : w \in S}

AppendStarts(w) ==
  /\ Appending(w)
  /\ ReadLast(w) \/ StartInsert(w)
  /\ UNCHANGED <<limiterVars, gateVars, request, consumed, historyVars>>

Log(S) == logged' = logged \union {OutcomeOf(w) : w \in S}

Excuse(S) == excused' = excused \union CommandsOf(S)

(***************************************************************************)
(* The INSERT succeeds and the caller gets its answer.  The one of a       *)
(* command over the limit cannot: 'rejected_rate_limit' is not a value the *)
(* table's CHECK allows.                                                   *)
(***************************************************************************)
AppendSucceeds(w) ==
  /\ Appending(w) /\ ~At(w, "limited")
  /\ CommitInsert(w)
  /\ Log(Done({w}))
  /\ IF At(w, "done") /\ request[w].result = "error"
       THEN Excuse({w}) /\ UNCHANGED told
       ELSE told' = told \union CommandsOf(Done({w})) /\ UNCHANGED excused
  /\ Become(w, None)
  /\ UNCHANGED <<limiterVars, gateVars, consumed, effects>>

\* append(..).await? turns what the handler returned into an error; for a
\* refused command the error is ignored.
AppendFails(w) ==
  /\ Appending(w)
  /\ FailAppend(w) \/ (stage[w] = "idle" /\ UNCHANGED logVars)
  /\ Excuse(Done({w}))
  /\ Become(w, None)
  /\ UNCHANGED <<limiterVars, gateVars, consumed, effects, logged, told>>

\* The HTTP client goes away and the handler is dropped at an await.  An
\* INSERT that was sent may be committed.
Cancel(w) ==
  /\ w # Ws
  /\ ~At(w, "idle")
  /\ \/ FailAppend(w) /\ UNCHANGED logged
     \/ stage[w] = "idle" /\ UNCHANGED <<logVars, logged>>
     \/ /\ ~At(w, "limited")
        /\ CommitInsert(w)
        /\ Log(Done({w}))
  /\ Excuse(Done({w}))
  /\ Become(w, None)
  /\ UNCHANGED <<limiterVars, gateVars, consumed, effects, told>>

-----------------------------------------------------------------------------
(***************************************************************************)
(* The environment.  The session ends only between two messages.           *)
(***************************************************************************)
LinkChanges ==
  /\ At(Ws, "idle")
  /\ linkUp' = ~linkUp
  /\ UNCHANGED <<logVars, limiterVars, lockdown, lockdowns, request, consumed, historyVars>>

\* set_lockdown, whichever task calls it.
EnterLockdown ==
  /\ lockdowns < MaxLockdowns
  /\ lockdown' = TRUE
  /\ lockdowns' = lockdowns + 1
  /\ UNCHANGED <<logVars, limiterVars, linkUp, request, consumed, historyVars>>

Tick ==
  /\ now < MaxTime
  /\ now' = now + 1
  /\ UNCHANGED <<logVars, cmdRate, admitted, gateVars, request, consumed, historyVars>>

\* The process restarts; PostgreSQL finishes or rolls back what it had begun.
Restart ==
  /\ LogRestart
  /\ Log({w \in Done(Writers) : draft[w] \in rows'})
  /\ Excuse(Done(Writers))
  /\ cmdRate' = [start |-> 0, count |-> 0]
  /\ admitted' = <<>>
  /\ lockdown' = FALSE
  /\ linkUp' = FALSE
  /\ request' = [w \in Writers |-> None]
  /\ UNCHANGED <<now, lockdowns, consumed, effects, told>>

RequestStep(w) ==
  \/ \E c \in Commands : Receive(w, c)
  \/ Verify(w) \/ VerifyFails(w)
  \/ Dispatch(w)
  \/ AppendStarts(w) \/ AppendSucceeds(w) \/ AppendFails(w)
  \/ Cancel(w)

Next ==
  \/ \E w \in Writers : RequestStep(w)
  \/ \E c \in Commands : Heartbeat(c)
  \/ LinkChanges
  \/ EnterLockdown
  \/ Tick
  \/ Restart

Spec == Init /\ [][Next]_vars

-----------------------------------------------------------------------------
(***************************************************************************)
(* A caller that is not told of a failure can rely on the audit log: its   *)
(* command ran, and a row says with which result, whatever was appended,   *)
(* cancelled or restarted meanwhile.                                       *)
(***************************************************************************)
AnswerTellsRow ==
  \A c \in told : \E e \in effects \intersect logged : e = [cmd |-> c, result |-> "ok"]

(***************************************************************************)
(* No effect is lost from sight: a handler that returned has its row, or   *)
(* is about to get it, or its caller was told of a failure, or the HTTP    *)
(* client left, or the process was restarted.  A command of the WebSocket  *)
(* session is never dropped because its session ends.                      *)
(***************************************************************************)
EffectsAccountedFor ==
  \A e \in effects :
    \/ e \in logged
    \/ \E w \in Writers : At(w, "done") /\ OutcomeOf(w) = e
    \/ e.cmd \in excused

(***************************************************************************)
(* What the lockdown gate achieves, although the flag is not tested again  *)
(* before the handler runs: a command that runs under lockdown and is not  *)
(* a genuine acknowledgement passed the gate before that lockdown began.   *)
(***************************************************************************)
LockdownHolds ==
  [][\A w \in Writers :
       At(w, "verified") /\ At(w, "done")' /\ lockdown
         => \/ request[w].cmd \in Acks \intersect Genuine
            \/ request[w].gate < lockdowns]_vars

(***************************************************************************)
(* What the fixed window achieves: however the commands are spread, twice  *)
(* the limit of them take a window's length or more, since fewer meet two  *)
(* windows at most and miss the command that opened the first.             *)
(***************************************************************************)
LessThanTwiceLimit ==
  \A i, j \in DOMAIN admitted :
    j - i >= 2 * Limit - 1 => admitted[j] >= admitted[i] + Window
=============================================================================
