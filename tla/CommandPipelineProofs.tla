------------------------ MODULE CommandPipelineProofs ------------------------
(***************************************************************************)
(* Types, AnswerTellsRow, EffectsAccountedFor, LockdownHolds and           *)
(* LessThanTwiceLimit for any number of requests, commands, lockdowns and  *)
(* restarts, any limit and any window; and that what the pipeline does to  *)
(* the audit log is what AuditLog says, so that the theorems about the log *)
(* hold of the pipeline's.                                                 *)
(*                                                                         *)
(* AnswerTellsRow needs that what a request is about to log is an effect   *)
(* (DoneInv).  LockdownHolds needs that a request on its way to its        *)
(* handler, while a lockdown is on, passed the gate before it or reads     *)
(* like an acknowledgement (GateInv).  LessThanTwiceLimit needs to know    *)
(* where in the history of the limiter its window and the one before it    *)
(* began (RateInv).                                                        *)
(***************************************************************************)
EXTENDS CommandPipeline, TLAPS

DoneInv == \A w \in Writers : At(w, "done") => OutcomeOf(w) \in effects

Entitled(w) ==
  At(w, "rated") \/ At(w, "verified") =>
    /\ request[w].gate <= lockdowns
    /\ lockdown => request[w].gate < lockdowns \/ request[w].cmd \in Acks
    /\ At(w, "verified") => request[w].cmd \in Genuine

GateInv == \A w \in Writers : Entitled(w)

Inv ==
  TypeOK /\ DoneInv /\ GateInv /\ AnswerTellsRow /\ EffectsAccountedFor

-----------------------------------------------------------------------------
\* What the pipeline does to the log.
LEMMA LogOfStep == [Next]_vars => [LogNext]_logVars
<1> SUFFICES ASSUME [Next]_vars PROVE [LogNext]_logVars
  OBVIOUS
<1>1. ASSUME NEW w \in Writers, RequestStep(w) PROVE [LogNext]_logVars
  <2>1. CASE \E c \in Commands : Receive(w, c)
    BY <2>1 DEF Receive
  <2>2. CASE Verify(w) \/ VerifyFails(w) \/ Dispatch(w)
    BY <2>2 DEF Verify, VerifyFails, Dispatch
  <2>3. CASE AppendStarts(w) \/ AppendSucceeds(w) \/ AppendFails(w) \/ Cancel(w)
    BY <2>3 DEF AppendStarts, AppendSucceeds, AppendFails, Cancel, AppendStep, LogNext
  <2> QED
    BY <1>1, <2>1, <2>2, <2>3 DEF RequestStep
<1>2. ASSUME NEW c \in Commands, Heartbeat(c) PROVE UNCHANGED logVars
  BY <1>2 DEF Heartbeat
<1>3. CASE LinkChanges \/ EnterLockdown \/ Tick
  BY <1>3 DEF LinkChanges, EnterLockdown, Tick
<1>4. CASE Restart
  BY <1>4 DEF Restart, LogNext
<1>5. CASE UNCHANGED vars
  BY <1>5 DEF vars
<1> QED
  BY <1>1, <1>2, <1>3, <1>4, <1>5 DEF Next

LEMMA LogTypes == LogTypeOK /\ [LogNext]_logVars => LogTypeOK'
<1> SUFFICES ASSUME LogTypeOK, [LogNext]_logVars PROVE LogTypeOK'
  OBVIOUS
<1>0. Blank \in Row
  BY StampAssumption DEF Blank, Row, Stamp
<1>1. ASSUME NEW w \in Writers, ReadLast(w) PROVE LogTypeOK'
  <2>1. PICK l \in Stamp : draft' = [draft EXCEPT ![w].prev = l]
    BY <1>1 DEF ReadLast
  <2> QED
    BY <1>1, <2>1 DEF ReadLast, LogTypeOK, Row
<1>2. ASSUME NEW w \in Writers, StartInsert(w) PROVE LogTypeOK'
  <2> clock' \in Stamp
    BY <1>2, StampAssumption DEF StartInsert, LogTypeOK, Stamp
  <2> QED
    BY <1>2 DEF StartInsert, LogTypeOK, Row
<1>3. ASSUME NEW w \in Writers, CommitInsert(w) \/ FailAppend(w) PROVE LogTypeOK'
  BY <1>0, <1>3 DEF CommitInsert, FailAppend, Leave, LogTypeOK
<1>4. CASE LogRestart
  BY <1>0, <1>4 DEF LogRestart, LogTypeOK
<1>5. CASE UNCHANGED logVars
  BY <1>5 DEF logVars, LogTypeOK
<1> QED
  BY <1>1, <1>2, <1>3, <1>4, <1>5 DEF LogNext, AppendStep

-----------------------------------------------------------------------------
\* What a place says of the request that is there.
LEMMA RequestAt ==
  ASSUME NEW r \in Request
  PROVE  /\ r.at \in {"rated", "verified"} =>
              r \in [at : {"rated", "verified"}, cmd : Commands, gate : 0 .. MaxLockdowns]
         /\ r.at = "done" => r \in [at : {"done"}, cmd : Commands, result : Result]
  BY DEF Request

LEMMA NewRequest ==
  /\ None \in Request /\ None.at = "idle"
  /\ \A r \in [at : {"limited", "refused"}] : r \in Request
  /\ \A r \in [at : {"rated", "verified"}, cmd : Commands, gate : 0 .. MaxLockdowns] :
       r \in Request
  /\ \A r \in [at : {"done"}, cmd : Commands, result : Result] : r \in Request
  BY DEF None, Request

LEMMA BecomeTypes ==
  ASSUME TypeOK, NEW w \in Writers, NEW r \in Request, Become(w, r)
  PROVE  /\ request' \in [Writers -> Request]
         /\ request'[w] = r
         /\ \A v \in Writers \ {w} : request'[v] = request[v]
  BY DEF TypeOK, Become

\* A request goes on without having had an effect, to a place where it is not
\* done: only its own gate is to be shown.
LEMMA Quiet ==
  ASSUME Inv, NEW w \in Writers, ~At(w, "done"), ~At(w, "done")',
         \A v \in Writers \ {w} : request'[v] = request[v],
         UNCHANGED <<historyVars, lockdown, lockdowns>>, Entitled(w)'
  PROVE  DoneInv' /\ GateInv' /\ AnswerTellsRow' /\ EffectsAccountedFor'
<1>1. DoneInv'
  BY DEF Inv, DoneInv, At, OutcomeOf, historyVars
<1>2. GateInv'
  BY DEF Inv, GateInv, Entitled, At
<1>3. AnswerTellsRow'
  BY DEF Inv, AnswerTellsRow, historyVars
<1>4. EffectsAccountedFor'
  BY DEF Inv, EffectsAccountedFor, At, OutcomeOf, historyVars
<1> QED
  BY <1>1, <1>2, <1>3, <1>4

LEMMA ReceiveInv ==
  ASSUME Inv, LogTypeOK', NEW w \in Writers, NEW c \in Commands, Receive(w, c)
  PROVE  Inv'
<1> DEFINE r == [at |-> "rated", cmd |-> c, gate |-> lockdowns]
           l == [at |-> "limited"]
<1>1. r \in Request /\ l \in Request
  BY NewRequest DEF Inv, TypeOK
<1>2. r.at = "rated" /\ r.cmd = c /\ r.gate = lockdowns /\ l.at = "limited"
  OBVIOUS
<1>3. Become(w, r) \/ Become(w, l)
  BY DEF Receive
<1> HIDE DEF r, l
<1>4. /\ request' \in [Writers -> Request]
      /\ request'[w] \in {r, l}
      /\ \A v \in Writers \ {w} : request'[v] = request[v]
  BY <1>1, <1>3, BecomeTypes DEF Inv
<1>5. TypeOK'
  <2>1. now \in Time /\ cmdRate.count \in Nat /\ Limit \in Nat \ {0}
    BY PipelineAssumption DEF Inv, TypeOK
  <2>2. cmdRate' \in [start : Time, count : 0 .. Limit]
    <3>1. CASE UNCHANGED cmdRate
      BY <3>1 DEF Inv, TypeOK
    <3>2. CASE CountCommand /\ WithinRate
      BY <2>1, <3>2 DEF CountCommand, WithinRate, Inv, TypeOK
    <3> QED
      BY <3>1, <3>2 DEF Receive
  <2>3. admitted' \in Seq(Time)
    <3>1. admitted \in Seq(Time)
      BY DEF Inv, TypeOK
    <3>2. admitted' = admitted \/ admitted' = Append(admitted, now)
      BY DEF Receive
    <3> QED
      BY <2>1, <3>1, <3>2
  <2> QED
    BY <1>4, <2>2, <2>3 DEF Receive, Inv, TypeOK, gateVars, historyVars
<1>6. Entitled(w)'
  <2>1. lockdowns \in Nat
    BY DEF Inv, TypeOK
  <2> QED
    BY <1>2, <1>4, <2>1 DEF Receive, PassesGate, Entitled, At, gateVars
<1>7. ~At(w, "done") /\ ~At(w, "done")'
  BY <1>2, <1>4 DEF Receive, At
<1> QED
  BY <1>4, <1>5, <1>6, <1>7, Quiet DEF Receive, Inv, gateVars

LEMMA VerifyInv ==
  ASSUME Inv, LogTypeOK', NEW w \in Writers, Verify(w) \/ VerifyFails(w)
  PROVE  Inv'
<1> DEFINE v == [request[w] EXCEPT !.at = "verified"]
           f == [at |-> "refused"]
<1>1. request[w] \in [at : {"rated", "verified"}, cmd : Commands, gate : 0 .. MaxLockdowns]
  BY RequestAt DEF Verify, VerifyFails, At, Inv, TypeOK
<1>2. v \in Request /\ f \in Request
  BY <1>1, NewRequest
<1>3. /\ v.at = "verified" /\ v.cmd = request[w].cmd /\ v.gate = request[w].gate
      /\ f.at = "refused"
  BY <1>1
<1>4. (Become(w, v) /\ Verify(w)) \/ Become(w, f)
  BY DEF Verify, VerifyFails
<1> HIDE DEF v, f
<1>5. /\ request' \in [Writers -> Request]
      /\ (request'[w] = v /\ Verify(w)) \/ request'[w] = f
      /\ \A u \in Writers \ {w} : request'[u] = request[u]
  BY <1>2, <1>4, BecomeTypes DEF Inv
<1>6. TypeOK'
  <2> consumed' \subseteq Genuine
    BY DEF Verify, VerifyFails, Inv, TypeOK
  <2> QED
    BY <1>5 DEF Verify, VerifyFails, Inv, TypeOK, limiterVars, gateVars, historyVars
<1>7. Entitled(w)'
  BY <1>3, <1>5 DEF Verify, VerifyFails, Inv, GateInv, Entitled, At, gateVars
<1>8. ~At(w, "done") /\ ~At(w, "done")'
  BY <1>3, <1>5 DEF Verify, VerifyFails, At
<1> QED
  BY <1>5, <1>6, <1>7, <1>8, Quiet DEF Verify, VerifyFails, Inv, gateVars

LEMMA DispatchInv ==
  ASSUME Inv, LogTypeOK', NEW w \in Writers, Dispatch(w)
  PROVE  Inv'
<1>1. request[w] \in [at : {"rated", "verified"}, cmd : Commands, gate : 0 .. MaxLockdowns]
  BY RequestAt DEF Dispatch, At, Inv, TypeOK
<1>2. PICK x \in Result :
        /\ Become(w, [at |-> "done", cmd |-> request[w].cmd, result |-> x])
        /\ effects' = effects \union {[cmd |-> request[w].cmd, result |-> x]}
        /\ Clear \/ UNCHANGED gateVars
  BY DEF Dispatch
<1> DEFINE r == [at |-> "done", cmd |-> request[w].cmd, result |-> x]
           e == [cmd |-> request[w].cmd, result |-> x]
<1>3. r \in Request /\ r.at = "done" /\ e \in Outcome /\ e = [cmd |-> r.cmd, result |-> r.result]
  BY <1>1, NewRequest DEF Outcome
<1>4. Become(w, r) /\ effects' = effects \union {e}
  BY <1>2
<1> HIDE DEF r, e
<1>5. /\ request' \in [Writers -> Request]
      /\ request'[w] = r
      /\ \A v \in Writers \ {w} : request'[v] = request[v]
  BY <1>3, <1>4, BecomeTypes DEF Inv
<1>6. lockdown' \in {FALSE, lockdown} /\ UNCHANGED <<lockdowns, linkUp>>
  BY <1>2 DEF Clear, gateVars
<1>7. TypeOK'
  BY <1>3, <1>4, <1>5, <1>6 DEF Dispatch, Inv, TypeOK, limiterVars
<1>8. DoneInv'
  BY <1>3, <1>4, <1>5 DEF Inv, DoneInv, At, OutcomeOf
<1>9. GateInv'
  BY <1>3, <1>5, <1>6 DEF Inv, GateInv, Entitled, At
<1>10. AnswerTellsRow'
  BY <1>4 DEF Dispatch, Inv, AnswerTellsRow
<1>11. EffectsAccountedFor'
  <2>1. At(w, "done")' /\ OutcomeOf(w)' = e /\ ~At(w, "done")
    BY <1>3, <1>5 DEF Dispatch, At, OutcomeOf
  <2> QED
    BY <1>4, <1>5, <2>1 DEF Dispatch, Inv, EffectsAccountedFor, At, OutcomeOf
<1> QED
  BY <1>7, <1>8, <1>9, <1>10, <1>11 DEF Inv

\* Requests end: what they did is in the log or their callers are excused.
LEMMA Ending ==
  ASSUME Inv, NEW S \in SUBSET Writers,
         \A v \in Writers : request'[v] = IF v \in S THEN None ELSE request[v],
         effects' = effects, logged \subseteq logged', excused \subseteq excused',
         \A v \in S : At(v, "done") => OutcomeOf(v) \in logged' \/ request[v].cmd \in excused',
         \A c \in told' : c \in told \/ [cmd |-> c, result |-> "ok"] \in effects \intersect logged',
         UNCHANGED lockdowns, lockdown' \in {FALSE, lockdown}
  PROVE  DoneInv' /\ GateInv' /\ AnswerTellsRow' /\ EffectsAccountedFor'
<1>0. None.at = "idle"
  BY NewRequest
<1>1. DoneInv'
  BY <1>0 DEF Inv, DoneInv, At, OutcomeOf
<1>2. GateInv'
  BY <1>0 DEF Inv, GateInv, Entitled, At
<1>3. AnswerTellsRow'
  <2> SUFFICES ASSUME NEW c \in told'
               PROVE  [cmd |-> c, result |-> "ok"] \in effects' \intersect logged'
    BY DEF AnswerTellsRow
  <2> QED
    BY DEF Inv, AnswerTellsRow
<1>4. EffectsAccountedFor'
  <2> SUFFICES ASSUME NEW e \in effects, e \notin logged', e.cmd \notin excused'
               PROVE  \E w \in Writers : At(w, "done")' /\ OutcomeOf(w)' = e
    BY DEF EffectsAccountedFor
  <2>1. PICK w \in Writers : At(w, "done") /\ OutcomeOf(w) = e
    BY DEF Inv, EffectsAccountedFor
  <2>2. w \notin S
    BY <2>1 DEF OutcomeOf
  <2> QED
    BY <2>1, <2>2 DEF At, OutcomeOf
<1> QED
  BY <1>1, <1>2, <1>3, <1>4

\* The histories of what requests did, and of what they came to.
LEMMA OutcomeTypes ==
  ASSUME TypeOK, NEW w \in Writers, At(w, "done")
  PROVE  /\ OutcomeOf(w) \in Outcome /\ request[w].cmd \in Commands
         /\ OutcomeOf(w) = [cmd |-> request[w].cmd, result |-> request[w].result]
         /\ request[w].result \in {"ok", "error"}
  BY RequestAt DEF TypeOK, At, OutcomeOf, Outcome, Result

LEMMA HistoryTypes ==
  ASSUME TypeOK, NEW S \in SUBSET Writers
  PROVE  /\ {OutcomeOf(w) : w \in Done(S)} \subseteq Outcome
         /\ CommandsOf(Done(S)) \subseteq Commands
         /\ \A w \in S : At(w, "done") =>
              /\ OutcomeOf(w) \in {OutcomeOf(v) : v \in Done(S)}
              /\ request[w].cmd \in CommandsOf(Done(S))
  BY OutcomeTypes DEF Done, CommandsOf

LEMMA AppendInv ==
  ASSUME Inv, LogTypeOK', NEW w \in Writers,
         AppendSucceeds(w) \/ AppendFails(w) \/ Cancel(w)
  PROVE  Inv'
<1>1. Become(w, None)
  BY DEF AppendSucceeds, AppendFails, Cancel
<1>2. /\ request' \in [Writers -> Request]
      /\ \A v \in Writers : request'[v] = IF v \in {w} THEN None ELSE request[v]
  BY <1>1, NewRequest, BecomeTypes DEF Inv
<1>3. UNCHANGED <<limiterVars, gateVars, consumed, effects>>
  BY DEF AppendSucceeds, AppendFails, Cancel
<1>4. /\ {OutcomeOf(v) : v \in Done({w})} \subseteq Outcome
      /\ CommandsOf(Done({w})) \subseteq Commands
      /\ At(w, "done") =>
           /\ OutcomeOf(w) \in {OutcomeOf(v) : v \in Done({w})}
           /\ request[w].cmd \in CommandsOf(Done({w}))
  BY HistoryTypes DEF Inv
<1>5. CASE AppendSucceeds(w)
  <2>1. Log(Done({w}))
    BY <1>5 DEF AppendSucceeds
  <2>2. CASE At(w, "done") /\ request[w].result = "error"
    <3>1. Excuse({w}) /\ UNCHANGED told
      BY <1>5, <2>2 DEF AppendSucceeds
    <3>2. request[w].cmd \in Commands /\ CommandsOf({w}) = {request[w].cmd}
      BY <2>2, OutcomeTypes DEF Inv, CommandsOf
    <3>3. TypeOK'
      BY <1>2, <1>3, <1>4, <2>1, <3>1, <3>2
      DEF Log, Excuse, Inv, TypeOK, limiterVars, gateVars
    <3>4. DoneInv' /\ GateInv' /\ AnswerTellsRow' /\ EffectsAccountedFor'
      <4>1. logged \subseteq logged' /\ excused \subseteq excused'
            /\ (At(w, "done") => OutcomeOf(w) \in logged')
        BY <1>4, <2>1, <3>1 DEF Log, Excuse
      <4>2. \A c \in told' : c \in told
        BY <3>1
      <4> QED
        BY <1>2, <1>3, <4>1, <4>2, Ending DEF gateVars
    <3> QED
      BY <3>3, <3>4 DEF Inv
  <2>3. CASE ~(At(w, "done") /\ request[w].result = "error")
    <3>1. told' = told \union CommandsOf(Done({w})) /\ UNCHANGED excused
      BY <1>5, <2>3 DEF AppendSucceeds
    <3>2. TypeOK'
      BY <1>2, <1>3, <1>4, <2>1, <3>1 DEF Log, Inv, TypeOK, limiterVars, gateVars
    <3>3. logged \subseteq logged' /\ (At(w, "done") => OutcomeOf(w) \in logged')
      BY <1>4, <2>1 DEF Log
    <3>4. ASSUME NEW c \in told', c \notin told
          PROVE  [cmd |-> c, result |-> "ok"] \in effects \intersect logged'
      <4>1. At(w, "done") /\ c = request[w].cmd
        BY <3>1, <3>4 DEF CommandsOf, Done
      <4>2. OutcomeOf(w) = [cmd |-> c, result |-> "ok"]
        BY <2>3, <4>1, OutcomeTypes DEF Inv
      <4> QED
        BY <3>3, <4>1, <4>2 DEF Inv, DoneInv
    <3>5. DoneInv' /\ GateInv' /\ AnswerTellsRow' /\ EffectsAccountedFor'
      BY <1>2, <1>3, <3>1, <3>3, <3>4, Ending DEF gateVars
    <3> QED
      BY <3>2, <3>5 DEF Inv
  <2> QED
    BY <2>2, <2>3
<1>6. CASE AppendFails(w) \/ Cancel(w)
  <2>1. /\ Excuse(Done({w})) /\ told' = told
        /\ logged' = logged \/ Log(Done({w}))
    BY <1>6 DEF AppendFails, Cancel
  <2>2. TypeOK'
    BY <1>2, <1>3, <1>4, <2>1 DEF Log, Excuse, Inv, TypeOK, limiterVars, gateVars
  <2>3. /\ logged \subseteq logged' /\ excused \subseteq excused'
        /\ At(w, "done") => request[w].cmd \in excused'
    BY <1>4, <2>1 DEF Log, Excuse
  <2>4. DoneInv' /\ GateInv' /\ AnswerTellsRow' /\ EffectsAccountedFor'
    BY <1>2, <1>3, <2>1, <2>3, Ending DEF gateVars
  <2> QED
    BY <2>2, <2>4 DEF Inv
<1> QED
  BY <1>5, <1>6

LEMMA RestartInv ==
  ASSUME Inv, LogTypeOK', Restart
  PROVE  Inv'
<1> DEFINE S == {w \in Done(Writers) : draft[w] \in rows'}
<1>1. /\ request' \in [Writers -> Request]
      /\ \A v \in Writers : request'[v] = IF v \in Writers THEN None ELSE request[v]
  BY NewRequest DEF Restart
<1>2. /\ logged' = logged \union {OutcomeOf(w) : w \in S}
      /\ excused' = excused \union CommandsOf(Done(Writers))
      /\ UNCHANGED <<lockdowns, now, consumed, effects, told>>
      /\ lockdown' = FALSE /\ linkUp' = FALSE
  BY DEF Restart, Log, Excuse
<1>3. /\ {OutcomeOf(w) : w \in S} \subseteq Outcome
      /\ CommandsOf(Done(Writers)) \subseteq Commands
      /\ \A w \in Writers : At(w, "done") => request[w].cmd \in CommandsOf(Done(Writers))
  BY HistoryTypes DEF Inv
<1>4. TypeOK'
  <2> /\ cmdRate' \in [start : Time, count : 0 .. Limit]
      /\ admitted' \in Seq(Time)
    BY PipelineAssumption DEF Restart, Time
  <2> QED
    BY <1>1, <1>2, <1>3 DEF Inv, TypeOK
<1>5. DoneInv' /\ GateInv' /\ AnswerTellsRow' /\ EffectsAccountedFor'
  BY <1>1, <1>2, <1>3, Ending
<1> QED
  BY <1>4, <1>5 DEF Inv

LEMMA EnvironmentInv ==
  ASSUME Inv, LogTypeOK',
         \/ \E c \in Commands : Heartbeat(c)
         \/ LinkChanges \/ EnterLockdown \/ Tick
         \/ \E w \in Writers : AppendStarts(w)
         \/ UNCHANGED vars
  PROVE  Inv'
<1>0. lockdowns \in Nat
  BY DEF Inv, TypeOK
<1>1. UNCHANGED <<request, historyVars>>
  BY DEF Heartbeat, LinkChanges, EnterLockdown, Tick, AppendStarts, vars
<1>2. \/ EnterLockdown
      \/ lockdown' \in {FALSE, lockdown} /\ lockdowns' = lockdowns /\ linkUp' \in BOOLEAN
  BY DEF Inv, TypeOK, Heartbeat, LinkChanges, Tick, AppendStarts, vars, Clear, gateVars
<1>3. lockdown' \in BOOLEAN /\ lockdowns' \in 0 .. MaxLockdowns /\ linkUp' \in BOOLEAN
  <2>1. CASE EnterLockdown
    BY <1>0, <2>1, PipelineAssumption DEF EnterLockdown, Inv, TypeOK
  <2> QED
    BY <1>2, <2>1 DEF Inv, TypeOK
<1>4. /\ now' \in Time /\ UNCHANGED <<cmdRate, admitted>>
      /\ consumed' \subseteq Genuine
  BY PipelineAssumption
  DEF Inv, TypeOK, Time, Heartbeat, LinkChanges, EnterLockdown, Tick, AppendStarts, vars,
      limiterVars
<1>5. TypeOK'
  BY <1>1, <1>3, <1>4 DEF Inv, TypeOK, historyVars
<1>6. GateInv'
  <2> SUFFICES ASSUME NEW w \in Writers, At(w, "rated") \/ At(w, "verified")
               PROVE  Entitled(w)'
    BY <1>1 DEF GateInv, Entitled, At
  <2>1. request[w].gate \in Nat /\ Entitled(w)
    BY RequestAt DEF Inv, TypeOK, GateInv, At
  <2>2. CASE EnterLockdown
    <3> lockdowns' = lockdowns + 1
      BY <2>2 DEF EnterLockdown
    <3> QED
      BY <1>0, <1>1, <2>1 DEF Entitled, At
  <2>3. CASE lockdown' \in {FALSE, lockdown} /\ lockdowns' = lockdowns
    BY <1>1, <2>1, <2>3 DEF Entitled, At
  <2> QED
    BY <1>2, <2>2, <2>3
<1>7. DoneInv' /\ AnswerTellsRow' /\ EffectsAccountedFor'
  BY <1>1 DEF Inv, DoneInv, AnswerTellsRow, EffectsAccountedFor, At, OutcomeOf, historyVars
<1> QED
  BY <1>5, <1>6, <1>7 DEF Inv

LEMMA NextInv == Inv /\ [Next]_vars => Inv'
<1> SUFFICES ASSUME Inv, [Next]_vars PROVE Inv'
  OBVIOUS
<1>1. LogTypeOK'
  BY LogOfStep, LogTypes DEF Inv, TypeOK
<1>2. ASSUME NEW w \in Writers, RequestStep(w) PROVE Inv'
  BY <1>1, <1>2, ReceiveInv, VerifyInv, DispatchInv, AppendInv, EnvironmentInv
  DEF RequestStep
<1> QED
  BY <1>1, <1>2, RestartInv, EnvironmentInv DEF Next

LEMMA InitInv == Init => Inv
<1> SUFFICES ASSUME Init PROVE Inv
  OBVIOUS
<1>1. LogTypeOK
  BY StampAssumption DEF Init, LogInit, LogTypeOK, Stamp, Row, Blank
<1>2. now \in Time /\ 0 \in Time /\ 0 \in 0 .. Limit /\ 0 \in 0 .. MaxLockdowns
  BY PipelineAssumption DEF Init, Time
<1>3. TypeOK
  <2>1. cmdRate \in [start : Time, count : 0 .. Limit] /\ admitted \in Seq(Time)
    BY <1>2 DEF Init
  <2> QED
    BY <1>1, <1>2, <2>1, NewRequest DEF Init, TypeOK
<1>4. \A w \in Writers : request[w].at = "idle"
  BY NewRequest DEF Init
<1> QED
  BY <1>3, <1>4 DEF Init, Inv, DoneInv, GateInv, Entitled, At, AnswerTellsRow, EffectsAccountedFor

LEMMA Invariance == Spec => []Inv
  BY InitInv, NextInv, PTL DEF Spec

(***************************************************************************)
(* Log, limiter, gate, requests and histories have their types.            *)
(***************************************************************************)
THEOREM TypeCorrect == Spec => []TypeOK
<1>1. Inv => TypeOK
  BY DEF Inv
<1> QED
  BY <1>1, Invariance, PTL

(***************************************************************************)
(* The pipeline's cancelled, failed and restarted appends (system.rs)      *)
(* leave the log as AuditLog specifies, so that its theorems apply.        *)
(***************************************************************************)
THEOREM LogImplemented == Spec => LogSpec
<1>1. Init => LogInit
  BY DEF Init
<1> QED
  BY <1>1, LogOfStep, PTL DEF Spec, LogSpec

(***************************************************************************)
(* A caller that is told of no failure (run_verified_command of system.rs) *)
(* finds its command's success in the log.                                 *)
(***************************************************************************)
THEOREM ToldIsLogged == Spec => []AnswerTellsRow
<1>1. Inv => AnswerTellsRow
  BY DEF Inv
<1> QED
  BY <1>1, Invariance, PTL

(***************************************************************************)
(* Every handler that returned is in the log, about to be, or its caller   *)
(* was told of a failure or had left.                                      *)
(***************************************************************************)
THEOREM NoEffectLost == Spec => []EffectsAccountedFor
<1>1. Inv => EffectsAccountedFor
  BY DEF Inv
<1> QED
  BY <1>1, Invariance, PTL

(***************************************************************************)
(* What runs under a lockdown passed the gate of execute_command before    *)
(* that lockdown began, or is a genuine acknowledgement.                   *)
(***************************************************************************)
THEOREM GateHolds == Spec => LockdownHolds
<1>1. Inv =>
        \A w \in Writers :
          At(w, "verified") /\ At(w, "done")' /\ lockdown
            => \/ request[w].cmd \in Acks \intersect Genuine
               \/ request[w].gate < lockdowns
  BY DEF Inv, GateInv, Entitled
<1> QED
  BY <1>1, Invariance, PTL DEF LockdownHolds

-----------------------------------------------------------------------------
\* The limiter.
WindowStart == Len(admitted) - cmdRate.count + 1

\* The count is that of the last commands let through, the first of which
\* opened the window; a window before it was opened at least its length
\* earlier, by one of the Limit commands before that.
RateInv ==
  /\ now >= Window
  /\ cmdRate.count <= Len(admitted)
  /\ cmdRate.count = 0 => Len(admitted) = 0 /\ cmdRate.start = 0
  /\ cmdRate.count > 0 => admitted[WindowStart] = cmdRate.start
  /\ Len(admitted) > cmdRate.count =>
       \E q \in 1 .. Len(admitted) :
         /\ WindowStart - Limit <= q /\ q < WindowStart
         /\ admitted[q] + Window <= cmdRate.start
  /\ \A i, j \in 1 .. Len(admitted) : i <= j => admitted[i] <= admitted[j]
  /\ \A i \in 1 .. Len(admitted) : admitted[i] <= now

LEMMA RateTypes ==
  ASSUME TypeOK
  PROVE  /\ now \in Nat /\ cmdRate.start \in Nat /\ cmdRate.count \in 0 .. Limit
         /\ cmdRate = [start |-> cmdRate.start, count |-> cmdRate.count]
         /\ admitted \in Seq(Nat) /\ Len(admitted) \in Nat
         /\ DOMAIN admitted = 1 .. Len(admitted)
         /\ \A i \in 1 .. Len(admitted) : admitted[i] \in Nat
         /\ Limit \in Nat \ {0} /\ Window \in Nat \ {0}
  BY PipelineAssumption DEF TypeOK, Time

\* What a command let through does to the limiter and its history.
LEMMA AdmitSteps ==
  ASSUME TypeOK, NEW w \in Writers, NEW c \in Commands, Receive(w, c),
         ~UNCHANGED <<cmdRate, admitted>>
  PROVE  /\ now' = now
         /\ Len(admitted') = Len(admitted) + 1
         /\ admitted'[Len(admitted) + 1] = now
         /\ \A i \in 1 .. Len(admitted) : admitted'[i] = admitted[i]
         /\ \/ /\ WindowOver
               /\ cmdRate'.start = now /\ cmdRate'.count = 1
            \/ /\ ~WindowOver /\ cmdRate.count < Limit
               /\ cmdRate'.start = cmdRate.start /\ cmdRate'.count = cmdRate.count + 1
<1>1. WithinRate /\ CountCommand /\ admitted' = Append(admitted, now) /\ now' = now
  BY DEF Receive
<1>2. \/ WindowOver /\ cmdRate'.start = now /\ cmdRate'.count = 1
      \/ /\ ~WindowOver
         /\ cmdRate'.start = cmdRate.start /\ cmdRate'.count = cmdRate.count + 1
  <2>1. cmdRate \in [start : Time, count : 0 .. Limit]
    BY DEF TypeOK
  <2> QED
    BY <1>1, <2>1 DEF CountCommand
<1>3. WindowOver \/ cmdRate.count < Limit
  BY <1>1 DEF WithinRate
<1>4. /\ Len(admitted') = Len(admitted) + 1
      /\ admitted'[Len(admitted) + 1] = now
      /\ \A i \in 1 .. Len(admitted) : admitted'[i] = admitted[i]
  <2>1. admitted \in Seq(Nat) /\ now \in Nat
    BY RateTypes
  <2> QED
    BY <1>1, <2>1
<1> QED
  BY <1>1, <1>2, <1>3, <1>4

LEMMA AdmitKeepsRate ==
  ASSUME TypeOK, TypeOK', RateInv, NEW w \in Writers, NEW c \in Commands, Receive(w, c),
         ~UNCHANGED <<cmdRate, admitted>>
  PROVE  RateInv'
<1> DEFINE n == Len(admitted)
           p == WindowStart
<1>1. /\ now' = now /\ Len(admitted') = n + 1 /\ admitted'[n + 1] = now
      /\ \A i \in 1 .. n : admitted'[i] = admitted[i]
  BY AdmitSteps
<1>2. /\ n \in Nat /\ now \in Nat /\ cmdRate.start \in Nat /\ cmdRate.count \in 0 .. Limit
      /\ Limit \in Nat \ {0} /\ Window \in Nat \ {0}
      /\ \A i \in 1 .. n : admitted[i] \in Nat
  BY RateTypes
<1>3. /\ \A i, j \in 1 .. n : i <= j => admitted[i] <= admitted[j]
      /\ \A i \in 1 .. n : admitted[i] <= now
      /\ now >= Window /\ cmdRate.count <= n
      /\ cmdRate.count = 0 => n = 0 /\ cmdRate.start = 0
      /\ cmdRate.count > 0 => admitted[p] = cmdRate.start
  BY DEF RateInv
<1>4. p = n - cmdRate.count + 1
  BY DEF WindowStart
<1>5. /\ \A i, j \in 1 .. n + 1 : i <= j => admitted'[i] <= admitted'[j]
      /\ \A i \in 1 .. n + 1 : admitted'[i] <= now
  <2>1. \A i \in 1 .. n + 1 : i \in 1 .. n \/ i = n + 1
    BY <1>2
  <2>2. \A i \in 1 .. n + 1 : admitted'[i] <= now
    BY <1>1, <1>2, <1>3, <2>1
  <2>3. \A i, j \in 1 .. n + 1 : i <= j => j = n + 1 \/ (i \in 1 .. n /\ j \in 1 .. n)
    BY <1>2
  <2> QED
    BY <1>1, <1>2, <1>3, <2>2, <2>3
<1>6. CASE WindowOver
  <2>1. cmdRate'.start = now /\ cmdRate'.count = 1 /\ cmdRate.start + Window <= now
    BY <1>2, <1>6, AdmitSteps DEF WindowOver
  <2>2. WindowStart' = n + 1
    BY <1>1, <1>2, <2>1 DEF WindowStart
  <2>3. ASSUME n + 1 > 1
        PROVE  \E q \in 1 .. n + 1 :
                 /\ (n + 1) - Limit <= q /\ q < n + 1
                 /\ admitted'[q] + Window <= now
    <3>1. cmdRate.count \in 1 .. n /\ p \in 1 .. n /\ (n + 1) - Limit <= p
      BY <1>2, <1>3, <1>4, <2>3
    <3>2. admitted'[p] = cmdRate.start
      BY <1>1, <1>3, <3>1
    <3>3. p \in 1 .. n + 1 /\ p < n + 1
      <4>1. n \in Nat /\ p \in 1 .. n
        BY <1>2, <3>1
      <4> HIDE DEF n, p
      <4> QED
        BY <4>1
    <3>4. admitted'[p] + Window <= now
      BY <2>1, <3>2
    <3> QED
      BY <3>1, <3>3, <3>4
  <2> QED
    BY <1>1, <1>2, <1>3, <1>5, <2>1, <2>2, <2>3 DEF RateInv
<1>7. CASE ~WindowOver
  <2>1. /\ cmdRate'.start = cmdRate.start /\ cmdRate'.count = cmdRate.count + 1
        /\ ~(now >= cmdRate.start + Window)
    BY <1>7, AdmitSteps DEF WindowOver
  <2>2. cmdRate.count > 0
    BY <1>2, <1>3, <2>1
  <2>3. WindowStart' = p /\ p \in 1 .. n
    <3>1. WindowStart' = (n + 1) - (cmdRate.count + 1) + 1
      BY <1>1, <2>1 DEF WindowStart
    <3>2. (n + 1) - (cmdRate.count + 1) + 1 = n - cmdRate.count + 1
      BY <1>2
    <3>3. n - cmdRate.count + 1 \in 1 .. n
      BY <1>2, <1>3, <2>2
    <3> QED
      BY <1>4, <3>1, <3>2, <3>3
  <2>4. admitted'[p] = cmdRate.start
    BY <1>1, <1>3, <2>2, <2>3
  <2>5. ASSUME n + 1 > cmdRate.count + 1
        PROVE  \E q \in 1 .. n + 1 :
                 /\ p - Limit <= q /\ q < p
                 /\ admitted'[q] + Window <= cmdRate.start
    <3>1. n > cmdRate.count
      BY <1>2, <2>5
    <3>2. PICK q \in 1 .. n :
            p - Limit <= q /\ q < p /\ admitted[q] + Window <= cmdRate.start
      BY <3>1 DEF RateInv
    <3>3. q \in 1 .. n + 1 /\ admitted'[q] = admitted[q]
      BY <1>1, <1>2
    <3> QED
      BY <3>2, <3>3
  <2> QED
    BY <1>1, <1>2, <1>3, <1>5, <2>1, <2>2, <2>3, <2>4, <2>5 DEF RateInv
<1> QED
  BY <1>6, <1>7

\* Counting back from the n-th: k of the window that is open, and fewer than
\* the limit before it.
LEMMA CountBack ==
  ASSUME NEW n \in Nat, NEW k \in Nat, NEW l \in Nat, NEW i \in Nat, NEW q \in Nat,
         k < l, (n + 1) - i >= 2 * l - 1, (n - k + 1) - l <= q
  PROVE  i <= q
  OBVIOUS

\* The command let through and the one 2 * Limit - 1 before it are a window's
\* length apart: that one is no later than the one that opened this window,
\* if it is over, or else the one before.
LEMMA AdmitKeepsSpacing ==
  ASSUME TypeOK, RateInv, LessThanTwiceLimit, NEW w \in Writers, NEW c \in Commands,
         Receive(w, c), ~UNCHANGED <<cmdRate, admitted>>, TypeOK'
  PROVE  LessThanTwiceLimit'
<1> DEFINE n == Len(admitted)
           p == WindowStart
<1>1. /\ Len(admitted') = n + 1 /\ admitted'[n + 1] = now
      /\ \A i \in 1 .. n : admitted'[i] = admitted[i]
  BY AdmitSteps
<1>2. /\ n \in Nat /\ now \in Nat /\ cmdRate.start \in Nat /\ cmdRate.count \in 0 .. Limit
      /\ Limit \in Nat \ {0} /\ Window \in Nat \ {0}
      /\ \A i \in 1 .. n : admitted[i] \in Nat
      /\ DOMAIN admitted = 1 .. n
  BY RateTypes
<1>3. DOMAIN admitted' = 1 .. n + 1
  BY <1>1, RateTypes
<1>4. /\ \A i, j \in 1 .. n : i <= j => admitted[i] <= admitted[j]
      /\ \A i \in 1 .. n : admitted[i] <= now
      /\ cmdRate.count <= n
      /\ cmdRate.count = 0 => n = 0
      /\ cmdRate.count > 0 => admitted[p] = cmdRate.start
      /\ p = n - cmdRate.count + 1
  BY DEF RateInv, WindowStart
<1>5. ASSUME NEW i \in 1 .. n, (n + 1) - i >= 2 * Limit - 1
      PROVE  admitted[i] + Window <= now
  <2>0. cmdRate.count > 0 /\ p \in 1 .. n /\ admitted[p] = cmdRate.start
    <3>1. /\ n \in Nat /\ cmdRate.count \in Nat /\ i \in 1 .. n
          /\ cmdRate.count <= n /\ p = n - cmdRate.count + 1
          /\ cmdRate.count = 0 => n = 0
      BY <1>2, <1>4
    <3>2. cmdRate.count > 0 /\ p \in 1 .. n
      <4> HIDE DEF n, p
      <4> QED
        BY <3>1
    <3> QED
      BY <1>4, <3>2
  <2>1. CASE WindowOver
    <3>1. i <= p
      <4>1. /\ n \in Nat /\ cmdRate.count \in Nat /\ Limit \in Nat \ {0} /\ i \in Nat
            /\ cmdRate.count <= Limit /\ p = n - cmdRate.count + 1
        BY <1>2, <1>4
      <4> HIDE DEF n, p
      <4> QED
        BY <1>5, <4>1
    <3>2. admitted[i] <= cmdRate.start
      BY <1>4, <2>0, <3>1
    <3> QED
      BY <1>2, <2>1, <3>2 DEF WindowOver
  <2>2. CASE ~WindowOver
    <3>1. cmdRate.count < Limit
      BY <2>2, AdmitSteps
    <3>2. n > cmdRate.count
      BY <1>2, <1>5, <3>1
    <3>3. PICK q \in 1 .. n :
            p - Limit <= q /\ q < p /\ admitted[q] + Window <= cmdRate.start
      BY <3>2 DEF RateInv
    <3>4. i <= q
      <4>1. (n - cmdRate.count + 1) - Limit <= q
        BY <3>3 DEF WindowStart
      <4>2. n \in Nat /\ cmdRate.count \in Nat /\ Limit \in Nat /\ i \in Nat /\ q \in Nat
        BY <1>2
      <4> HIDE DEF n, p
      <4> QED
        BY <1>5, <3>1, <4>1, <4>2, CountBack
    <3>5. admitted[i] <= admitted[q] /\ cmdRate.start <= now
      BY <1>4, <2>0, <3>4
    <3> QED
      BY <1>2, <3>3, <3>5
  <2> QED
    BY <2>1, <2>2
<1>6. SUFFICES ASSUME NEW i \in 1 .. n + 1, NEW j \in 1 .. n + 1, j - i >= 2 * Limit - 1
               PROVE  admitted'[j] >= admitted'[i] + Window
  BY <1>3 DEF LessThanTwiceLimit
<1>7. i \in 1 .. n
  BY <1>2, <1>6
<1>8. CASE j = n + 1
  BY <1>1, <1>2, <1>5, <1>6, <1>7, <1>8
<1>9. CASE j \in 1 .. n
  BY <1>1, <1>2, <1>6, <1>7, <1>9 DEF LessThanTwiceLimit
<1> QED
  BY <1>2, <1>8, <1>9

LEMMA RateStep ==
  TypeOK /\ TypeOK' /\ RateInv /\ LessThanTwiceLimit /\ [Next]_vars
    => RateInv' /\ LessThanTwiceLimit'
<1> SUFFICES ASSUME TypeOK, TypeOK', RateInv, LessThanTwiceLimit, [Next]_vars
             PROVE  RateInv' /\ LessThanTwiceLimit'
  OBVIOUS
<1>0. now \in Nat /\ \A i \in 1 .. Len(admitted) : admitted[i] \in Nat
  BY RateTypes
<1>1. ASSUME UNCHANGED <<cmdRate, admitted>>, now' = now \/ now' = now + 1
      PROVE  RateInv' /\ LessThanTwiceLimit'
  <2>1. now <= now'
    BY <1>0, <1>1
  <2>2. now' >= Window /\ \A i \in 1 .. Len(admitted) : admitted[i] <= now'
    BY <1>0, <1>1, <2>1, RateTypes DEF RateInv
  <2> QED
    BY <1>1, <2>2 DEF RateInv, WindowStart, LessThanTwiceLimit
<1>2. ASSUME NEW w \in Writers, NEW c \in Commands, Receive(w, c)
      PROVE  RateInv' /\ LessThanTwiceLimit'
  <2>1. now' = now
    BY <1>2 DEF Receive
  <2> QED
    BY <1>1, <1>2, <2>1, AdmitKeepsRate, AdmitKeepsSpacing
<1>3. CASE Restart
  <2>1. admitted' = <<>> /\ cmdRate'.start = 0 /\ cmdRate'.count = 0 /\ now' = now
    BY <1>3 DEF Restart
  <2>2. Len(admitted') = 0 /\ DOMAIN admitted' = {}
    BY <2>1
  <2>3. now' >= Window
    BY <2>1 DEF RateInv
  <2> QED
    BY <2>1, <2>2, <2>3 DEF RateInv, LessThanTwiceLimit
<1>4. CASE Tick
  BY <1>1, <1>4 DEF Tick
<1>5. ASSUME NEW w \in Writers,
             \/ Verify(w) \/ VerifyFails(w) \/ Dispatch(w) \/ AppendStarts(w)
             \/ AppendSucceeds(w) \/ AppendFails(w) \/ Cancel(w)
      PROVE  UNCHANGED limiterVars
  BY <1>5 DEF Verify, VerifyFails, Dispatch, AppendStarts, AppendSucceeds, AppendFails, Cancel
<1>6. ASSUME NEW c \in Commands, Heartbeat(c) PROVE UNCHANGED limiterVars
  BY <1>6 DEF Heartbeat
<1>7. CASE LinkChanges \/ EnterLockdown \/ UNCHANGED vars
  BY <1>1, <1>7 DEF LinkChanges, EnterLockdown, vars, limiterVars
<1>8. ASSUME UNCHANGED limiterVars PROVE RateInv' /\ LessThanTwiceLimit'
  BY <1>1, <1>8 DEF limiterVars
<1> QED
  BY <1>2, <1>3, <1>4, <1>5, <1>6, <1>7, <1>8 DEF Next, RequestStep

(***************************************************************************)
(* check_cmd_rate (state.rs) lets twice the limit through only in a        *)
(* window's length or more, for any limit and any window.                  *)
(***************************************************************************)
THEOREM RateHolds == Spec => []LessThanTwiceLimit
<1>1. Init => RateInv /\ LessThanTwiceLimit
  <2> SUFFICES ASSUME Init PROVE RateInv /\ LessThanTwiceLimit
    OBVIOUS
  <2>1. Len(admitted) = 0 /\ DOMAIN admitted = {} /\ now = Window /\ Window \in Nat
    BY PipelineAssumption DEF Init
  <2>2. cmdRate.count = 0 /\ cmdRate.start = 0
    BY DEF Init
  <2> QED
    BY <2>1, <2>2 DEF RateInv, LessThanTwiceLimit
<1> QED
  BY <1>1, RateStep, TypeCorrect, PTL DEF Spec
=============================================================================
