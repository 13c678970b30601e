--------------------------- MODULE NftablesProofs ---------------------------
(***************************************************************************)
(* What the firewall keeps, for any number of commands in progress, any    *)
(* chains and bodies, whatever nft, outsiders and restarts do: a refused   *)
(* body is never installed, expected or saved, and the emergency ruleset   *)
(* comes with a lockdown.                                                  *)
(*                                                                         *)
(* The argument.  A text that is past its load was taken by nft, and a     *)
(* checksum is that of a table nft took (ProcessInv).  While the emergency *)
(* ruleset is in the kernel without a lockdown the agent has restarted, so *)
(* what is expected, or about to be recorded, can only be that ruleset     *)
(* (UnlockedInv); no text to load is (ProcessInv, LastInv).                *)
(***************************************************************************)
EXTENDS Nftables, TLAPS

Processes == Handlers \union {Monitor}

ProcessInv ==
  \A p \in Processes :
    /\ proc[p].text.base \in {"open", "none"}
    /\ proc[p].stage \in {"listing", "recording", "saving"} => Takes(proc[p].text)
    /\ proc[p].stage = "recording" => Takes(proc[p].sum)

LastInv == \A r \in last : r.base \in {"open", "none"}

Unlocked == ~lockdown /\ proc[Monitor].stage # "locking"

UnlockedInv ==
  table = Emergency /\ Unlocked =>
    /\ expected \in {{}, {Emergency}}
    /\ \A p \in Processes : proc[p].stage = "recording" => proc[p].sum = Emergency

Inv == TypeOK /\ Installable /\ ProcessInv /\ LastInv /\ UnlockedInv

-----------------------------------------------------------------------------
\* The tables and process states the definitions name.
LEMMA Texts ==
  /\ \A base \in Base : Bare(base) \in Ruleset /\ Takes(Bare(base)) /\ Bare(base).base = base
  /\ Blank \in Ruleset /\ Takes(Blank) /\ Blank.base = "none"
  /\ Emergency \in Ruleset /\ Takes(Emergency) /\ Emergency.base = "emergency"
  BY BodiesAssumption DEF Bare, Ruleset, Base, Takes, Blank, Emergency

LEMMA States ==
  /\ Idle \in Process /\ Idle.stage = "idle" /\ Idle.text.base = "none"
  /\ \A s \in [Chains -> Bodies] :
       /\ Starting(s) \in Process
       /\ Starting(s).stage = "loading"
       /\ Starting(s).text.base = "open"
  BY Texts DEF Idle, Starting, Process, Op, Stage, Ruleset, Base

\* A step that gives process p the state q keeps what is said of processes.
LEMMA ProcessStep ==
  ASSUME Inv,
         NEW p \in Processes, NEW q \in Process,
         proc' = [proc EXCEPT ![p] = q],
         q.text.base \in {"open", "none"},
         q.stage \in {"listing", "recording", "saving"} => Takes(q.text),
         q.stage = "recording" => Takes(q.sum)
  PROVE  ProcessInv' /\ proc' \in [Processes -> Process]
  BY DEF Inv, TypeOK, ProcessInv, Processes, Takes

\* A step that leaves everything but one process alone, and does not take
\* it to "recording" or the monitor out of "locking", keeps the rest too.
LEMMA QuietStep ==
  ASSUME Inv,
         NEW p \in Processes, NEW q \in Process,
         proc' = [proc EXCEPT ![p] = q],
         q.text.base \in {"open", "none"},
         q.stage \in {"listing", "saving"} => Takes(q.text),
         q.stage # "recording",
         proc[p].stage # "locking",
         UNCHANGED <<table, expected, last, lockdown>>,
         bodies' \in [Chains -> Bodies],
         stored' \in [Chains -> Bodies]
  PROVE  Inv'
<1>1. ProcessInv' /\ proc' \in [Processes -> Process]
  <2> q.stage = "recording" => Takes(q.sum)
    OBVIOUS
  <2> QED
    BY ProcessStep
<1>2. TypeOK'
  BY <1>1 DEF Inv, TypeOK, Processes
<1>3. Installable' /\ LastInv'
  BY DEF Inv, Installable, LastInv, Takes
<1>4. UnlockedInv'
  <2> SUFFICES ASSUME table' = Emergency, ~lockdown', proc'[Monitor].stage # "locking"
               PROVE  /\ expected' \in {{}, {Emergency}}
                      /\ \A r \in Processes :
                           proc'[r].stage = "recording" => proc'[r].sum = Emergency
    BY DEF UnlockedInv, Unlocked, Emergency, Bare
  <2>1. proc[Monitor].stage # "locking"
    BY DEF Inv, TypeOK, Processes
  <2> QED
    BY <2>1 DEF Inv, TypeOK, UnlockedInv, Unlocked, Processes
<1> QED
  BY <1>1, <1>2, <1>3, <1>4 DEF Inv

-----------------------------------------------------------------------------
\* Moving on and returning, as the operators of the model write it.
LEMMA MovedInv ==
  ASSUME Inv, NEW p \in Processes, NEW stage \in Stage, Moved(p, stage),
         stage \in {"listing", "saving"} => Takes(proc[p].text),
         stage # "recording", proc[p].stage # "locking",
         UNCHANGED <<table, bodies, stored, expected, last, lockdown>>
  PROVE  Inv'
<1> DEFINE q == [proc[p] EXCEPT !.stage = stage]
<1>1. proc[p] \in Process /\ proc[p].text.base \in {"open", "none"}
  BY DEF Inv, TypeOK, ProcessInv, Processes
<1>2. q \in Process /\ q.text = proc[p].text /\ q.stage = stage
  BY <1>1 DEF Process
<1>3. proc' = [proc EXCEPT ![p] = q]
  BY DEF Moved
<1>4. bodies' \in [Chains -> Bodies] /\ stored' \in [Chains -> Bodies]
  BY DEF Inv, TypeOK
<1> HIDE DEF q
<1> QED
  BY <1>1, <1>2, <1>3, <1>4, QuietStep

LEMMA DoneInv ==
  ASSUME Inv, NEW p \in Processes, Done(p), proc[p].stage # "locking",
         UNCHANGED <<table, bodies, expected, last, lockdown>>,
         stored' \in [Chains -> Bodies]
  PROVE  Inv'
<1>1. proc' = [proc EXCEPT ![p] = Idle]
  BY DEF Done
<1>2. bodies' \in [Chains -> Bodies]
  BY DEF Inv, TypeOK
<1> QED
  BY <1>1, <1>2, States, QuietStep

-----------------------------------------------------------------------------
\* The state an apply starts in, with the change it makes.
LEMMA Applying ==
  ASSUME NEW change \in SUBSET (Chains \X Bodies)
  PROVE  LET q == [Idle EXCEPT !.op = "apply", !.stage = "rendering", !.change = change]
         IN  q \in Process /\ q.stage = "rendering" /\ q.text.base = "none"
  BY States, Texts DEF Idle, Process, Op, Stage

\* The commands.
LEMMA CommandInv ==
  ASSUME Inv, NEW h \in Handlers, Command(h)
  PROVE  Inv'
<1> h \in Processes
  BY DEF Processes
<1>1. proc[h].stage # "locking" /\ proc[h] \in Process
      /\ bodies \in [Chains -> Bodies] /\ stored \in [Chains -> Bodies]
  BY DEF Inv, TypeOK, Command, Ready, ApplyChain, ApplyFull, Restore, Accept, Close, Processes
<1>2. Idle.text = Blank /\ Takes(Idle.text)
  BY Texts DEF Idle
<1>3. ASSUME NEW c \in Chains, NEW b \in Bodies, ApplyChain(h, c, b)
      PROVE  Inv'
  <2> DEFINE q == [Idle EXCEPT !.op = "apply", !.stage = "rendering", !.change = {<<c, b>>}]
  <2> {<<c, b>>} \in SUBSET (Chains \X Bodies)
    OBVIOUS
  <2>1. q \in Process /\ q.stage = "rendering" /\ q.text.base = "none"
    BY Applying
  <2>2. proc' = [proc EXCEPT ![h] = q] /\ bodies' \in [Chains -> Bodies]
    BY <1>1, <1>3 DEF ApplyChain
  <2> HIDE DEF q
  <2> QED
    BY <1>1, <1>3, <2>1, <2>2, QuietStep DEF ApplyChain
<1>4. CASE ApplyFull(h)
  <2> DEFINE q == [Idle EXCEPT !.op = "apply", !.stage = "rendering"]
  <2>1. q \in Process /\ q.stage = "rendering" /\ q.text.base = "none"
    BY States, Texts DEF Idle, Process, Op, Stage
  <2>2. proc' = [proc EXCEPT ![h] = q]
    BY <1>4 DEF ApplyFull
  <2> HIDE DEF q
  <2> QED
    BY <1>1, <1>4, <2>1, <2>2, QuietStep DEF ApplyFull
<1>5. CASE Restore(h)
  <2> PICK r \in last :
        proc' = [proc EXCEPT ![h] = [Idle EXCEPT !.op = "restore", !.stage = "loading",
                                                 !.text = r]]
    BY <1>5 DEF Restore
  <2> DEFINE q == [Idle EXCEPT !.op = "restore", !.stage = "loading", !.text = r]
  <2>1. r \in Ruleset /\ r.base \in {"open", "none"}
    BY DEF Inv, TypeOK, LastInv
  <2>2. q \in Process /\ q.stage = "loading" /\ q.text = r
    BY <2>1, States DEF Idle, Process, Op, Stage
  <2>3. proc' = [proc EXCEPT ![h] = q]
    OBVIOUS
  <2> HIDE DEF q
  <2> QED
    BY <1>1, <1>5, <2>1, <2>2, <2>3, QuietStep DEF Restore
<1>6. CASE Accept(h)
  <2> DEFINE q == [Idle EXCEPT !.op = "accept", !.stage = "listing"]
  <2>1. q \in Process /\ q.stage = "listing" /\ q.text = Blank
    BY States DEF Idle, Process, Op, Stage
  <2>2. proc' = [proc EXCEPT ![h] = q]
    BY <1>6 DEF Accept
  <2> HIDE DEF q
  <2> QED
    BY <1>1, <1>6, <2>1, <2>2, Texts, QuietStep DEF Accept
<1>7. CASE Close(h)
  <2> DEFINE q == [Idle EXCEPT !.op = "close",
                     !.stage = IF table.base = "open" THEN "deleting" ELSE "verifying"]
  <2>1. q \in Process /\ q.stage \in {"deleting", "verifying"} /\ q.text.base = "none"
    BY States, Texts DEF Idle, Process, Op, Stage
  <2>2. proc' = [proc EXCEPT ![h] = q]
    BY <1>7 DEF Close
  <2> HIDE DEF q
  <2> QED
    BY <1>1, <1>7, <2>1, <2>2, QuietStep DEF Close
<1> QED
  BY <1>3, <1>4, <1>5, <1>6, <1>7 DEF Command

\* The steps of a command that are not an installation's.
LEMMA HandlerStepInv ==
  ASSUME Inv, NEW h \in Handlers, HandlerStep(h)
  PROVE  Inv'
<1> h \in Processes
  BY DEF Processes
<1>1. /\ proc[h] \in Process /\ proc[h].stage # "locking"
      /\ bodies \in [Chains -> Bodies] /\ stored \in [Chains -> Bodies]
      /\ proc[h].text.base \in {"open", "none"}
  BY DEF Inv, TypeOK, ProcessInv, HandlerStep, Render, Store, DeleteRule, Verify, Processes
<1>2. CASE Render(h)
  <2> DEFINE q == [proc[h] EXCEPT !.text = Rendered, !.stage = "loading"]
  <2>1. Rendered \in Ruleset /\ Rendered.base = "open"
    BY <1>1 DEF Rendered, Ruleset, Base
  <2>2. q \in Process /\ q.stage = "loading" /\ q.text = Rendered
    BY <1>1, <2>1 DEF Process, Stage
  <2>3. proc' = [proc EXCEPT ![h] = q]
    BY <1>2 DEF Render
  <2> HIDE DEF q
  <2> QED
    BY <1>1, <1>2, <2>1, <2>2, <2>3, QuietStep DEF Render
<1>3. CASE Store(h)
  <2>1. stored' \in [Chains -> Bodies]
    BY <1>1, <1>3 DEF Store
  <2> QED
    BY <1>1, <1>3, <2>1, DoneInv DEF Store
<1>4. CASE DeleteRule(h)
  <2>1. CASE UNCHANGED table /\ Done(h)
    BY <1>1, <1>4, <2>1, DoneInv DEF DeleteRule
  <2>2. CASE table' = Bare("closed") /\ Moved(h, "verifying")
    <3>1. table' \in Ruleset /\ Takes(table') /\ table' # Emergency
      BY <2>2, Texts DEF Base
    <3> DEFINE q == [proc[h] EXCEPT !.stage = "verifying"]
    <3>2. q \in Process /\ q.stage = "verifying" /\ q.text = proc[h].text
      BY <1>1 DEF Process, Stage
    <3>3. proc' = [proc EXCEPT ![h] = q]
      BY <2>2 DEF Moved
    <3> HIDE DEF q
    <3>4. ProcessInv' /\ proc' \in [Processes -> Process]
      BY <1>1, <3>2, <3>3, ProcessStep
    <3> QED
      BY <1>4, <3>1, <3>4 DEF DeleteRule, Inv, TypeOK, Installable, LastInv, UnlockedInv,
                              Takes, Processes
  <2> QED
    BY <1>4, <2>1, <2>2 DEF DeleteRule
<1>5. CASE Verify(h)
  <2>1. CASE Moved(h, "closed")
    BY <1>1, <1>5, <2>1, MovedInv DEF Verify, Stage
  <2>2. CASE Done(h)
    BY <1>1, <1>5, <2>2, DoneInv DEF Verify
  <2> QED
    BY <1>5, <2>1, <2>2 DEF Verify
<1> QED
  BY <1>2, <1>3, <1>4, <1>5 DEF HandlerStep

-----------------------------------------------------------------------------
\* Putting a ruleset in place.
LEMMA LoadInv ==
  ASSUME Inv, NEW p \in Processes, Load(p)
  PROVE  Inv'
<1> DEFINE q == [proc[p] EXCEPT !.text = IF Saves(p) THEN @ ELSE Blank, !.stage = "listing"]
<1>1. /\ proc[p] \in Process /\ proc[p].text \in Ruleset /\ Takes(proc[p].text)
      /\ proc[p].text.base \in {"open", "none"}
  BY DEF Inv, TypeOK, ProcessInv, Processes, Process, Load
<1>2. q \in Process /\ q.stage = "listing" /\ q.text \in {proc[p].text, Blank}
  BY <1>1, Texts DEF Process, Stage
<1>3. proc' = [proc EXCEPT ![p] = q]
  BY DEF Load
<1> HIDE DEF q
<1>4. ProcessInv' /\ proc' \in [Processes -> Process]
  BY <1>1, <1>2, <1>3, Texts, ProcessStep
<1>5. table' \in Ruleset /\ Takes(table') /\ (table' = Emergency => table = Emergency)
  <2>1. proc[p].text # Emergency
    BY <1>1, Texts
  <2>2. table' = table \/ table' = proc[p].text
    BY DEF Load
  <2> QED
    BY <1>1, <2>1, <2>2 DEF Inv, TypeOK, Installable
<1>6. proc[p].stage = "loading"
  BY DEF Load
<1>7. \A r \in Processes \ {p} : proc'[r] = proc[r]
  BY <1>3 DEF Inv, TypeOK, Processes
<1>8. proc'[p].stage = "listing"
  BY <1>2, <1>3 DEF Inv, TypeOK, Processes
<1>9. Monitor \in Processes
  BY DEF Processes
<1>10. UnlockedInv'
  BY <1>5, <1>6, <1>7, <1>8, <1>9 DEF Load, Inv, UnlockedInv, Unlocked, Emergency, Bare
<1> QED
  BY <1>4, <1>5, <1>10 DEF Load, Inv, TypeOK, Installable, LastInv, Takes, Processes

LEMMA ListInv ==
  ASSUME Inv, NEW p \in Processes, List(p)
  PROVE  Inv'
<1> DEFINE q == [proc[p] EXCEPT !.sum = table, !.stage = "recording"]
<1>1. /\ proc[p] \in Process /\ Takes(proc[p].text) /\ proc[p].text.base \in {"open", "none"}
      /\ table \in Ruleset /\ Takes(table)
  BY DEF Inv, TypeOK, ProcessInv, Installable, Processes, Process, List
<1>2. q \in Process /\ q.stage = "recording" /\ q.text = proc[p].text /\ q.sum = table
  BY <1>1 DEF Process, Stage
<1>3. proc' = [proc EXCEPT ![p] = q]
  BY DEF List
<1> HIDE DEF q
<1>4. ProcessInv' /\ proc' \in [Processes -> Process]
  BY <1>1, <1>2, <1>3, ProcessStep
<1>5. proc[p].stage = "listing" /\ Monitor \in Processes
  BY DEF List, Processes
<1>6. proc'[p] = q /\ \A r \in Processes \ {p} : proc'[r] = proc[r]
  BY <1>3 DEF Inv, TypeOK, Processes
<1>7. UnlockedInv'
  BY <1>2, <1>5, <1>6 DEF List, Inv, UnlockedInv, Unlocked, Emergency, Bare
<1> QED
  BY <1>4, <1>7 DEF List, Inv, TypeOK, Installable, LastInv, Takes, Processes

LEMMA RecordInv ==
  ASSUME Inv, NEW p \in Processes, Record(p)
  PROVE  Inv'
<1>1. /\ proc[p] \in Process /\ Takes(proc[p].text) /\ Takes(proc[p].sum)
      /\ proc[p].sum \in Ruleset /\ proc[p].text.base \in {"open", "none"}
      /\ proc[p].stage = "recording" /\ Monitor \in Processes
  BY DEF Inv, TypeOK, ProcessInv, Processes, Process, Record
<1>2. PICK q \in Process :
        /\ proc' = [proc EXCEPT ![p] = q]
        /\ q.stage \in {"saving", "idle"}
        /\ q.text.base \in {"open", "none"}
        /\ q.stage = "saving" => Takes(q.text)
  <2>1. CASE Saves(p)
    <3> DEFINE q == [proc[p] EXCEPT !.sum = Blank, !.stage = "saving"]
    <3>1. q \in Process /\ q.stage = "saving" /\ q.text = proc[p].text
      BY <1>1, Texts DEF Process, Stage
    <3>2. proc' = [proc EXCEPT ![p] = q]
      BY <2>1 DEF Record
    <3> QED
      BY <1>1, <3>1, <3>2
  <2>2. CASE ~Saves(p)
    BY <2>2, States DEF Record, Done
  <2> QED
    BY <2>1, <2>2
<1>3. ProcessInv' /\ proc' \in [Processes -> Process]
  BY <1>2, ProcessStep
<1>4. proc'[p] = q /\ \A r \in Processes \ {p} : proc'[r] = proc[r]
  BY <1>2 DEF Inv, TypeOK, Processes
<1>5. UnlockedInv'
  BY <1>1, <1>2, <1>4 DEF Record, Inv, UnlockedInv, Unlocked, Emergency, Bare
<1> QED
  BY <1>1, <1>3, <1>5 DEF Record, Inv, TypeOK, Installable, LastInv, Takes, Processes

LEMMA SaveInv ==
  ASSUME Inv, NEW p \in Processes, Save(p)
  PROVE  Inv'
<1>1. /\ proc[p] \in Process /\ Takes(proc[p].text) /\ proc[p].text \in Ruleset
      /\ proc[p].text.base \in {"open", "none"}
      /\ proc[p].stage = "saving" /\ Monitor \in Processes
  BY DEF Inv, TypeOK, ProcessInv, Processes, Process, Save
<1>2. PICK q \in Process :
        /\ proc' = [proc EXCEPT ![p] = q]
        /\ q.stage \in {"storing", "idle"}
        /\ q.text.base \in {"open", "none"}
  <2>1. CASE proc[p].op = "apply"
    <3> DEFINE q == [proc[p] EXCEPT !.stage = "storing"]
    <3>1. q \in Process /\ q.stage = "storing" /\ q.text = proc[p].text
      BY <1>1 DEF Process, Stage
    <3>2. proc' = [proc EXCEPT ![p] = q]
      BY <2>1 DEF Save, Moved
    <3> QED
      BY <1>1, <3>1, <3>2
  <2>2. CASE proc[p].op # "apply"
    BY <2>2, States DEF Save, Done
  <2> QED
    BY <2>1, <2>2
<1>3. ProcessInv' /\ proc' \in [Processes -> Process]
  BY <1>2, ProcessStep
<1>4. proc'[p] = q /\ \A r \in Processes \ {p} : proc'[r] = proc[r]
  BY <1>2 DEF Inv, TypeOK, Processes
<1>5. UnlockedInv'
  BY <1>1, <1>2, <1>4 DEF Save, Inv, UnlockedInv, Unlocked, Emergency, Bare
<1> QED
  BY <1>1, <1>3, <1>5 DEF Save, Inv, TypeOK, Installable, LastInv, Takes, Processes

LEMMA InstallFailsInv ==
  ASSUME Inv, NEW p \in Processes, InstallFails(p)
  PROVE  Inv'
<1>1. /\ proc[p].stage \in {"loading", "listing"}
      /\ proc[p].stage = "listing" => Takes(proc[p].text)
      /\ UNCHANGED <<table, bodies, stored, expected, last, lockdown>>
      /\ stored' \in [Chains -> Bodies]
  BY DEF Inv, TypeOK, ProcessInv, InstallFails, LoadFails, ListFails, Processes
<1>2. CASE Moved(p, "saving") /\ proc[p].stage = "listing"
  BY <1>1, <1>2, MovedInv DEF Stage
<1>3. CASE Moved(p, "failed")
  BY <1>1, <1>3, MovedInv DEF Stage
<1>4. CASE Done(p)
  BY <1>1, <1>4, DoneInv
<1> QED
  BY <1>2, <1>3, <1>4 DEF InstallFails, LoadFails, ListFails, Abort

-----------------------------------------------------------------------------
\* The divergence check.
LEMMA CheckInv ==
  ASSUME Inv, Check
  PROVE  Inv'
<1> Monitor \in Processes
  BY DEF Processes
<1>1. /\ proc[Monitor] \in Process /\ proc[Monitor].text.base \in {"open", "none"}
      /\ bodies \in [Chains -> Bodies] /\ stored \in [Chains -> Bodies]
  BY DEF Inv, TypeOK, ProcessInv, Processes
<1>2. CASE CheckStart
  <2> PICK e \in expected :
        proc' = [proc EXCEPT ![Monitor] = [Idle EXCEPT !.op = "check", !.stage = "comparing",
                                                       !.sum = e]]
    BY <1>2 DEF CheckStart
  <2> DEFINE q == [Idle EXCEPT !.op = "check", !.stage = "comparing", !.sum = e]
  <2>1. e \in Ruleset
    BY DEF Inv, TypeOK
  <2>2. q \in Process /\ q.stage = "comparing" /\ q.text = Blank
    BY <2>1, States DEF Idle, Process, Op, Stage
  <2>3. proc' = [proc EXCEPT ![Monitor] = q]
    OBVIOUS
  <2> HIDE DEF q
  <2> QED
    BY <1>1, <1>2, <2>2, <2>3, Texts, QuietStep DEF CheckStart
<1>3. CASE CheckEnds
  BY <1>1, <1>3, DoneInv DEF CheckEnds
<1>4. CASE Diverged
  <2> DEFINE q == [proc[Monitor] EXCEPT !.sum = Blank, !.stage = "restoring"]
  <2>1. q \in Process /\ q.stage = "restoring" /\ q.text = proc[Monitor].text
    BY <1>1, Texts DEF Process, Stage
  <2>2. proc' = [proc EXCEPT ![Monitor] = q]
    BY <1>4 DEF Diverged
  <2> HIDE DEF q
  <2> QED
    BY <1>1, <1>4, <2>1, <2>2, QuietStep DEF Diverged
<1>5. CASE TakeLast
  <2>1. CASE last = {} /\ Moved(Monitor, "failed")
    BY <1>5, <2>1, MovedInv DEF TakeLast, Stage
  <2>2. ASSUME NEW r \in last,
               proc' = [proc EXCEPT ![Monitor].text = r, ![Monitor].stage = "loading"]
        PROVE  Inv'
    <3> DEFINE q == [proc[Monitor] EXCEPT !.text = r, !.stage = "loading"]
    <3>1. r \in Ruleset /\ r.base \in {"open", "none"}
      BY DEF Inv, TypeOK, LastInv
    <3>2. q \in Process /\ q.stage = "loading" /\ q.text = r
      BY <1>1, <3>1 DEF Process, Stage
    <3>3. proc' = [proc EXCEPT ![Monitor] = q]
      BY <2>2
    <3> HIDE DEF q
    <3> QED
      BY <1>1, <1>5, <3>1, <3>2, <3>3, QuietStep DEF TakeLast
  <2> QED
    BY <1>5, <2>1, <2>2 DEF TakeLast
<1>6. CASE LoadEmergency
  <2> DEFINE q == [proc[Monitor] EXCEPT !.stage = "locking"]
  <2>1. q \in Process /\ q.stage = "locking" /\ q.text = proc[Monitor].text
    BY <1>1 DEF Process, Stage
  <2>2. proc' = [proc EXCEPT ![Monitor] = q]
    BY <1>6 DEF LoadEmergency, Moved
  <2> HIDE DEF q
  <2>3. ProcessInv' /\ proc' \in [Processes -> Process]
    BY <1>1, <2>1, <2>2, ProcessStep
  <2>4. proc'[Monitor].stage = "locking"
    BY <2>1, <2>2 DEF Inv, TypeOK, Processes
  <2> QED
    BY <1>6, <2>3, <2>4, Texts DEF LoadEmergency, Inv, TypeOK, Installable, LastInv,
                                   UnlockedInv, Unlocked, Takes, Processes
<1>7. CASE EmergencyFails
  BY <1>7, MovedInv DEF EmergencyFails, Stage
<1>8. CASE Lock
  <2>1. ProcessInv' /\ proc' \in [Processes -> Process]
    BY <1>8, States, ProcessStep DEF Lock, Done
  <2> QED
    BY <1>8, <2>1 DEF Lock, Inv, TypeOK, Installable, LastInv, UnlockedInv, Unlocked,
                      Takes, Processes
<1> QED
  BY <1>2, <1>3, <1>4, <1>5, <1>6, <1>7, <1>8 DEF Check

-----------------------------------------------------------------------------
\* Outsiders and restarts.
LEMMA OutsiderInv ==
  ASSUME Inv, Outsider
  PROVE  Inv'
<1>1. table' \in Ruleset /\ Takes(table') /\ table' # Emergency
  BY Texts DEF Outsider, Edit, DeleteTable, Base
<1> QED
  BY <1>1 DEF Outsider, Edit, DeleteTable, Inv, TypeOK, Installable, ProcessInv, LastInv,
              UnlockedInv, Takes

LEMMA RestartInv ==
  ASSUME Inv, Restart
  PROVE  Inv'
<1>1. \A p \in Processes :
        /\ proc'[p] \in Process
        /\ proc'[p].text.base \in {"open", "none"}
        /\ proc'[p].stage \in {"idle", "loading"}
  BY States DEF Restart, Processes, Inv, TypeOK
<1>2. proc' \in [Processes -> Process]
  BY <1>1 DEF Restart, Processes
<1>3. bodies' \in [Chains -> Bodies]
  BY BodiesAssumption DEF Restart, Inv, TypeOK
<1>4. ProcessInv'
  BY <1>1 DEF ProcessInv
<1>5. UnlockedInv'
  BY <1>1 DEF UnlockedInv, Restart
<1> QED
  BY <1>2, <1>3, <1>4, <1>5 DEF Restart, Inv, TypeOK, Installable, LastInv, Takes, Processes

-----------------------------------------------------------------------------
LEMMA InitInv == Init => Inv
<1> SUFFICES ASSUME Init PROVE Inv
  OBVIOUS
<1>1. /\ stored \in [Chains -> Bodies] /\ bodies \in [Chains -> Bodies]
  BY BodiesAssumption DEF Init
<1>2. \A p \in Processes :
        /\ proc[p] \in Process
        /\ proc[p].text.base \in {"open", "none"}
        /\ proc[p].stage \in {"idle", "loading"}
  BY <1>1, States DEF Init, Processes
<1>3. proc \in [Processes -> Process]
  BY <1>2 DEF Init, Processes
<1>4. table \in Ruleset /\ Takes(table) /\ table # Emergency
  BY Texts DEF Init, Base
<1> QED
  BY <1>1, <1>2, <1>3, <1>4 DEF Init, Inv, TypeOK, Installable, ProcessInv, LastInv,
                                UnlockedInv, Takes, Processes

LEMMA NextInv == Inv /\ [Next]_vars => Inv'
<1> SUFFICES ASSUME Inv, [Next]_vars PROVE Inv'
  OBVIOUS
<1>1. ASSUME NEW h \in Handlers, Command(h) \/ HandlerStep(h) PROVE Inv'
  BY <1>1, CommandInv, HandlerStepInv
<1>2. ASSUME NEW p \in Processes, Install(p) \/ InstallFails(p) PROVE Inv'
  BY <1>2, LoadInv, ListInv, RecordInv, SaveInv, InstallFailsInv DEF Install
<1>3. CASE Check
  BY <1>3, CheckInv
<1>4. CASE Outsider
  BY <1>4, OutsiderInv
<1>5. CASE Restart
  BY <1>5, RestartInv
<1>6. CASE UNCHANGED vars
  BY <1>6 DEF vars, Inv, TypeOK, Installable, ProcessInv, LastInv, UnlockedInv, Unlocked,
              Takes, Processes
<1> QED
  BY <1>1, <1>2, <1>3, <1>4, <1>5, <1>6 DEF Next, Processes

THEOREM Invariance == Spec => []Inv
  BY InitInv, NextInv, PTL DEF Spec

\* The firewall's state keeps its types.
THEOREM TypeCorrect == Spec => []TypeOK
<1> Inv => TypeOK
  BY DEF Inv
<1> QED
  BY Invariance, PTL

\* What nft refused is never expected, restored or in the kernel.
THEOREM NothingRefused == Spec => []Installable
<1> Inv => Installable
  BY DEF Inv
<1> QED
  BY Invariance, PTL

\* The emergency ruleset comes with a lockdown.
THEOREM EmergencyMeansLockdown == Spec => []EmergencyLocks
<1> Inv => EmergencyLocks
  BY DEF Inv, UnlockedInv, Unlocked, EmergencyLocks
<1> QED
  BY Invariance, PTL
=============================================================================
