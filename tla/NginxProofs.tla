----------------------------- MODULE NginxProofs -----------------------------
(***************************************************************************)
(* Types, RenamedIsAccepted, NewestStays and LoneUpdateTakes for any       *)
(* number of concurrent commands, any configurations and any number of     *)
(* INSERTs and attempts.                                                   *)
(*                                                                         *)
(* Nobody writes to the temporary file what the walker refused, and a      *)
(* deployment has only the live file open, so what a rename makes live is  *)
(* an accepted configuration or a piece of some (FileInv); a task that has *)
(* the temporary file to itself finds there what it wrote (AloneInv).  The *)
(* newest row survives every cleanup because no row is newer than the last *)
(* INSERT (RowInv).  What an update has achieved so far is still there at  *)
(* its next step as long as nobody else is under way (LoneInv).            *)
(***************************************************************************)
EXTENDS Nginx, TLAPS

\* What a task may be at a place: a deployment where only deployments go, and
\* with a configuration that the walker accepts if it is none.
Fits(t) ==
  /\ t.at \in Place \ {"stopped", "removed"} => t.cfg \in Configs
  /\ t.at \in {"stopped", "removed", "running"} => t.kind = "deploy"
  /\ t.at \in {"selected", "written", "tested"} => t.kind # "deploy"
  /\ t.at \in Place \union {"filling"} /\ t.kind # "deploy" => t.cfg \in Accepted
  /\ t.at = "filling" /\ t.kind = "deploy" => t.to # "tmp"

TaskInv == \A a \in Actors : Fits(task[a])

Pieces == Accepted \union {"empty", "torn"}

FillsLive(a) == At(a, "filling") /\ task[a].to = "live"

FileInv ==
  /\ tmp \in Pieces \union {"absent"}
  /\ RenamedIsAccepted
  /\ \A a \in Actors :
       FillsLive(a) => renamed # "alone" /\ (task[a].kind = "deploy" => renamed # "contested")

AloneInv ==
  \A a \in Actors :
    alone = a /\ UsesTmp(a) =>
      /\ \A b \in Actors \ {a} : ~UsesTmp(b)
      /\ IF At(a, "filling") THEN task[a].to = "tmp" /\ tmp = "empty" ELSE tmp = task[a].cfg

RowInv == (\A r \in rows : r.at <= inserts) /\ NewestStays

Inv == TypeOK /\ TaskInv /\ FileInv /\ AloneInv /\ RowInv

StoredLast(c) == \E r \in rows : IsNewest(r) /\ r.cfg = c

Achieved(a) ==
  /\ UsesTmp(a) => alone = a
  /\ task[a].at \in Place /\ task[a].kind = "update" =>
       /\ At(a, "inserted") \/ At(a, "persisted") \/ At(a, "placed") => StoredLast(task[a].cfg)
       /\ At(a, "placed") => live = task[a].cfg

LoneInv ==
  \A a \in Slots :
    sole = a => Achieved(a) /\ \A b \in Actors \ {a} : At(b, "idle")

-----------------------------------------------------------------------------
\* What a place says of the task that is there.
LEMMA TaskAt ==
  ASSUME NEW t \in Task
  PROVE  /\ t.at \in Place =>
              t \in [at : Place, kind : Kind, cfg : Configs \union {"absent"}]
         /\ t.at = "filling" =>
              t \in [at : {"filling"}, kind : Kind, cfg : Configs, to : {"tmp", "live", "gone"}]
         /\ t.at = "redeploying" => t \in [at : {"redeploying"}, n : 1 .. MaxRedeploys]
         /\ t.at = "idle" => t = Idle
  BY DEF Task, Place, Idle

LEMMA NewTask ==
  /\ Idle \in Task /\ Fits(Idle) /\ Idle.at = "idle"
  /\ \A t \in [at : {"selecting"}] : t \in Task /\ Fits(t)
  /\ \A t \in [at : {"redeploying"}, n : 1 .. MaxRedeploys] : t \in Task /\ Fits(t)
  /\ \A t \in [at : {"stopped"}, kind : {"deploy"}, cfg : Configs \union {"absent"}] :
       t \in Task /\ Fits(t)
  /\ \A t \in [at : {"selected"}, kind : {"restore"}, cfg : Accepted] : t \in Task /\ Fits(t)
  BY ConfigAssumption DEF Idle, Task, Fits, Place, Kind

LEMMA NewFiller ==
  /\ \A t \in [at : {"filling"}, kind : {"update", "restore"}, cfg : Accepted, to : {"tmp"}] :
       t \in Task /\ Fits(t)
  /\ \A t \in [at : {"filling"}, kind : {"deploy"}, cfg : Configs, to : {"live"}] :
       t \in Task /\ Fits(t)
  BY ConfigAssumption DEF Task, Fits, Place, Kind

\* A task is replaced by another.
LEMMA BecomeInv ==
  ASSUME TypeOK, TaskInv, NEW a \in Actors, NEW t \in Task, Fits(t), Become(a, t)
  PROVE  /\ task' \in [Actors -> Task] /\ TaskInv'
         /\ task'[a] = t
         /\ \A b \in Actors \ {a} : task'[b] = task[b]
  BY DEF TypeOK, TaskInv, Become

LEMMA EndInv ==
  ASSUME TypeOK, TaskInv, NEW a \in Actors, Become(a, Idle)
  PROVE  /\ task' \in [Actors -> Task] /\ TaskInv'
         /\ task'[a].at = "idle"
         /\ \A b \in Actors \ {a} : task'[b] = task[b]
  BY NewTask, BecomeInv

\* A task goes on to another place.
LEMMA WentFits ==
  ASSUME TypeOK, TaskInv, NEW a \in Actors,
         task[a].at \in Place \union {"filling"}, NEW p \in Place,
         p \notin {"stopped", "removed"} => task[a].cfg \in Configs,
         p \in {"stopped", "removed", "running"} => task[a].kind = "deploy",
         p \in {"selected", "written", "tested"} => task[a].kind # "deploy"
  PROVE  /\ Went(a, p) \in Task /\ Fits(Went(a, p))
         /\ Went(a, p).at = p /\ Went(a, p).kind = task[a].kind /\ Went(a, p).cfg = task[a].cfg
<1>1. task[a].kind \in Kind /\ task[a].cfg \in Configs \union {"absent"}
  BY TaskAt DEF TypeOK
<1>2. task[a].kind # "deploy" => task[a].cfg \in Accepted
  BY DEF TaskInv, Fits
<1>3. /\ Went(a, p) \in [at : Place, kind : Kind, cfg : Configs \union {"absent"}]
      /\ Went(a, p).at = p /\ Went(a, p).kind = task[a].kind /\ Went(a, p).cfg = task[a].cfg
  BY <1>1 DEF Went
<1>4. p # "filling"
  BY DEF Place
<1> QED
  BY <1>2, <1>3, <1>4 DEF Task, Fits

LEMMA AdvanceInv ==
  ASSUME TypeOK, TaskInv, NEW a \in Actors,
         task[a].at \in Place \union {"filling"}, NEW p \in Place,
         p \notin {"stopped", "removed"} => task[a].cfg \in Configs,
         p \in {"stopped", "removed", "running"} => task[a].kind = "deploy",
         p \in {"selected", "written", "tested"} => task[a].kind # "deploy",
         Advance(a, p)
  PROVE  /\ task' \in [Actors -> Task] /\ TaskInv'
         /\ task'[a].at = p /\ task'[a].kind = task[a].kind /\ task'[a].cfg = task[a].cfg
         /\ \A b \in Actors \ {a} : task'[b] = task[b]
<1> DEFINE t == Went(a, p)
<1>1. /\ t \in Task /\ Fits(t)
      /\ t.at = p /\ t.kind = task[a].kind /\ t.cfg = task[a].cfg
  BY WentFits
<1>2. Become(a, t)
  BY DEF Advance
<1> HIDE DEF t
<1> QED
  BY <1>1, <1>2, BecomeInv

\* What becomes of an open file.
LEMMA Names ==
  /\ WhenRenamed["tmp"] = "live" /\ WhenRenamed["live"] = "gone" /\ WhenRenamed["gone"] = "gone"
  /\ WhenRemoved["tmp"] = "gone" /\ WhenRemoved["live"] = "live" /\ WhenRemoved["gone"] = "gone"
  BY DEF WhenRenamed, WhenRemoved

\* A filler whose file changes its name.
LEMMA FillerMoves ==
  ASSUME NEW t \in Task, Fits(t), t.at = "filling", NEW x \in {"live", "gone"}
  PROVE  /\ [t EXCEPT !.to = x] \in Task /\ Fits([t EXCEPT !.to = x])
         /\ [t EXCEPT !.to = x].at = t.at /\ [t EXCEPT !.to = x].kind = t.kind
         /\ [t EXCEPT !.to = x].cfg = t.cfg /\ [t EXCEPT !.to = x].to = x
<1> DEFINE u == [t EXCEPT !.to = x]
<1>1. t \in [at : {"filling"}, kind : Kind, cfg : Configs, to : {"tmp", "live", "gone"}]
  BY TaskAt
<1>2. /\ u \in [at : {"filling"}, kind : Kind, cfg : Configs, to : {"tmp", "live", "gone"}]
      /\ u.at = t.at /\ u.kind = t.kind /\ u.cfg = t.cfg /\ u.to = x
  BY <1>1
<1> HIDE DEF u
<1>3. u \in Task
  BY <1>2 DEF Task
<1>4. Fits(u)
  BY <1>2 DEF Fits
<1> QED
  BY <1>2, <1>3, <1>4 DEF u

\* A task ends or goes on, and the files that others have open change names.
LEMMA FollowInv ==
  ASSUME TypeOK, TaskInv, NEW a \in Actors, NEW t \in Task, Fits(t),
         NEW names \in {WhenRenamed, WhenRemoved},
         task' = [Follow(task, names) EXCEPT ![a] = t]
  PROVE  /\ task' \in [Actors -> Task] /\ TaskInv'
         /\ task'[a] = t
         /\ \A b \in Actors \ {a} :
              /\ task'[b].at = task[b].at
              /\ At(b, "filling") =>
                   /\ task'[b].kind = task[b].kind /\ task'[b].cfg = task[b].cfg
                   /\ task'[b].to = names[task[b].to]
              /\ ~At(b, "filling") => task'[b] = task[b]
<1>1. /\ task'[a] = t
      /\ \A b \in Actors \ {a} :
           /\ At(b, "filling") => task'[b] = [task[b] EXCEPT !.to = names[task[b].to]]
           /\ ~At(b, "filling") => task'[b] = task[b]
  BY DEF Follow, At
<1>2. ASSUME NEW b \in Actors \ {a}, At(b, "filling")
      PROVE  /\ task'[b] \in Task /\ Fits(task'[b])
             /\ task'[b].at = task[b].at /\ task'[b].kind = task[b].kind
             /\ task'[b].cfg = task[b].cfg /\ task'[b].to = names[task[b].to]
  <2>1. task[b] \in Task /\ Fits(task[b]) /\ task[b].at = "filling"
    BY <1>2 DEF TypeOK, TaskInv, At
  <2>2. task[b].to \in {"tmp", "live", "gone"}
    BY <2>1, TaskAt
  <2>3. names[task[b].to] \in {"live", "gone"}
    BY <2>2, Names
  <2> DEFINE u == task[b]
             x == names[task[b].to]
             v == [u EXCEPT !.to = x]
  <2>4. task'[b] = v
    BY <1>1, <1>2
  <2>5. u \in Task /\ Fits(u) /\ u.at = "filling" /\ x \in {"live", "gone"}
    BY <2>1, <2>3
  <2> HIDE DEF u, x
  <2>6. /\ v \in Task /\ Fits(v)
        /\ v.at = u.at /\ v.kind = u.kind /\ v.cfg = u.cfg /\ v.to = x
    BY <2>5, FillerMoves
  <2> QED
    BY <2>4, <2>6 DEF u, x
<1>3. \A b \in Actors : task'[b] \in Task /\ Fits(task'[b])
  BY <1>1, <1>2 DEF TypeOK, TaskInv
<1>4. task' = [b \in Actors |-> task'[b]]
  BY DEF Follow
<1>5. task' \in [Actors -> Task]
  BY <1>3, <1>4
<1>6. TaskInv'
  BY <1>3 DEF TaskInv
<1> QED
  BY <1>1, <1>2, <1>5, <1>6

-----------------------------------------------------------------------------
\* A step that leaves the files alone, and of the tasks changes one that opens
\* none and does not become a user of the temporary file.
LEMMA Calm ==
  ASSUME Inv, UNCHANGED fileVars, NEW a \in Actors,
         \A b \in Actors \ {a} : task'[b] = task[b],
         task'[a].at # "filling",
         UsesTmp(a)' => UsesTmp(a) /\ ~At(a, "filling") /\ task'[a].cfg = task[a].cfg
  PROVE  FileInv' /\ AloneInv'
<1>1. FileInv'
  <2>1. \A b \in Actors : FillsLive(b)' => FillsLive(b) /\ task'[b] = task[b]
    BY DEF FillsLive, At
  <2> QED
    BY <2>1 DEF Inv, FileInv, RenamedIsAccepted, fileVars
<1>2. AloneInv'
  <2>1. \A b \in Actors \ {a} : UsesTmp(b)' <=> UsesTmp(b)
    BY DEF UsesTmp
  <2>2. \A b \in Actors \ {a} : task'[b] = task[b] /\ (At(b, "filling")' <=> At(b, "filling"))
    BY DEF At
  <2>3. \A b \in Actors : UsesTmp(b)' => UsesTmp(b)
    BY <2>1
  <2>4. ~At(a, "filling")'
    BY DEF At
  <2> SUFFICES ASSUME NEW b \in Actors, alone' = b, UsesTmp(b)'
               PROVE  /\ \A c \in Actors \ {b} : ~UsesTmp(c)'
                      /\ IF At(b, "filling")' THEN task'[b].to = "tmp" /\ tmp' = "empty"
                         ELSE tmp' = task'[b].cfg
    BY DEF AloneInv
  <2>5. alone = b /\ UsesTmp(b) /\ tmp' = tmp
    BY <2>3 DEF fileVars
  <2>6. /\ \A c \in Actors \ {b} : ~UsesTmp(c)
        /\ IF At(b, "filling") THEN task[b].to = "tmp" /\ tmp = "empty" ELSE tmp = task[b].cfg
    BY <2>5 DEF Inv, AloneInv
  <2> QED
    BY <2>2, <2>3, <2>4, <2>5, <2>6
<1> QED
  BY <1>1, <1>2

\* A task that ends, and one that goes on.
LEMMA Ends ==
  ASSUME Inv, UNCHANGED fileVars, NEW a \in Actors, Become(a, Idle)
  PROVE  task' \in [Actors -> Task] /\ TaskInv' /\ FileInv' /\ AloneInv'
<1>1. /\ task' \in [Actors -> Task] /\ TaskInv' /\ task'[a].at = "idle"
      /\ \A b \in Actors \ {a} : task'[b] = task[b]
  BY EndInv DEF Inv
<1>2. ~UsesTmp(a)'
  BY <1>1 DEF UsesTmp
<1> QED
  BY <1>1, <1>2, Calm

LEMMA GoesOn ==
  ASSUME Inv, UNCHANGED fileVars, NEW a \in Actors, NEW p \in Place, Advance(a, p),
         task[a].at \in Place,
         p \notin {"stopped", "removed"} => task[a].cfg \in Configs,
         p \in {"stopped", "removed", "running"} => task[a].kind = "deploy",
         p \in {"selected", "written", "tested"} => task[a].kind # "deploy",
         p \in {"written", "tested", "inserted", "persisted"} =>
           task[a].kind = "deploy" \/ task[a].at \in {"written", "tested", "inserted", "persisted"}
  PROVE  task' \in [Actors -> Task] /\ TaskInv' /\ FileInv' /\ AloneInv'
<1>1. /\ task' \in [Actors -> Task] /\ TaskInv'
      /\ task'[a].at = p /\ task'[a].kind = task[a].kind /\ task'[a].cfg = task[a].cfg
      /\ \A b \in Actors \ {a} : task'[b] = task[b]
  BY AdvanceInv DEF Inv
<1>2. p # "filling" /\ task[a].at # "filling"
  BY DEF Place
<1>3. UsesTmp(a)' => UsesTmp(a) /\ ~At(a, "filling") /\ task'[a].cfg = task[a].cfg
  BY <1>1, <1>2 DEF UsesTmp, At
<1> QED
  BY <1>1, <1>2, <1>3, Calm

-----------------------------------------------------------------------------
LEMMA RowsSame == ASSUME Inv, UNCHANGED rowVars PROVE RowInv'
  BY DEF Inv, RowInv, NewestStays, rowVars

\* Where a command stands that persists a configuration.
LEMMA Persisting ==
  ASSUME Inv, NEW a \in Actors,
         \/ At(a, "tested") /\ task[a].kind = "update"
         \/ At(a, "running")
         \/ At(a, "inserted")
  PROVE  /\ task[a].at \in Place \ {"stopped", "removed"} /\ task[a].cfg \in Configs
         /\ task[a].kind = "deploy" \/ task[a].at \in {"written", "tested", "inserted", "persisted"}
  BY DEF At, Inv, TaskInv, Fits, Place

LEMMA PersistInv ==
  ASSUME Inv, NEW a \in Actors, Insert(a) \/ Purge(a) \/ PersistEnds(a)
  PROVE  Inv'
<1>1. CASE Insert(a)
  <2>1. task' \in [Actors -> Task] /\ TaskInv' /\ FileInv' /\ AloneInv' /\ task[a].cfg \in Configs
    BY <1>1, Persisting, GoesOn DEF Insert, Place
  <2>2. inserts' = inserts + 1 /\ inserts' \in 1 .. MaxRows /\ inserts \in Nat
    BY <1>1, ConfigAssumption DEF Insert, Inv, TypeOK
  <2>3. rows' = rows \union {[at |-> inserts', cfg |-> task[a].cfg]}
    BY <1>1 DEF Insert
  <2>4. rows' \subseteq Row /\ \A r \in rows : r.at \in Nat
    BY <2>1, <2>2, <2>3 DEF Row, Inv, TypeOK
  <2>5. RowInv'
    <3>1. \A r \in rows' : r.at <= inserts'
      BY <2>2, <2>3, <2>4 DEF Inv, RowInv
    <3> DEFINE new == [at |-> inserts', cfg |-> task[a].cfg]
    <3>2. new \in rows' /\ new.at = inserts'
      BY <2>3
    <3> QED
      BY <3>1, <3>2 DEF RowInv, NewestStays
  <2>6. TypeOK'
    BY <1>1, <2>1, <2>2, <2>4 DEF Insert, Inv, TypeOK, fileVars, hostVars
  <2> QED
    BY <2>1, <2>5, <2>6 DEF Inv
<1>2. CASE Purge(a)
  <2>1. task' \in [Actors -> Task] /\ TaskInv' /\ FileInv' /\ AloneInv'
    BY <1>2, Persisting, GoesOn DEF Purge, At, Place
  <2>2. rows' \subseteq rows /\ inserts' = inserts
    BY <1>2 DEF Purge
  <2>3. ASSUME inserts > 0
        PROVE  \E r \in rows' : r.at = inserts
    <3>1. PICK r \in rows : r.at = inserts
      BY <2>3 DEF Inv, RowInv, NewestStays
    <3>2. IsNewest(r)
      BY <3>1 DEF Inv, RowInv, IsNewest
    <3> QED
      BY <1>2, <3>1, <3>2 DEF Purge
  <2>4. RowInv'
    BY <2>2, <2>3 DEF Inv, RowInv, NewestStays
  <2>5. TypeOK'
    BY <1>2, <2>1, <2>2 DEF Purge, Inv, TypeOK, fileVars, hostVars
  <2> QED
    BY <2>1, <2>4, <2>5 DEF Inv
<1>3. CASE PersistEnds(a)
  <2>1. task' \in [Actors -> Task] /\ TaskInv' /\ FileInv' /\ AloneInv'
    BY <1>3, Ends DEF PersistEnds
  <2> QED
    BY <1>3, <2>1, RowsSame DEF PersistEnds, Inv, TypeOK, fileVars, rowVars, hostVars
<1> QED
  BY <1>1, <1>2, <1>3

\* Opening the temporary file.
LEMMA OpenTmpInv ==
  ASSUME Inv, NEW a \in Actors, ~UsesTmp(a), NEW c \in Accepted, NEW k \in {"update", "restore"},
         OpenTmp(a, c, k), sole' \in Actors \union {"none"}
  PROVE  /\ Inv'
         /\ task'[a].at = "filling" /\ task'[a].kind = k
         /\ \A b \in Actors \ {a} : task'[b] = task[b]
<1> DEFINE t == [at |-> "filling", to |-> "tmp", kind |-> k, cfg |-> c]
<1>1. t \in Task /\ Fits(t) /\ t.at = "filling" /\ t.to = "tmp" /\ t.kind = k
  BY NewFiller
<1>2. Become(a, t)
  BY DEF OpenTmp
<1> HIDE DEF t
<1>3. /\ task' \in [Actors -> Task] /\ TaskInv' /\ task'[a] = t
      /\ \A b \in Actors \ {a} : task'[b] = task[b]
  BY <1>1, <1>2, BecomeInv DEF Inv
<1>4. /\ tmp' = "empty" /\ live' = live /\ renamed' = renamed
      /\ alone' = IF \E b \in Actors \ {a} : UsesTmp(b) THEN "none" ELSE a
  BY DEF OpenTmp
<1>5. FileInv'
  <2>1. \A b \in Actors : FillsLive(b)' => FillsLive(b) /\ task'[b] = task[b]
    BY <1>1, <1>3 DEF FillsLive, At
  <2> QED
    BY <1>4, <2>1 DEF Inv, FileInv, RenamedIsAccepted, Pieces
<1>6. AloneInv'
  <2>1. \A b \in Actors \ {a} : UsesTmp(b)' <=> UsesTmp(b)
    BY <1>3 DEF UsesTmp
  <2>2. \A b \in Actors : alone' = b => b = a /\ \A d \in Actors \ {a} : ~UsesTmp(d)
    BY <1>4, ConfigAssumption DEF Actors, Watchdog
  <2>3. At(a, "filling")' /\ task'[a].to = "tmp"
    BY <1>1, <1>3 DEF At
  <2> QED
    BY <1>4, <2>1, <2>2, <2>3 DEF AloneInv
<1>7. TypeOK'
  <2>1. tmp' \in Content \ {"edited"} /\ alone' \in Actors \union {"none"}
    BY <1>4 DEF Content
  <2> QED
    BY <1>3, <1>4, <2>1 DEF OpenTmp, Inv, TypeOK, rowVars, hostVars
<1>8. RowInv'
  BY RowsSame DEF OpenTmp
<1> QED
  BY <1>1, <1>3, <1>5, <1>6, <1>7, <1>8 DEF Inv

LEMMA UpdateBegins ==
  ASSUME Inv, NEW a \in Slots, NEW c \in Configs, BeginUpdate(a, c)
  PROVE  /\ Inv'
         /\ task'[a].at = "filling" /\ task'[a].kind = "update"
         /\ \A b \in Actors \ {a} : task'[b] = task[b]
<1>1. a \in Actors /\ c \in Accepted /\ OpenTmp(a, c, "update") /\ sole' \in Actors \union {"none"}
  BY DEF BeginUpdate, Start, Actors
<1>2. ~UsesTmp(a)
  BY DEF BeginUpdate, Free, At, UsesTmp
<1> QED
  BY <1>1, <1>2, OpenTmpInv

-----------------------------------------------------------------------------
\* A file that is filled.
LEMMA FillInv ==
  ASSUME Inv, NEW a \in Actors, Fill(a)
  PROVE  Inv'
<1>1. task[a] \in [at : {"filling"}, kind : Kind, cfg : Configs, to : {"tmp", "live", "gone"}]
  BY TaskAt DEF Fill, At, Inv, TypeOK
<1>2. /\ task[a].kind # "deploy" => task[a].cfg \in Accepted
      /\ task[a].kind = "deploy" => task[a].to # "tmp"
  BY <1>1 DEF Inv, TaskInv, Fits
<1>3. /\ task' \in [Actors -> Task] /\ TaskInv'
      /\ \A b \in Actors \ {a} : task'[b] = task[b]
      /\ task'[a].at # "filling"
      /\ UsesTmp(a)' => task'[a].cfg = task[a].cfg /\ hostOk /\ task[a].kind # "deploy"
  <2>1. CASE task[a].kind = "deploy"
    <3>1. Advance(a, "placed")
      BY <2>1 DEF Fill
    <3>2. /\ task' \in [Actors -> Task] /\ TaskInv'
          /\ task'[a].at = "placed" /\ \A b \in Actors \ {a} : task'[b] = task[b]
      BY <1>1, <2>1, <3>1, AdvanceInv DEF Inv, Place
    <3> QED
      BY <3>2 DEF UsesTmp
  <2>2. CASE task[a].kind # "deploy" /\ hostOk
    <3>1. Advance(a, "written")
      BY <2>2 DEF Fill
    <3>2. /\ task' \in [Actors -> Task] /\ TaskInv' /\ task'[a].cfg = task[a].cfg
          /\ task'[a].at = "written" /\ \A b \in Actors \ {a} : task'[b] = task[b]
      BY <1>1, <2>2, <3>1, AdvanceInv DEF Inv, Place
    <3> QED
      BY <2>2, <3>2
  <2>3. CASE task[a].kind # "deploy" /\ ~hostOk
    <3>1. Become(a, Idle)
      BY <2>3 DEF Fill
    <3>2. /\ task' \in [Actors -> Task] /\ TaskInv'
          /\ task'[a].at = "idle" /\ \A b \in Actors \ {a} : task'[b] = task[b]
      BY <3>1, EndInv DEF Inv
    <3> QED
      BY <3>2 DEF UsesTmp
  <2> QED
    BY <2>1, <2>2, <2>3
<1>4. \A held : Filled(a, held) \subseteq {held, "torn", task[a].cfg}
  BY DEF Filled
<1>5. /\ tmp' = tmp \/ (task[a].to = "tmp" /\ tmp' \in {tmp, "torn", task[a].cfg})
      /\ live' = live \/ (task[a].to = "live" /\ live' \in {live, "torn", task[a].cfg})
      /\ UNCHANGED <<renamed, alone>>
  BY <1>4 DEF Fill
<1>6. FileInv'
  <2>1. tmp' \in Pieces \union {"absent"}
    BY <1>1, <1>2, <1>5 DEF Inv, FileInv, Pieces
  <2>2. \A b \in Actors : FillsLive(b)' => FillsLive(b) /\ task'[b] = task[b]
    BY <1>3 DEF FillsLive, At
  <2>3. RenamedIsAccepted'
    <3>1. CASE live' = live
      BY <1>5, <3>1 DEF Inv, FileInv, RenamedIsAccepted
    <3>2. CASE task[a].to = "live" /\ live' \in {live, "torn", task[a].cfg}
      <4>1. renamed # "alone" /\ (task[a].kind = "deploy" => renamed # "contested")
        BY <1>1, <3>2 DEF Inv, FileInv, FillsLive, At
      <4> QED
        BY <1>2, <1>5, <3>2, <4>1 DEF Inv, FileInv, RenamedIsAccepted
    <3> QED
      BY <1>5, <3>1, <3>2
  <2> QED
    BY <1>5, <2>1, <2>2, <2>3 DEF Inv, FileInv
<1>7. AloneInv'
  <2> SUFFICES ASSUME NEW b \in Actors, alone = b, UsesTmp(b)'
               PROVE  /\ \A c \in Actors \ {b} : ~UsesTmp(c)'
                      /\ IF At(b, "filling")' THEN task'[b].to = "tmp" /\ tmp' = "empty"
                         ELSE tmp' = task'[b].cfg
    BY <1>5 DEF AloneInv
  <2>1. \A c \in Actors : UsesTmp(c)' => UsesTmp(c)
    <3>1. UsesTmp(a)' => UsesTmp(a)
      BY <1>1, <1>3 DEF UsesTmp
    <3>2. \A c \in Actors \ {a} : UsesTmp(c)' => UsesTmp(c)
      BY <1>3 DEF UsesTmp
    <3> QED
      BY <3>1, <3>2
  <2>2. /\ \A c \in Actors \ {b} : ~UsesTmp(c)
        /\ IF At(b, "filling") THEN task[b].to = "tmp" /\ tmp = "empty" ELSE tmp = task[b].cfg
    BY <2>1 DEF Inv, AloneInv
  <2>3. CASE b = a
    <3>1. hostOk /\ task'[a].cfg = task[a].cfg /\ ~At(a, "filling")'
      BY <1>3, <2>3 DEF At
    <3>2. task[a].to = "tmp" /\ tmp = "empty"
      BY <1>1, <2>2, <2>3 DEF At
    <3>3. ~Shared(a)
      <4> SUFFICES ASSUME NEW c \in Actors \ {a}, At(c, "filling"), task[c].to = "tmp"
                   PROVE  FALSE
        BY <3>2 DEF Shared
      <4>1. task[c].kind # "deploy"
        BY DEF Inv, TaskInv, Fits, At
      <4> QED
        BY <2>2, <2>3, <4>1 DEF UsesTmp, At
    <3>4. Filled(a, tmp) = {task[a].cfg}
      BY <3>1, <3>2, <3>3 DEF Filled
    <3>5. tmp' = task[a].cfg
      BY <3>2, <3>4 DEF Fill
    <3> QED
      BY <2>1, <2>2, <2>3, <3>1, <3>5
  <2>4. CASE b # a
    <3>1. ~UsesTmp(a)
      BY <2>2, <2>4
    <3>2. task[a].to # "tmp"
      BY <1>1, <1>2, <3>1 DEF UsesTmp
    <3>3. tmp' = tmp /\ task'[b] = task[b]
      BY <1>3, <1>5, <2>4, <3>2
    <3> QED
      BY <2>1, <2>2, <3>3 DEF At
  <2> QED
    BY <2>3, <2>4
<1>8. TypeOK'
  <2>1. tmp' \in Content \ {"edited"}
    BY <1>1, <1>5, ConfigAssumption DEF Inv, TypeOK, Content
  <2>2. live' \in Content
    BY <1>1, <1>5 DEF Inv, TypeOK, Content
  <2> QED
    BY <1>3, <2>1, <2>2 DEF Fill, Inv, TypeOK, rowVars, hostVars
<1>9. RowInv'
  BY RowsSame DEF Fill
<1> QED
  BY <1>3, <1>6, <1>7, <1>8, <1>9 DEF Inv

\* nginx -t.
LEMMA TestInv ==
  ASSUME Inv, NEW a \in Actors, TestPasses(a) \/ TestFails(a)
  PROVE  Inv'
<1>0. /\ task[a].at = "written" /\ task[a].at \in Place /\ task[a].cfg \in Configs
      /\ task[a].kind # "deploy" /\ UsesTmp(a)
  BY DEF TestPasses, TestFails, At, UsesTmp, Inv, TaskInv, Fits, Place
<1>1. CASE TestPasses(a)
  <2>1. task' \in [Actors -> Task] /\ TaskInv' /\ FileInv' /\ AloneInv'
    BY <1>0, <1>1, GoesOn DEF TestPasses, Place
  <2> QED
    BY <1>1, <2>1, RowsSame DEF TestPasses, Inv, TypeOK, fileVars, rowVars, hostVars
<1>2. CASE TestFails(a) /\ UNCHANGED tmp /\ Become(a, Idle)
  <2>1. UNCHANGED fileVars
    BY <1>2 DEF TestFails, fileVars
  <2>2. task' \in [Actors -> Task] /\ TaskInv' /\ FileInv' /\ AloneInv'
    BY <1>2, <2>1, Ends
  <2> QED
    BY <1>2, <2>1, <2>2, RowsSame DEF TestFails, Inv, TypeOK, fileVars, rowVars, hostVars
<1>3. CASE /\ TestFails(a) /\ tmp' = "absent"
           /\ task' = [Follow(task, WhenRemoved) EXCEPT ![a] = Idle]
  <2>1. /\ task' \in [Actors -> Task] /\ TaskInv' /\ task'[a] = Idle
        /\ \A b \in Actors \ {a} :
             /\ task'[b].at = task[b].at
             /\ At(b, "filling") =>
                  /\ task'[b].kind = task[b].kind /\ task'[b].cfg = task[b].cfg
                  /\ task'[b].to = WhenRemoved[task[b].to]
             /\ ~At(b, "filling") => task'[b] = task[b]
    BY <1>3, NewTask, FollowInv DEF Inv
  <2>2. live' = live /\ renamed' = renamed /\ alone' = alone
    BY <1>3 DEF TestFails
  <2>3. FileInv'
    <3>1. ASSUME NEW b \in Actors, FillsLive(b)'
          PROVE  FillsLive(b) /\ task'[b].kind = task[b].kind
      <4>1. b # a /\ task'[b].at = "filling" /\ task'[b].to = "live"
        BY <2>1, <3>1, NewTask DEF FillsLive, At
      <4>2. At(b, "filling") /\ task'[b].to = WhenRemoved[task[b].to] /\ task'[b].kind = task[b].kind
        BY <2>1, <4>1 DEF At
      <4>3. task[b].to \in {"tmp", "live", "gone"}
        BY <4>2, TaskAt DEF At, Inv, TypeOK
      <4> QED
        BY <4>1, <4>2, <4>3, Names DEF FillsLive
    <3> QED
      BY <1>3, <2>2, <3>1 DEF Inv, FileInv, RenamedIsAccepted
  <2>4. AloneInv'
    <3>1. ~UsesTmp(a)'
      BY <2>1, NewTask DEF UsesTmp
    <3>2. \A b \in Actors \ {a} : UsesTmp(b)' => UsesTmp(b)
      BY <2>1 DEF UsesTmp, At
    <3>3. \A b \in Actors : alone = b /\ UsesTmp(b)' => FALSE
      BY <1>0, <3>1, <3>2 DEF Inv, AloneInv
    <3> QED
      BY <2>2, <3>3 DEF AloneInv
  <2>5. tmp' \in Content \ {"edited"}
    BY <1>3 DEF Content
  <2>6. TypeOK'
    BY <1>3, <2>1, <2>2, <2>5 DEF TestFails, Inv, TypeOK, rowVars, hostVars
  <2>7. RowInv'
    BY <1>3, RowsSame DEF TestFails
  <2> QED
    BY <2>1, <2>3, <2>4, <2>6, <2>7 DEF Inv
<1> QED
  BY <1>1, <1>2, <1>3 DEF TestFails

\* The rename.
LEMMA RenameInv ==
  ASSUME Inv, NEW a \in Actors, Swap(a), Rename(a)
  PROVE  Inv'
<1>0. /\ task[a].at \in {"tested", "persisted"} /\ task[a].at \in Place
      /\ task[a].cfg \in Configs /\ task[a].kind # "deploy" /\ UsesTmp(a)
  BY DEF Swap, At, UsesTmp, Inv, TaskInv, Fits, Place
<1> DEFINE t == Went(a, "placed")
<1>1. t \in Task /\ Fits(t) /\ t.at = "placed"
  BY <1>0, WentFits DEF Inv, Place
<1>2. task' = [Follow(task, WhenRenamed) EXCEPT ![a] = t]
  BY DEF Rename
<1> HIDE DEF t
<1>3. /\ task' \in [Actors -> Task] /\ TaskInv' /\ task'[a] = t
      /\ \A b \in Actors \ {a} :
           /\ task'[b].at = task[b].at
           /\ At(b, "filling") =>
                /\ task'[b].kind = task[b].kind /\ task'[b].cfg = task[b].cfg
                /\ task'[b].to = WhenRenamed[task[b].to]
           /\ ~At(b, "filling") => task'[b] = task[b]
  BY <1>1, <1>2, FollowInv DEF Inv
<1>4. /\ live' = tmp /\ tmp # "absent" /\ tmp' = "absent" /\ alone' = alone
      /\ renamed' = IF alone = a THEN "alone" ELSE "contested"
  BY DEF Rename
<1>5. tmp \in Pieces
  BY <1>4 DEF Inv, FileInv
<1>6. alone = a => /\ \A b \in Actors \ {a} : ~UsesTmp(b)
                   /\ tmp \in Accepted
  <2>1. task[a].cfg \in Accepted
    BY <1>0 DEF Inv, TaskInv, Fits
  <2> QED
    BY <1>0, <2>1 DEF Inv, AloneInv, At
<1>7. FileInv'
  <2>1. RenamedIsAccepted'
    BY <1>4, <1>5, <1>6 DEF RenamedIsAccepted, Pieces
  <2>2. ASSUME NEW b \in Actors, FillsLive(b)'
        PROVE  renamed' # "alone" /\ task'[b].kind # "deploy"
    <3>1. b # a /\ task'[b].at = "filling" /\ task'[b].to = "live"
      BY <1>1, <1>3, <2>2 DEF FillsLive, At
    <3>2. /\ At(b, "filling") /\ task'[b].to = WhenRenamed[task[b].to]
          /\ task'[b].kind = task[b].kind
      BY <1>3, <3>1 DEF At
    <3>3. task[b].to \in {"tmp", "live", "gone"}
      BY <3>2, TaskAt DEF At, Inv, TypeOK
    <3>4. task[b].to = "tmp"
      BY <3>1, <3>2, <3>3, Names
    <3>5. task[b].kind # "deploy"
      BY <3>2, <3>4 DEF Inv, TaskInv, Fits, At
    <3>6. UsesTmp(b)
      BY <3>2, <3>5 DEF UsesTmp, At
    <3> QED
      BY <1>4, <1>6, <3>1, <3>2, <3>5, <3>6
  <2> QED
    BY <1>4, <2>1, <2>2 DEF FileInv
<1>8. AloneInv'
  <2>1. ~UsesTmp(a)'
    BY <1>1, <1>3 DEF UsesTmp
  <2>2. \A b \in Actors \ {a} : UsesTmp(b)' => UsesTmp(b)
    BY <1>3 DEF UsesTmp, At
  <2>3. \A b \in Actors : alone = b /\ UsesTmp(b)' => FALSE
    BY <1>0, <2>1, <2>2 DEF Inv, AloneInv
  <2> QED
    BY <1>4, <2>3 DEF AloneInv
<1>9. TypeOK'
  <2>1. live' \in Content /\ tmp' \in Content \ {"edited"}
    BY <1>4 DEF Inv, TypeOK, Content
  <2> QED
    BY <1>3, <1>4, <2>1 DEF Rename, Inv, TypeOK, rowVars, hostVars
<1>10. RowInv'
  BY RowsSame DEF Rename
<1> QED
  BY <1>3, <1>7, <1>8, <1>9, <1>10 DEF Inv

LEMMA SwapInv ==
  ASSUME Inv, NEW a \in Actors, Swap(a) \/ Finish(a)
  PROVE  Inv'
<1>1. CASE Swap(a) /\ Rename(a)
  BY <1>1, RenameInv
<1>2. CASE RenameFails(a) \/ Finish(a)
  <2>1. Become(a, Idle) /\ UNCHANGED <<fileVars, container, rowVars, hostVars, sole>>
    BY <1>2 DEF RenameFails, Finish
  <2>2. task' \in [Actors -> Task] /\ TaskInv' /\ FileInv' /\ AloneInv'
    BY <2>1, Ends
  <2> QED
    BY <2>1, <2>2, RowsSame DEF Inv, TypeOK, fileVars, rowVars, hostVars
<1> QED
  BY <1>1, <1>2 DEF Swap

-----------------------------------------------------------------------------
\* nginx.deploy.
LEMMA OpenLiveInv ==
  ASSUME Inv, NEW a \in Actors, OpenLive(a)
  PROVE  Inv'
<1>0. task[a].at = "persisted" /\ task[a].at \in Place /\ task[a].kind = "deploy" /\ task[a].cfg \in Configs
  BY DEF OpenLive, At, Inv, TaskInv, Fits, Place
<1>1. CASE ~hostOk
  <2>1. Advance(a, "placed") /\ UNCHANGED fileVars
    BY <1>1 DEF OpenLive, fileVars
  <2>2. task' \in [Actors -> Task] /\ TaskInv' /\ FileInv' /\ AloneInv'
    BY <1>0, <2>1, GoesOn DEF Place
  <2> QED
    BY <2>1, <2>2, RowsSame DEF OpenLive, Inv, TypeOK, fileVars, rowVars, hostVars
<1>2. CASE hostOk
  <2> DEFINE t == [at |-> "filling", to |-> "live", kind |-> "deploy", cfg |-> task[a].cfg]
  <2>1. t \in Task /\ Fits(t) /\ t.at = "filling" /\ t.to = "live" /\ t.kind = "deploy"
    BY <1>0, NewFiller
  <2>2. Become(a, t) /\ live' = "empty" /\ renamed' = "no" /\ tmp' = tmp /\ alone' = alone
    BY <1>2 DEF OpenLive
  <2> HIDE DEF t
  <2>3. /\ task' \in [Actors -> Task] /\ TaskInv' /\ task'[a] = t
        /\ \A b \in Actors \ {a} : task'[b] = task[b]
    BY <2>1, <2>2, BecomeInv DEF Inv
  <2>4. FileInv'
    BY <2>2 DEF Inv, FileInv, RenamedIsAccepted
  <2>5. AloneInv'
    <3>1. ~UsesTmp(a)' /\ \A b \in Actors \ {a} : UsesTmp(b)' <=> UsesTmp(b)
      BY <2>1, <2>3 DEF UsesTmp
    <3>2. \A b \in Actors \ {a} : At(b, "filling")' <=> At(b, "filling")
      BY <2>3 DEF At
    <3> QED
      BY <2>2, <2>3, <3>1, <3>2 DEF Inv, AloneInv
  <2>6. TypeOK'
    BY <2>2, <2>3 DEF OpenLive, Inv, TypeOK, Content, rowVars, hostVars
  <2>7. RowInv'
    BY RowsSame DEF OpenLive
  <2> QED
    BY <2>3, <2>4, <2>5, <2>6, <2>7 DEF Inv
<1> QED
  BY <1>1, <1>2 DEF Inv, TypeOK

LEMMA DeployInv ==
  ASSUME Inv, NEW a \in Slots,
         \/ \E c \in Configs \union {"absent"} : BeginDeploy(a, c)
         \/ RemoveContainer(a) \/ RunContainer(a) \/ OpenLive(a)
  PROVE  Inv'
<1>0. a \in Actors
  BY DEF Actors
<1>1. ASSUME NEW c \in Configs \union {"absent"}, BeginDeploy(a, c)
      PROVE  Inv'
  <2> DEFINE t == [at |-> "stopped", kind |-> "deploy", cfg |-> c]
  <2>1. t \in Task /\ Fits(t) /\ t.at = "stopped"
    BY NewTask
  <2>2. Become(a, t) /\ sole' \in Actors \union {"none"} /\ UNCHANGED fileVars
    BY <1>0, <1>1 DEF BeginDeploy, Begin, Start
  <2> HIDE DEF t
  <2>3. /\ task' \in [Actors -> Task] /\ TaskInv' /\ task'[a] = t
        /\ \A b \in Actors \ {a} : task'[b] = task[b]
    BY <1>0, <2>1, <2>2, BecomeInv DEF Inv
  <2>4. FileInv' /\ AloneInv'
    BY <1>0, <2>1, <2>2, <2>3, Calm DEF UsesTmp
  <2>5. container' \in {"absent", "exited", "running"}
    BY <1>1 DEF BeginDeploy, Inv, TypeOK
  <2> QED
    BY <1>1, <2>2, <2>3, <2>4, <2>5, RowsSame DEF BeginDeploy, Inv, TypeOK, fileVars, rowVars, hostVars
<1>2. CASE RemoveContainer(a)
  <2>1. task[a].at \in Place /\ task[a].kind = "deploy" /\ UNCHANGED fileVars
    BY <1>0, <1>2 DEF RemoveContainer, At, Inv, TaskInv, Fits, Place
  <2>2. task' \in [Actors -> Task] /\ TaskInv' /\ FileInv' /\ AloneInv'
    BY <1>0, <1>2, <2>1, GoesOn DEF RemoveContainer, Place
  <2>3. container' \in {"absent", "exited", "running"}
    BY <1>2 DEF RemoveContainer, Inv, TypeOK
  <2> QED
    BY <1>2, <2>2, <2>3, RowsSame DEF RemoveContainer, Inv, TypeOK, fileVars, rowVars, hostVars
<1>3. CASE RunContainer(a)
  <2>1. task[a].at \in Place /\ task[a].kind = "deploy" /\ UNCHANGED fileVars
    BY <1>0, <1>3 DEF RunContainer, At, Inv, TaskInv, Fits, Place
  <2>2. ASSUME Advance(a, "running"), task[a].cfg # "absent"
        PROVE  task' \in [Actors -> Task] /\ TaskInv' /\ FileInv' /\ AloneInv'
    <3> task[a].cfg \in Configs
      BY <1>0, <2>1, <2>2, TaskAt DEF Inv, TypeOK
    <3> QED
      BY <1>0, <2>1, <2>2, GoesOn DEF Place
  <2>3. task' \in [Actors -> Task] /\ TaskInv' /\ FileInv' /\ AloneInv'
    BY <1>0, <1>3, <2>1, <2>2, Ends DEF RunContainer
  <2>4. container' \in {"absent", "exited", "running"}
    BY <1>3 DEF RunContainer, Run, Inv, TypeOK
  <2> QED
    BY <1>3, <2>3, <2>4, RowsSame DEF RunContainer, Inv, TypeOK, fileVars, rowVars, hostVars
<1> QED
  BY <1>0, <1>1, <1>2, <1>3, OpenLiveInv

-----------------------------------------------------------------------------
\* A step of the watchdog that opens no file.
LEMMA WatchdogGoes ==
  ASSUME Inv, UNCHANGED <<fileVars, rowVars, hostVars>>, NEW t \in Task, Fits(t), Become(Watchdog, t),
         t.at \in {"idle", "selecting", "selected", "redeploying"},
         container' \in {"absent", "exited", "running"}, sole' \in Actors \union {"none"}
  PROVE  Inv'
<1>1. Watchdog \in Actors
  BY DEF Actors
<1>2. /\ task' \in [Actors -> Task] /\ TaskInv' /\ task'[Watchdog] = t
      /\ \A b \in Actors \ {Watchdog} : task'[b] = task[b]
  BY <1>1, BecomeInv DEF Inv
<1>3. FileInv' /\ AloneInv'
  BY <1>1, <1>2, Calm DEF UsesTmp
<1> QED
  BY <1>2, <1>3, RowsSame DEF Inv, TypeOK, fileVars, rowVars, hostVars

LEMMA CheckGoes ==
  ASSUME Inv, Check
  PROVE  /\ UNCHANGED <<fileVars, container, rowVars, hostVars>>
         /\ \E t \in Task : /\ Fits(t) /\ Become(Watchdog, t) /\ Start(Watchdog)
                           /\ t.at \in {"selecting", "redeploying"}
  BY NewTask, ConfigAssumption DEF Check, BeginRestore, Begin

LEMMA SelectGoes ==
  ASSUME Inv, Select
  PROVE  /\ UNCHANGED <<fileVars, container, rowVars, hostVars, sole>>
         /\ task[Watchdog].at = "selecting"
         /\ \E t \in Task : Fits(t) /\ Become(Watchdog, t) /\ t.at \in {"selected", "idle"}
<1>1. ASSUME NEW c \in Accepted, Become(Watchdog, [at |-> "selected", kind |-> "restore", cfg |-> c])
      PROVE  \E t \in Task : Fits(t) /\ Become(Watchdog, t) /\ t.at \in {"selected", "idle"}
  <2> DEFINE t == [at |-> "selected", kind |-> "restore", cfg |-> c]
  <2>1. t \in Task /\ Fits(t) /\ t.at = "selected"
    BY NewTask
  <2> HIDE DEF t
  <2> QED
    BY <1>1, <2>1 DEF t
<1> QED
  BY <1>1, NewTask DEF Select, At

LEMMA RedeployGoes ==
  ASSUME Inv, Redeploy
  PROVE  /\ UNCHANGED <<fileVars, rowVars, hostVars, sole>>
         /\ task[Watchdog].at = "redeploying"
         /\ container' \in {"absent", "exited", "running"}
         /\ \E t \in Task : Fits(t) /\ Become(Watchdog, t) /\ t.at \in {"redeploying", "idle"}
<1>1. Watchdog \in Actors
  BY DEF Actors
<1>2. task[Watchdog] \in [at : {"redeploying"}, n : 1 .. MaxRedeploys]
  BY <1>1, TaskAt DEF Redeploy, At, Inv, TypeOK
<1>3. task[Watchdog].n # MaxRedeploys =>
        [task[Watchdog] EXCEPT !.n = @ + 1] \in [at : {"redeploying"}, n : 1 .. MaxRedeploys]
  BY <1>2, ConfigAssumption
<1>4. container' \in {"absent", "exited", "running"}
  BY DEF Redeploy, Run, Inv, TypeOK
<1>5. \/ Become(Watchdog, Idle)
      \/ /\ task[Watchdog].n # MaxRedeploys
         /\ Become(Watchdog, [task[Watchdog] EXCEPT !.n = @ + 1])
  BY DEF Redeploy
<1> QED
  BY <1>2, <1>3, <1>4, <1>5, NewTask DEF Redeploy

LEMMA RestoreGoes ==
  ASSUME Inv, Restore
  PROVE  /\ task[Watchdog].at = "selected" /\ UNCHANGED sole
         /\ \/ OpenTmp(Watchdog, task[Watchdog].cfg, "restore") /\ task[Watchdog].cfg \in Accepted
            \/ Become(Watchdog, Idle) /\ UNCHANGED <<fileVars, container, rowVars, hostVars>>
<1>1. Watchdog \in Actors
  BY DEF Actors
<1> QED
  BY <1>1 DEF Restore, At, Inv, TaskInv, Fits, Place

LEMMA WatchdogInv ==
  ASSUME Inv, Check \/ Select \/ Restore \/ Redeploy
  PROVE  Inv'
<1>1. Watchdog \in Actors /\ sole \in Actors \union {"none"} /\ container \in {"absent", "exited", "running"}
  BY DEF Actors, Inv, TypeOK
<1>2. CASE Check
  BY <1>1, <1>2, CheckGoes, WatchdogGoes DEF Start
<1>3. CASE Select
  BY <1>1, <1>3, SelectGoes, WatchdogGoes
<1>4. CASE Redeploy
  BY <1>1, <1>4, RedeployGoes, WatchdogGoes
<1>5. CASE Restore
  <2>1. CASE OpenTmp(Watchdog, task[Watchdog].cfg, "restore") /\ task[Watchdog].cfg \in Accepted
    <3>1. ~UsesTmp(Watchdog) /\ sole' \in Actors \union {"none"}
      BY <1>1, <1>5, RestoreGoes DEF UsesTmp
    <3> QED
      BY <1>1, <2>1, <3>1, OpenTmpInv
  <2>2. CASE Become(Watchdog, Idle) /\ UNCHANGED <<fileVars, container, rowVars, hostVars>>
    BY <1>1, <1>5, <2>2, RestoreGoes, NewTask, WatchdogGoes
  <2> QED
    BY <1>5, <2>1, <2>2, RestoreGoes
<1> QED
  BY <1>2, <1>3, <1>4, <1>5

LEMMA EnvironmentInv ==
  ASSUME Inv, HostFlips \/ Edit \/ ContainerRestarts \/ AgentStops \/ AgentStarts
  PROVE  Inv'
<1> USE DEF Inv
<1>1. CASE HostFlips \/ ContainerRestarts \/ AgentStarts
  <2>1. UNCHANGED <<fileVars, rowVars, task, sole>>
    BY <1>1 DEF HostFlips, ContainerRestarts, AgentStarts
  <2>2. TaskInv' /\ RowInv'
    BY <2>1, RowsSame DEF TaskInv
  <2>3. FileInv' /\ AloneInv'
    BY <2>1 DEF FileInv, AloneInv, RenamedIsAccepted, FillsLive, UsesTmp, At, fileVars
  <2>4. TypeOK'
    BY <1>1, <2>1
    DEF HostFlips, ContainerRestarts, AgentStarts, TypeOK, fileVars, rowVars, hostVars
  <2> QED
    BY <2>2, <2>3, <2>4
<1>2. CASE Edit
  <2>1. UNCHANGED <<tmp, alone, task>> /\ live' = "edited" /\ renamed' = "no"
    BY <1>2 DEF Edit
  <2>2. TaskInv' /\ RowInv'
    BY <1>2, <2>1, RowsSame DEF Edit, TaskInv
  <2>3. FileInv'
    BY <2>1 DEF FileInv, RenamedIsAccepted
  <2>4. AloneInv'
    BY <2>1 DEF AloneInv, UsesTmp, At
  <2>5. TypeOK'
    BY <1>2 DEF Edit, TypeOK, Content, rowVars, hostVars
  <2> QED
    BY <2>2, <2>3, <2>4, <2>5
<1>3. CASE AgentStops
  <2>1. /\ UNCHANGED <<fileVars, rowVars, container, hostOk, sole>>
        /\ up' = FALSE /\ task' = [a \in Actors |-> Idle]
    BY <1>3 DEF AgentStops
  <2>2. \A a \in Actors : task'[a] = Idle /\ ~UsesTmp(a)' /\ ~FillsLive(a)'
    BY <2>1, NewTask DEF UsesTmp, FillsLive, At
  <2>3. task' \in [Actors -> Task] /\ TaskInv'
    BY <2>1, <2>2, NewTask DEF TaskInv
  <2>4. FileInv' /\ AloneInv' /\ RowInv'
    BY <2>1, <2>2, RowsSame DEF FileInv, AloneInv, RenamedIsAccepted, fileVars
  <2>5. TypeOK'
    BY <2>1, <2>3 DEF TypeOK, fileVars, rowVars
  <2> QED
    BY <2>3, <2>4, <2>5
<1> QED
  BY <1>1, <1>2, <1>3

LEMMA NextInv == Inv /\ [Next]_vars => Inv'
<1> SUFFICES ASSUME Inv, [Next]_vars PROVE Inv'
  OBVIOUS
<1>1. CASE UNCHANGED vars
  <2> USE <1>1 DEF vars, Inv, fileVars, rowVars, hostVars
  <2>1. TypeOK' /\ TaskInv'
    BY DEF TypeOK, TaskInv
  <2>2. FileInv' /\ AloneInv'
    BY DEF FileInv, AloneInv, RenamedIsAccepted, FillsLive, UsesTmp, At
  <2> QED
    BY <2>1, <2>2, RowsSame
<1>2. ASSUME NEW a \in Slots, CommandBegins(a) \/ CommandStep(a)
      PROVE  Inv'
  <2>1. a \in Actors
    BY DEF Actors
  <2>2. CASE CommandBegins(a)
    BY <2>2, UpdateBegins, DeployInv DEF CommandBegins
  <2>3. CASE CommandStep(a)
    BY <2>1, <2>3, PersistInv, FillInv, TestInv, SwapInv, DeployInv DEF CommandStep
  <2> QED
    BY <1>2, <2>2, <2>3
<1>3. CASE WatchdogStep
  BY <1>3, WatchdogInv, FillInv, TestInv, SwapInv DEF WatchdogStep, Actors
<1> QED
  BY <1>1, <1>2, <1>3, WatchdogInv, EnvironmentInv DEF Next

-----------------------------------------------------------------------------
\* What a step of a task leaves to be shown when nobody else is under way.
LEMMA Stepping ==
  ASSUME LoneInv, NEW a \in Actors, ~At(a, "idle"), UNCHANGED sole,
         \A b \in Actors \ {a} : At(b, "idle") => At(b, "idle")',
         sole = a /\ Achieved(a) => Achieved(a)'
  PROVE  LoneInv'
  BY DEF LoneInv, Actors

LEMMA Beginning ==
  ASSUME LoneInv, NEW a \in Actors, Start(a),
         \A b \in Actors \ {a} : task'[b] = task[b],
         a \in Slots /\ Quiet(Actors) => Achieved(a)'
  PROVE  LoneInv'
  BY ConfigAssumption DEF Start, Quiet, LoneInv, At, Actors

LEMMA StoredSame == ASSUME NEW c, UNCHANGED rowVars PROVE StoredLast(c)' <=> StoredLast(c)
  BY DEF StoredLast, IsNewest, rowVars

LEMMA Ending ==
  ASSUME Inv, LoneInv, NEW a \in Actors, ~At(a, "idle"), UNCHANGED sole, Become(a, Idle)
  PROVE  LoneInv'
<1>1. task'[a].at = "idle" /\ \A b \in Actors \ {a} : task'[b] = task[b]
  BY EndInv DEF Inv
<1>2. Achieved(a)'
  BY <1>1 DEF Achieved, UsesTmp, Place
<1> QED
  BY <1>1, <1>2, Stepping DEF At

\* A step of the watchdog does not disturb a lone command: it is not alone.
LEMMA WatchdogLone ==
  ASSUME LoneInv, \A b \in Actors \ {Watchdog} : At(b, "idle") => At(b, "idle")',
         (~At(Watchdog, "idle") /\ UNCHANGED sole) \/ Start(Watchdog)
  PROVE  LoneInv'
<1>1. Watchdog \in Actors /\ Watchdog \notin Slots
  BY ConfigAssumption DEF Actors, Watchdog
<1> QED
  BY <1>1, ConfigAssumption DEF LoneInv, Start, Actors

\* The newest row stays the newest through a cleanup.
LEMMA PurgeKeeps ==
  ASSUME NEW c, StoredLast(c), rows' \in {rows, {r \in rows : IsNewest(r)}}
  PROVE  StoredLast(c)'
<1>1. PICK r \in rows : IsNewest(r) /\ r.cfg = c
  BY DEF StoredLast
<1>2. r \in rows' /\ rows' \subseteq rows
  BY <1>1
<1>3. IsNewest(r)'
  BY <1>1, <1>2 DEF IsNewest
<1> QED
  BY <1>1, <1>2, <1>3 DEF StoredLast

\* A row that is inserted is the newest.
LEMMA InsertStores ==
  ASSUME Inv, NEW c, inserts' = inserts + 1, rows' = rows \union {[at |-> inserts', cfg |-> c]}
  PROVE  StoredLast(c)'
<1> DEFINE new == [at |-> inserts', cfg |-> c]
<1>1. new \in rows' /\ rows' = rows \union {new} /\ new.cfg = c /\ new.at = inserts'
  OBVIOUS
<1>2. inserts \in Nat /\ \A r \in rows : r.at <= inserts /\ r.at \in Nat
  BY ConfigAssumption DEF Inv, TypeOK, RowInv, Row
<1> HIDE DEF new
<1>3. \A x \in rows' : x.at <= new.at
  BY <1>1, <1>2
<1> QED
  BY <1>1, <1>3 DEF StoredLast, IsNewest

-----------------------------------------------------------------------------
LEMMA PersistLone ==
  ASSUME Inv, LoneInv, NEW a \in Actors, Insert(a) \/ Purge(a) \/ PersistEnds(a)
  PROVE  LoneInv'
<1>0. /\ ~At(a, "idle") /\ UNCHANGED <<sole, fileVars>>
      /\ task[a].at \in Place \ {"stopped", "removed"} /\ task[a].cfg \in Configs
  BY Persisting DEF Insert, Purge, PersistEnds, At
<1>1. CASE Insert(a)
  <2>1. /\ task'[a].at = "inserted" /\ task'[a].kind = task[a].kind /\ task'[a].cfg = task[a].cfg
        /\ \A b \in Actors \ {a} : task'[b] = task[b]
    BY <1>0, <1>1, AdvanceInv DEF Insert, Inv, Place
  <2>2. StoredLast(task[a].cfg)'
    <3>1. \A c : c = task[a].cfg => StoredLast(c)'
      BY <1>1, InsertStores DEF Insert
    <3> QED
      BY <2>1, <3>1 DEF StoredLast
  <2>3. UsesTmp(a)' => UsesTmp(a)
    BY <1>0, <1>1, <2>1 DEF Insert, UsesTmp, At, Inv, TaskInv, Fits
  <2>4. Achieved(a) => Achieved(a)'
    BY <1>0, <2>1, <2>2, <2>3 DEF Achieved, At, fileVars
  <2> QED
    BY <1>0, <2>1, <2>4, Stepping DEF At
<1>2. CASE Purge(a)
  <2>1. /\ task'[a].at = "persisted" /\ task'[a].kind = task[a].kind /\ task'[a].cfg = task[a].cfg
        /\ \A b \in Actors \ {a} : task'[b] = task[b]
    BY <1>0, <1>2, AdvanceInv DEF Purge, Inv, Place
  <2>2. StoredLast(task[a].cfg) => StoredLast(task[a].cfg)'
    <3>1. \A c : StoredLast(c) => StoredLast(c)'
      BY <1>2, PurgeKeeps DEF Purge
    <3> QED
      BY <2>1, <3>1 DEF StoredLast
  <2>3. At(a, "inserted") /\ (UsesTmp(a)' => UsesTmp(a))
    BY <1>2, <2>1 DEF Purge, UsesTmp, At
  <2>4. Achieved(a) => Achieved(a)'
    BY <1>0, <2>1, <2>2, <2>3 DEF Achieved, At, fileVars
  <2> QED
    BY <1>0, <2>1, <2>4, Stepping DEF At
<1>3. CASE PersistEnds(a)
  BY <1>0, <1>3, Ending DEF PersistEnds
<1> QED
  BY <1>1, <1>2, <1>3

LEMMA FillLone ==
  ASSUME Inv, LoneInv, NEW a \in Slots, Fill(a)
  PROVE  LoneInv'
<1>0. a \in Actors /\ ~At(a, "idle") /\ UNCHANGED <<sole, alone, rowVars>>
  BY DEF Fill, At, Actors
<1>1. task[a] \in [at : {"filling"}, kind : Kind, cfg : Configs, to : {"tmp", "live", "gone"}]
  BY <1>0, TaskAt DEF Fill, At, Inv, TypeOK
<1>2. CASE Become(a, Idle)
  BY <1>0, <1>2, Ending
<1>3. ASSUME NEW p \in {"placed", "written"}, Advance(a, p), p = "placed" <=> task[a].kind = "deploy"
      PROVE  LoneInv'
  <2>1. /\ task'[a].at = p /\ task'[a].kind = task[a].kind /\ task'[a].cfg = task[a].cfg
        /\ \A b \in Actors \ {a} : task'[b] = task[b]
    BY <1>0, <1>1, <1>3, AdvanceInv DEF Inv, Place
  <2>2. UsesTmp(a)' => UsesTmp(a)
    BY <1>1, <1>3, <2>1 DEF UsesTmp
  <2>3. Achieved(a) => Achieved(a)'
    BY <1>0, <1>3, <2>1, <2>2 DEF Achieved, At
  <2> QED
    BY <1>0, <2>1, <2>3, Stepping DEF At
<1> QED
  BY <1>2, <1>3 DEF Fill

LEMMA TestLone ==
  ASSUME Inv, LoneInv, NEW a \in Actors, TestPasses(a) \/ TestFails(a)
  PROVE  LoneInv'
<1>0. /\ ~At(a, "idle") /\ UNCHANGED <<sole, alone>> /\ UsesTmp(a)
      /\ task[a].at = "written" /\ task[a].at \in Place /\ task[a].cfg \in Configs
      /\ task[a].kind # "deploy"
  BY DEF TestPasses, TestFails, At, UsesTmp, Inv, TaskInv, Fits, Place, fileVars
<1>1. CASE TestPasses(a)
  <2>1. /\ task'[a].at = "tested" /\ \A b \in Actors \ {a} : task'[b] = task[b]
    BY <1>0, <1>1, AdvanceInv DEF TestPasses, Inv, Place
  <2>2. Achieved(a) => Achieved(a)'
    BY <1>0, <2>1 DEF Achieved, At
  <2> QED
    BY <1>0, <2>1, <2>2, Stepping DEF At
<1>2. CASE TestFails(a) /\ Become(a, Idle)
  BY <1>0, <1>2, Ending
<1>3. CASE task' = [Follow(task, WhenRemoved) EXCEPT ![a] = Idle]
  <2>1. task'[a] = Idle /\ \A b \in Actors \ {a} : task'[b].at = task[b].at
    BY <1>3, NewTask, FollowInv DEF Inv
  <2>2. Achieved(a)'
    BY <2>1, NewTask DEF Achieved, UsesTmp, Place
  <2> QED
    BY <1>0, <2>1, <2>2, Stepping DEF At
<1> QED
  BY <1>1, <1>2, <1>3 DEF TestFails

LEMMA SwapLone ==
  ASSUME Inv, LoneInv, NEW a \in Actors, Swap(a) \/ Finish(a)
  PROVE  LoneInv'
<1>0. ~At(a, "idle") /\ UNCHANGED <<sole, rowVars>>
  BY DEF Swap, Rename, RenameFails, Finish, At
<1>1. CASE Become(a, Idle)
  BY <1>0, <1>1, Ending
<1>2. CASE Swap(a) /\ Rename(a)
  <2>0. /\ task[a].at \in {"tested", "persisted"} /\ task[a].at \in Place
        /\ task[a].cfg \in Configs /\ task[a].kind # "deploy" /\ UsesTmp(a)
        /\ task[a].kind = "update" => At(a, "persisted")
    BY <1>2 DEF Swap, At, UsesTmp, Inv, TaskInv, Fits, Place
  <2> DEFINE t == Went(a, "placed")
  <2>1. /\ t \in Task /\ Fits(t) /\ t.at = "placed"
        /\ t.kind = task[a].kind /\ t.cfg = task[a].cfg
    BY <2>0, WentFits DEF Inv, Place
  <2>2. task' = [Follow(task, WhenRenamed) EXCEPT ![a] = t] /\ live' = tmp
    BY <1>2 DEF Rename
  <2> HIDE DEF t
  <2>3. task'[a] = t /\ \A b \in Actors \ {a} : task'[b].at = task[b].at
    BY <2>1, <2>2, FollowInv DEF Inv
  <2>4. alone = a => tmp = task[a].cfg
    BY <2>0 DEF Inv, AloneInv, At
  <2>5. StoredLast(task[a].cfg) => StoredLast(task[a].cfg)'
    BY <1>0, <2>1, <2>3 DEF StoredLast, IsNewest, rowVars
  <2>6. ~UsesTmp(a)'
    BY <2>1, <2>3 DEF UsesTmp
  <2>7. Achieved(a) => Achieved(a)'
    BY <2>0, <2>1, <2>2, <2>3, <2>4, <2>5, <2>6 DEF Achieved, At
  <2> QED
    BY <1>0, <2>3, <2>7, Stepping DEF At
<1> QED
  BY <1>1, <1>2 DEF Swap, RenameFails, Finish

LEMMA DeployLone ==
  ASSUME Inv, LoneInv, NEW a \in Slots,
         \/ \E c \in Configs \union {"absent"} : BeginDeploy(a, c)
         \/ RemoveContainer(a) \/ RunContainer(a) \/ OpenLive(a)
  PROVE  LoneInv'
<1>0. a \in Actors
  BY DEF Actors
<1>1. ASSUME NEW c \in Configs \union {"absent"}, BeginDeploy(a, c)
      PROVE  LoneInv'
  <2> DEFINE t == [at |-> "stopped", kind |-> "deploy", cfg |-> c]
  <2>1. t \in Task /\ Fits(t) /\ t.kind = "deploy"
    BY NewTask
  <2>2. Become(a, t) /\ Start(a)
    BY <1>1 DEF BeginDeploy, Begin
  <2> HIDE DEF t
  <2>3. task'[a] = t /\ \A b \in Actors \ {a} : task'[b] = task[b]
    BY <1>0, <2>1, <2>2, BecomeInv DEF Inv
  <2>4. Achieved(a)'
    BY <2>1, <2>3 DEF Achieved, UsesTmp
  <2> QED
    BY <1>0, <2>2, <2>3, <2>4, Beginning
<1>2. ASSUME RemoveContainer(a) \/ RunContainer(a) \/ OpenLive(a)
      PROVE  LoneInv'
  <2>1. /\ ~At(a, "idle") /\ UNCHANGED sole /\ task[a].at \in Place /\ task[a].kind = "deploy"
        /\ OpenLive(a) => task[a].cfg \in Configs
    BY <1>0, <1>2 DEF RemoveContainer, RunContainer, OpenLive, At, Inv, TaskInv, Fits, Place
  <2>2. ASSUME task'[a].kind = "deploy", \A b \in Actors \ {a} : task'[b] = task[b]
        PROVE  LoneInv'
    <3> Achieved(a)'
      BY <2>2 DEF Achieved, UsesTmp
    <3> QED
      BY <1>0, <2>1, <2>2, Stepping DEF At
  <2>3. ASSUME NEW p \in {"removed", "running", "placed"}, Advance(a, p),
               p # "removed" => task[a].cfg \in Configs
        PROVE  LoneInv'
    BY <1>0, <2>1, <2>2, <2>3, AdvanceInv DEF Inv, Place
  <2>4. CASE RemoveContainer(a)
    BY <2>3, <2>4 DEF RemoveContainer
  <2>5. CASE RunContainer(a)
    <3>1. task[a].cfg # "absent" => task[a].cfg \in Configs
      BY <1>0, <2>1, TaskAt DEF Inv, TypeOK
    <3>2. Become(a, Idle) \/ (Advance(a, "running") /\ task[a].cfg # "absent")
      BY <2>5 DEF RunContainer
    <3> QED
      BY <1>0, <2>1, <2>3, <3>1, <3>2, Ending
  <2>6. CASE OpenLive(a) /\ ~hostOk
    BY <2>1, <2>3, <2>6 DEF OpenLive
  <2>7. CASE OpenLive(a) /\ hostOk
    <3> DEFINE t == [at |-> "filling", to |-> "live", kind |-> "deploy", cfg |-> task[a].cfg]
    <3>1. t \in Task /\ Fits(t) /\ t.kind = "deploy"
      BY <2>1, <2>7, NewFiller
    <3>2. Become(a, t)
      BY <2>7 DEF OpenLive
    <3> HIDE DEF t
    <3> QED
      BY <1>0, <2>2, <3>1, <3>2, BecomeInv DEF Inv
  <2> QED
    BY <1>2, <2>4, <2>5, <2>6, <2>7
<1> QED
  BY <1>1, <1>2

LEMMA UpdateLone ==
  ASSUME Inv, LoneInv, NEW a \in Slots, NEW c \in Configs, BeginUpdate(a, c)
  PROVE  LoneInv'
<1>0. a \in Actors
  BY DEF Actors
<1>1. /\ task'[a].at = "filling" /\ task'[a].kind = "update"
      /\ \A b \in Actors \ {a} : task'[b] = task[b]
  BY UpdateBegins
<1>2. ASSUME Quiet(Actors)
      PROVE  Achieved(a)'
  <2>1. \A b \in Actors : ~UsesTmp(b)
    BY <1>2 DEF Quiet, At, UsesTmp
  <2>2. alone' = a
    BY <2>1 DEF BeginUpdate, OpenTmp
  <2> QED
    BY <1>1, <2>2 DEF Achieved, Place
<1> QED
  BY <1>0, <1>1, <1>2, Beginning DEF BeginUpdate

LEMMA WatchdogStepLone ==
  ASSUME Inv, LoneInv,
         Check \/ Select \/ Restore \/ Redeploy \/ Fill(Watchdog)
  PROVE  LoneInv'
<1>0. Watchdog \in Actors
  BY DEF Actors
<1>1. (~At(Watchdog, "idle") /\ UNCHANGED sole) \/ Start(Watchdog)
  <2>1. CASE Check
    BY <2>1, CheckGoes
  <2>2. CASE Select \/ Redeploy \/ Restore
    BY <2>2, SelectGoes, RedeployGoes, RestoreGoes DEF At
  <2>3. CASE Fill(Watchdog)
    BY <2>3 DEF Fill, At
  <2> QED
    BY <2>1, <2>2, <2>3
<1>2. \E t : task' = [task EXCEPT ![Watchdog] = t]
  <2>1. CASE Check \/ Select \/ Redeploy
    BY <2>1, CheckGoes, SelectGoes, RedeployGoes DEF Become
  <2>2. CASE Restore \/ Fill(Watchdog)
    BY <2>2 DEF Restore, OpenTmp, Fill, Advance, Become
  <2> QED
    BY <2>1, <2>2
<1>3. \A b \in Actors \ {Watchdog} : task'[b] = task[b]
  BY <1>2 DEF Inv, TypeOK
<1> QED
  BY <1>1, <1>3, WatchdogLone DEF At

LEMMA EnvironmentLone ==
  ASSUME LoneInv, HostFlips \/ Edit \/ ContainerRestarts \/ AgentStops \/ AgentStarts
  PROVE  LoneInv'
<1>1. CASE HostFlips \/ ContainerRestarts \/ AgentStarts
  <2>1. UNCHANGED <<fileVars, rowVars, task, sole>>
    BY <1>1 DEF HostFlips, ContainerRestarts, AgentStarts
  <2> QED
    BY <2>1 DEF LoneInv, Achieved, UsesTmp, At, StoredLast, IsNewest, fileVars, rowVars
<1>2. CASE Edit
  BY <1>2, ConfigAssumption DEF Edit, LoneInv
<1>3. CASE AgentStops
  <2>1. \A a \in Actors : task'[a].at = "idle"
    BY <1>3, NewTask DEF AgentStops
  <2>2. \A a \in Actors : Achieved(a)'
    BY <2>1 DEF Achieved, UsesTmp, Place
  <2> QED
    BY <2>1, <2>2 DEF LoneInv, At, Actors
<1> QED
  BY <1>1, <1>2, <1>3

LEMMA NextLone == Inv /\ LoneInv /\ [Next]_vars => LoneInv'
<1> SUFFICES ASSUME Inv, LoneInv, [Next]_vars PROVE LoneInv'
  OBVIOUS
<1>1. CASE UNCHANGED vars
  BY <1>1 DEF vars, LoneInv, Achieved, UsesTmp, At, StoredLast, IsNewest, fileVars, rowVars
<1>2. ASSUME NEW a \in Slots, CommandBegins(a) \/ CommandStep(a)
      PROVE  LoneInv'
  <2>1. a \in Actors
    BY DEF Actors
  <2>2. CASE CommandBegins(a)
    BY <2>2, UpdateLone, DeployLone DEF CommandBegins
  <2>3. CASE CommandStep(a)
    BY <2>1, <2>3, PersistLone, FillLone, TestLone, SwapLone, DeployLone DEF CommandStep
  <2> QED
    BY <1>2, <2>2, <2>3
<1>3. CASE WatchdogStep
  BY <1>3, WatchdogStepLone, TestLone, SwapLone DEF WatchdogStep, Actors
<1> QED
  BY <1>1, <1>2, <1>3, WatchdogStepLone, EnvironmentLone DEF Next

-----------------------------------------------------------------------------
LEMMA InitInv == Init => Inv /\ LoneInv
<1> SUFFICES ASSUME Init PROVE Inv /\ LoneInv
  OBVIOUS
<1>1. \A a \in Actors : task[a] = Idle /\ ~UsesTmp(a) /\ ~FillsLive(a)
  BY NewTask DEF Init, UsesTmp, FillsLive, At
<1>2. TypeOK
  BY NewTask, ConfigAssumption DEF Init, TypeOK, Content
<1>3. TaskInv /\ FileInv /\ AloneInv /\ RowInv
  BY <1>1, NewTask, ConfigAssumption
  DEF Init, TaskInv, FileInv, AloneInv, RowInv, RenamedIsAccepted, NewestStays
<1>4. LoneInv
  BY ConfigAssumption DEF Init, LoneInv
<1> QED
  BY <1>2, <1>3, <1>4 DEF Inv

LEMMA Invariance == Spec => [](Inv /\ LoneInv)
  BY InitInv, NextInv, NextLone, PTL DEF Spec

(***************************************************************************)
(* The two files, the table, the container and the tasks have their types. *)
(***************************************************************************)
THEOREM TypeCorrect == Spec => []TypeOK
<1>1. Inv => TypeOK
  BY DEF Inv
<1> QED
  BY <1>1, Invariance, PTL

(***************************************************************************)
(* However any number of updates and the watchdog truncate, fill, test,    *)
(* remove and rename the temporary file (handlers/nginx_cmd.rs, nginx.rs), *)
(* a rename that no other task had a part in makes live what has passed    *)
(* the allow-list walker, and no rename what the walker refused.           *)
(***************************************************************************)
THEOREM RenameIsVetted == Spec => []RenamedIsAccepted
<1>1. Inv => RenamedIsAccepted
  BY DEF Inv, FileInv
<1> QED
  BY <1>1, Invariance, PTL

(***************************************************************************)
(* However the INSERTs and cleanups of persist_config of any number of     *)
(* commands interleave, the configuration stored last stays in the table.  *)
(***************************************************************************)
THEOREM LastStoredStays == Spec => []NewestStays
<1>1. Inv => NewestStays
  BY DEF Inv, RowInv
<1> QED
  BY <1>1, Invariance, PTL

(***************************************************************************)
(* An nginx.update_config that nobody interfered with and that comes to    *)
(* the reload has its configuration in the newest row and in the live      *)
(* file, whatever earlier tasks left in the files and the table.           *)
(***************************************************************************)
THEOREM LoneUpdateHolds == Spec => []LoneUpdateTakes
<1>1. LoneInv => LoneUpdateTakes
  BY DEF LoneInv, LoneUpdateTakes, Achieved, At, Place, StoredLast
<1> QED
  BY <1>1, Invariance, PTL
=============================================================================
