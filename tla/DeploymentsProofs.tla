-------------------------- MODULE DeploymentsProofs --------------------------
(***************************************************************************)
(* Types, RangesDisjoint, DownStaysDown and DeployedComesBack for any      *)
(* number of commands, tenants, projects and compose files, and for a      *)
(* recovery queue of any length.                                           *)
(*                                                                         *)
(* RangesDisjoint rests on what a command that has computed a range knows  *)
(* until it enters it (RangeInv); the other two on what a command that is  *)
(* alone on its project has achieved so far (Achieved), on no command      *)
(* being under way while the agent starts (PhaseInv), and on what holds of *)
(* a project whose caller was answered (Kept).                             *)
(***************************************************************************)
EXTENDS Deployments, TLAPS

Task == EnsureTask \union ProjectTask \union {Idle}

RangeInv ==
  ~raced =>
    /\ Disjoint(subuid \union subgid)
    /\ \A a \in Slots :
         /\ At(a, "ranged") => /\ PastEveryEnd(task[a].range)
                               /\ \A b \in Slots \ {a} : ~At(b, "ranged")
         /\ At(a, "halfway") => EntryOf(a) \in subuid

\* Commands belong to an agent that serves; what it has still to recover is
\* what it has read from the table.
PhaseInv ==
  /\ phase # "serving" => task = [a \in Slots |-> Idle]
  /\ phase # "recovering" => queue = {}
  /\ queue \subseteq WantedRows

Filed(p) == file[p] = "absent" => made[p] = "absent"

\* The sole command on a project is alone on it; after it was answered nobody
\* works on it.
Alone(p) ==
  \A b \in Slots :
    WorksOn(b, p) => sole[p] \in {b, "nobody"} /\ promise[p] = "none"

Achieved(p) ==
  \A b \in Slots :
    WorksOn(b, p) /\ sole[p] = b =>
      /\ At(b, "written") => file[p] = task[b].version
      /\ At(b, "up") => /\ file[p] = task[b].version
                        /\ made[p] = task[b].version
                        /\ p \in runs
      /\ At(b, "down") => made[p] = "absent"

Kept(p) ==
  /\ promise[p] = "down" => made[p] = "absent" /\ desired[p] # "running"
  /\ promise[p] \in Versions =>
       /\ file[p] = promise[p]
       /\ made[p] = promise[p]
       /\ desired[p] = "running"
       /\ phase = "serving" => p \in runs
       /\ phase = "recovering" => p \in runs \union queue

OnProject(p) == Filed(p) /\ Alone(p) /\ Achieved(p) /\ Kept(p)

ProjectInv == PhaseInv /\ \A p \in Projects : OnProject(p)

Inv == TypeOK /\ RangeInv /\ ProjectInv

-----------------------------------------------------------------------------
\* What a place says of the command that is there.
LEMMA TaskAt ==
  ASSUME NEW t \in Task
  PROVE  /\ t.at \in {"missing", "added"} => t \in [at : {"missing", "added"}, tenant : Tenants]
         /\ t.at \in {"ranged", "halfway"} =>
              t \in [at : {"ranged", "halfway"}, tenant : Tenants, range : Nat]
         /\ t.at \in {"opened", "written", "up"} =>
              t \in [at : {"opened", "written", "up"}, project : Projects, version : Versions]
         /\ t.at = "down" => t \in [at : {"down"}, project : Projects]
         /\ t.at = "idle" => t = Idle
         /\ t \in ProjectTask <=> t.at \in {"opened", "written", "up", "down"}
  BY DEF Task, EnsureTask, ProjectTask, Idle

LEMMA InitInv == Init => Inv
<1> SUFFICES ASSUME Init PROVE Inv
  OBVIOUS
<1>1. TypeOK
  BY DEF Init, TypeOK, TenantsInit, TenantsTypeOK
<1>2. \A a \in Slots : At(a, "idle") /\ task[a] = Idle
  BY DEF Init, At, Idle
<1>3. RangeInv
  BY <1>2 DEF RangeInv, Init, TenantsInit, Disjoint, At
<1>4. \A a \in Slots, p \in Projects : ~WorksOn(a, p)
  BY <1>2, TaskAt DEF WorksOn, Task, At
<1>5. PhaseInv /\ \A p \in Projects : Filed(p) /\ Kept(p)
  BY ProjectAssumption DEF Init, PhaseInv, Filed, Kept
<1> QED
  BY <1>1, <1>3, <1>4, <1>5 DEF Inv, ProjectInv, OnProject, Alone, Achieved

-----------------------------------------------------------------------------
\* Steps that leave every range, and every command that has one, alone.
LEMMA RangeQuiet ==
  ASSUME RangeInv, UNCHANGED <<subuid, subgid, raced>>,
         \A b \in Slots : task'[b] = task[b] \/ task'[b].at \notin {"ranged", "halfway"}
  PROVE  RangeInv'
  BY DEF RangeInv, Disjoint, At, PastEveryEnd, Ranges, EntryOf

\* Steps that leave a project, its row and the commands on it alone, or end
\* these.
LEMMA Elsewhere ==
  ASSUME NEW q \in Projects, OnProject(q),
         file'[q] = file[q], made'[q] = made[q], desired'[q] = desired[q],
         (q \in runs)' = (q \in runs),
         sole'[q] = sole[q], promise'[q] = promise[q],
         UNCHANGED phase, (q \in queue)' = (q \in queue),
         \A b \in Slots : WorksOn(b, q)' => WorksOn(b, q) /\ task'[b] = task[b]
  PROVE  OnProject(q)'
<1>1. Filed(q)' /\ Kept(q)'
  BY DEF OnProject, Filed, Kept
<1>2. Alone(q)'
  BY DEF OnProject, Alone
<1>3. Achieved(q)'
  BY DEF OnProject, Achieved, At
<1> QED
  BY <1>1, <1>2, <1>3 DEF OnProject

\* Steps that leave all projects alone.
LEMMA ProjectQuiet ==
  ASSUME TypeOK, ProjectInv,
         UNCHANGED <<file, podVars, desired, agentVars, historyVars>>,
         \A b \in Slots : task'[b] = task[b] \/ task'[b] \notin ProjectTask,
         phase = "serving" \/ UNCHANGED task
  PROVE  ProjectInv'
<1>1. PhaseInv'
  BY DEF ProjectInv, PhaseInv, WantedRows, agentVars
<1>2. \A b \in Slots, p \in Projects : WorksOn(b, p)' => WorksOn(b, p) /\ task'[b] = task[b]
  BY DEF WorksOn
<1>3. \A p \in Projects : OnProject(p)'
  BY <1>2, Elsewhere DEF ProjectInv, podVars, agentVars, historyVars
<1> QED
  BY <1>1, <1>3 DEF ProjectInv

LEMMA EnsureInv ==
  ASSUME Inv, NEW a \in Slots, Ensure(a)
  PROVE  Inv'
<1> USE DEF Inv
<1> task \in [Slots -> Task] /\ task[a] \in Task
  BY DEF TypeOK, Task
<1>0. UNCHANGED <<file, podVars, desired, agentVars, historyVars>>
  BY DEF Ensure
<1> SUFFICES /\ TenantsTypeOK' /\ RangeInv'
             /\ \E t \in EnsureTask \union {Idle} : Become(a, t)
             /\ phase = "serving"
  <2> SUFFICES ASSUME TenantsTypeOK', RangeInv', phase = "serving",
                      NEW t \in EnsureTask \union {Idle}, Become(a, t)
               PROVE  Inv'
    OBVIOUS
  <2>1. task' \in [Slots -> Task] /\ t \notin ProjectTask
    BY TaskAt DEF Become, Task, EnsureTask, Idle
  <2>2. TypeOK'
    BY <1>0, <2>1 DEF TypeOK, Task, podVars, agentVars, historyVars
  <2>3. \A b \in Slots : task'[b] = task[b] \/ task'[b] \notin ProjectTask
    BY <2>1 DEF Become
  <2>4. ProjectInv'
    BY <1>0, <2>3, ProjectQuiet
  <2> QED
    BY <2>2, <2>4
<1>1. phase = "serving"
  BY DEF Ensure, EnsureStep, AddUser, ReadRanges, AddUids, AddGids, At, Idle,
         ProjectInv, PhaseInv
<1> USE TaskAt DEF At, EnsureTask, TypeOK, TenantsTypeOK
<1>2. ASSUME NEW t \in Tenants, BeginEnsure(a, t)
      PROVE  /\ TenantsTypeOK' /\ RangeInv'
             /\ \E s \in EnsureTask \union {Idle} : Become(a, s)
  <2>1. RangeInv'
    BY <1>2, RangeQuiet DEF BeginEnsure, Become, tenantVars
  <2> QED
    BY <1>2, <2>1 DEF BeginEnsure, tenantVars
<1>3. ASSUME AddUser(a)
      PROVE  /\ TenantsTypeOK' /\ RangeInv'
             /\ \E s \in EnsureTask \union {Idle} : Become(a, s)
  <2> DEFINE s == [task[a] EXCEPT !.at = "added"]
  <2>1. s \in EnsureTask /\ s.at = "added" /\ Become(a, s)
    BY <1>3 DEF AddUser
  <2>2. RangeInv'
    BY <1>3, <2>1, RangeQuiet DEF AddUser, Become
  <2> QED
    BY <1>3, <2>1, <2>2 DEF AddUser
<1>4. ASSUME ReadRanges(a)
      PROVE  /\ TenantsTypeOK' /\ RangeInv'
             /\ \E s \in EnsureTask \union {Idle} : Become(a, s)
  <2>1. PICK n \in NextRanges :
          Become(a, [at |-> "ranged", tenant |-> task[a].tenant, range |-> n])
    BY <1>4 DEF ReadRanges
  <2>2. n \in Nat /\ PastEveryEnd(n)
    BY DEF NextRanges, Ranges, Entry
  <2>3. task[a].tenant \in Tenants
    BY <1>4 DEF ReadRanges
  <2>4. RangeInv'
    <3> SUFFICES ASSUME ~raced'
                 PROVE  RangeInv'
      BY DEF RangeInv
    <3>1. ~raced /\ \A b \in Slots \ {a} : ~At(b, "ranged") /\ ~At(b, "ranged")'
      BY <1>4, <2>1 DEF ReadRanges, Become
    <3>2. At(a, "ranged")' /\ task'[a].range = n
      BY <2>1 DEF Become
    <3>3. \A b \in Slots \ {a} : task'[b] = task[b]
      BY <2>1 DEF Become
    <3> QED
      BY <1>4, <2>2, <3>1, <3>2, <3>3
      DEF RangeInv, ReadRanges, PastEveryEnd, Ranges, EntryOf
  <2> QED
    BY <1>4, <2>1, <2>2, <2>3, <2>4 DEF ReadRanges
<1>5. ASSUME AddUids(a)
      PROVE  /\ TenantsTypeOK' /\ RangeInv'
             /\ \E s \in EnsureTask \union {Idle} : Become(a, s)
  <2> DEFINE s == [task[a] EXCEPT !.at = "halfway"]
  <2>1. s \in EnsureTask /\ s.at = "halfway" /\ Become(a, s)
    BY <1>5 DEF AddUids
  <2>2. s.tenant = task[a].tenant /\ s.range = task[a].range
    BY <1>5 DEF AddUids
  <2>3. EntryOf(a) \in Entry /\ EntryOf(a)' = EntryOf(a)
    BY <1>5, <2>1, <2>2 DEF AddUids, EntryOf, Entry, Become
  <2>4. RangeInv'
    <3> SUFFICES ASSUME ~raced
                 PROVE  RangeInv'
      BY <1>5 DEF RangeInv, AddUids
    <3>1. ASSUME NEW e \in subuid \union subgid
          PROVE  e.range # EntryOf(a).range
      <4>1. PastEveryEnd(task[a].range) /\ task[a].range \in Nat
        BY <1>5 DEF RangeInv, AddUids
      <4>2. e.range \in Nat /\ e.range \in Ranges(subuid \union subgid)
        BY DEF Ranges, Entry
      <4>3. e.range < task[a].range
        BY <4>1, <4>2 DEF PastEveryEnd
      <4>4. e.range # task[a].range
        BY <4>1, <4>2, <4>3
      <4> QED
        BY <4>4 DEF EntryOf
    <3>2. Disjoint(subuid' \union subgid')
      BY <1>5, <3>1 DEF RangeInv, AddUids, Disjoint
    <3>3. \A b \in Slots : ~At(b, "ranged")'
      BY <1>5, <2>1 DEF RangeInv, AddUids, Become
    <3>4. \A b \in Slots : At(b, "halfway")' => EntryOf(b)' \in subuid'
      BY <1>5, <2>1, <2>3 DEF RangeInv, AddUids, Become, EntryOf
    <3> QED
      BY <3>2, <3>3, <3>4 DEF RangeInv
  <2> QED
    BY <1>5, <2>1, <2>3, <2>4 DEF AddUids
<1>6. ASSUME AddGids(a)
      PROVE  /\ TenantsTypeOK' /\ RangeInv'
             /\ \E s \in EnsureTask \union {Idle} : Become(a, s)
  <2>1. EntryOf(a) \in Entry
    BY <1>6 DEF AddGids, EntryOf, Entry
  <2>2. RangeInv'
    <3> SUFFICES ASSUME ~raced
                 PROVE  RangeInv'
      BY <1>6 DEF RangeInv, AddGids
    <3>1. subuid' \union subgid' = subuid \union subgid
      BY <1>6 DEF RangeInv, AddGids
    <3>2. \A b \in Slots : task'[b] = task[b] \/ task'[b].at = "idle"
      BY <1>6 DEF AddGids, Become, Idle
    <3>3. Disjoint(subuid' \union subgid')
      BY <3>1 DEF RangeInv
    <3>4. ASSUME NEW b \in Slots, task'[b] = task[b]
          PROVE  /\ At(b, "ranged")' = At(b, "ranged")
                 /\ At(b, "halfway")' = At(b, "halfway")
                 /\ EntryOf(b)' = EntryOf(b)
                 /\ PastEveryEnd(task[b].range) => PastEveryEnd(task[b].range)'
      BY <3>1, <3>4 DEF At, EntryOf, PastEveryEnd
    <3>5. ASSUME NEW b \in Slots, task'[b].at = "idle"
          PROVE  ~At(b, "ranged")' /\ ~At(b, "halfway")'
      BY <3>5 DEF At
    <3>6. subuid' = subuid /\ raced' = raced
      BY <1>6 DEF AddGids
    <3> QED
      BY <3>2, <3>3, <3>4, <3>5, <3>6 DEF RangeInv
  <2> QED
    BY <1>6, <2>1, <2>2 DEF AddGids
<1> QED
  BY <1>1, <1>2, <1>3, <1>4, <1>5, <1>6 DEF Ensure, EnsureStep

-----------------------------------------------------------------------------
\* What is true of the commands when one begins on p, and when one ends.
LEMMA Begun ==
  ASSUME Inv, NEW a \in Slots, NEW p \in Projects, NEW t \in ProjectTask,
         t.project = p, BeginOn(a, p, t)
  PROVE  /\ phase = "serving"
         /\ task' \in [Slots -> Task] /\ task'[a] = t
         /\ \A b \in Slots \ {a} : task'[b] = task[b]
         /\ \A b \in Slots : task'[b] = task[b] \/ task'[b].at \notin {"ranged", "halfway"}
         /\ \A b \in Slots : WorksOn(b, p)' => sole'[p] \in {b, "nobody"}
         /\ sole' \in [Projects -> Slots \union {"nobody"}]
         /\ promise' \in [Projects -> Versions \union {"down", "none"}]
         /\ promise'[p] = "none"
         /\ \A q \in Projects \ {p} :
              /\ sole'[q] = sole[q] /\ promise'[q] = promise[q]
              /\ \A b \in Slots : WorksOn(b, q)' => WorksOn(b, q) /\ task'[b] = task[b]
<1> USE DEF Inv, TypeOK
<1>1. task' = [task EXCEPT ![a] = t] /\ t \in Task
  BY DEF BeginOn, Become, Task
<1>2. task' \in [Slots -> Task] /\ task'[a] = t /\ \A b \in Slots \ {a} : task'[b] = task[b]
  BY <1>1 DEF Task
<1>3. t.at \notin {"ranged", "halfway"}
  BY DEF ProjectTask
<1>4. \A b \in Slots : WorksOn(b, p)' => sole'[p] \in {b, "nobody"}
  BY <1>2 DEF BeginOn, WorksOn
<1>5. \A q \in Projects \ {p}, b \in Slots :
        WorksOn(b, q)' => WorksOn(b, q) /\ task'[b] = task[b]
  BY <1>2 DEF WorksOn
<1> QED
  BY <1>2, <1>3, <1>4, <1>5 DEF BeginOn, Forget

LEMMA Ended ==
  ASSUME TypeOK, NEW a \in Slots, Become(a, Idle)
  PROVE  /\ task' \in [Slots -> Task]
         /\ \A b \in Slots : task'[b] = task[b] \/ task'[b].at \notin {"ranged", "halfway"}
         /\ \A b \in Slots, q \in Projects :
              WorksOn(b, q)' => WorksOn(b, q) /\ task'[b] = task[b] /\ b # a
<1>1. Idle \in Task /\ Idle.at = "idle" /\ Idle \notin ProjectTask
  BY DEF Task, Idle, ProjectTask
<1> QED
  BY <1>1 DEF TypeOK, Become, Task, WorksOn

\* A command goes on to the next place.
LEMMA Moved ==
  ASSUME TypeOK, NEW a \in Slots, task[a] \in ProjectTask,
         NEW s \in {"written", "up"}, At(a, "opened") \/ At(a, "written"),
         Become(a, [task[a] EXCEPT !.at = s])
  PROVE  /\ task' \in [Slots -> Task]
         /\ task[a].version \in Versions
         /\ task'[a] \in ProjectTask /\ task'[a].at = s
         /\ task'[a].project = task[a].project /\ task'[a].version = task[a].version
         /\ \A b \in Slots \ {a} : task'[b] = task[b]
         /\ \A b \in Slots : task'[b] = task[b] \/ task'[b].at \notin {"ranged", "halfway"}
         /\ \A b \in Slots, q \in Projects : WorksOn(b, q)' <=> WorksOn(b, q)
<1> DEFINE t == [task[a] EXCEPT !.at = s]
<1>1. task[a] \in [at : {"opened", "written", "up"}, project : Projects, version : Versions]
  BY TaskAt DEF TypeOK, Task, At
<1>2. /\ t \in [at : {"opened", "written", "up"}, project : Projects, version : Versions]
      /\ t.at = s /\ t.project = task[a].project /\ t.version = task[a].version
  BY <1>1
<1>3. t \in ProjectTask /\ t \in Task
  BY <1>2 DEF ProjectTask, Task
<1>4. task' \in [Slots -> Task] /\ task'[a] = t /\ \A b \in Slots \ {a} : task'[b] = task[b]
  BY <1>3 DEF TypeOK, Task, Become
<1> QED
  BY <1>1, <1>2, <1>3, <1>4 DEF WorksOn

LEMMA OpenFileInv ==
  ASSUME Inv, NEW a \in Slots, NEW p \in Projects, NEW v \in Versions, OpenFile(a, p, v)
  PROVE  Inv'
<1> DEFINE t == [at |-> "opened", project |-> p, version |-> v]
<1>1. t \in ProjectTask /\ t.project = p /\ t.at = "opened" /\ BeginOn(a, p, t)
  BY DEF OpenFile, ProjectTask
<1> HIDE DEF t
<1>2. TypeOK'
  BY <1>1, Begun DEF Inv, TypeOK, OpenFile, tenantVars, podVars, agentVars, TenantsTypeOK, Task
<1>3. RangeInv'
  BY <1>1, Begun, RangeQuiet DEF Inv, OpenFile, tenantVars
<1>4. PhaseInv'
  BY <1>1, Begun DEF Inv, ProjectInv, PhaseInv, OpenFile, agentVars, WantedRows
<1>5. ASSUME NEW q \in Projects \ {p}
      PROVE  OnProject(q)'
  BY <1>1, Begun, Elsewhere DEF Inv, TypeOK, ProjectInv, OpenFile, podVars, agentVars
<1>6. OnProject(p)'
  <2>1. Filed(p)'
    BY ProjectAssumption DEF Inv, TypeOK, OpenFile, Filed
  <2>2. Alone(p)'
    BY <1>1, Begun DEF Alone
  <2>3. Kept(p)'
    BY <1>1, Begun, ProjectAssumption DEF Kept
  <2>4. Achieved(p)'
    <3> SUFFICES ASSUME NEW b \in Slots, WorksOn(b, p)', sole'[p] = b
                 PROVE  task'[b].at = "opened"
      BY DEF Achieved, At
    <3>1. WorksOn(a, p)'
      BY <1>1, Begun DEF WorksOn
    <3>2. b = a
      BY <1>1, <3>1, Begun, ProjectAssumption
    <3> QED
      BY <1>1, <3>2, Begun
  <2> QED
    BY <2>1, <2>2, <2>3, <2>4 DEF OnProject
<1> QED
  BY <1>2, <1>3, <1>4, <1>5, <1>6 DEF Inv, ProjectInv

\* A command on a project that it is alone on, or that has another.
LEMMA Working ==
  ASSUME Inv, NEW a \in Slots, task[a] \in ProjectTask
  PROVE  /\ task[a].project \in Projects
         /\ WorksOn(a, task[a].project)
         /\ phase = "serving" /\ queue = {}
         /\ sole[task[a].project] \in {a, "nobody"}
         /\ promise[task[a].project] = "none"
<1>1. task[a].project \in Projects /\ WorksOn(a, task[a].project)
  BY DEF ProjectTask, WorksOn
<1>2. phase = "serving"
  BY TaskAt DEF Inv, ProjectInv, PhaseInv, ProjectTask, Idle
<1>3. queue = {}
  BY <1>2 DEF Inv, ProjectInv, PhaseInv
<1> QED
  BY <1>1, <1>2, <1>3 DEF Inv, ProjectInv, OnProject, Alone

LEMMA FillFileInv ==
  ASSUME Inv, NEW a \in Slots, NEW p \in Projects, task[a].project = p, FillFile(a)
  PROVE  Inv'
<1>1. At(a, "opened") /\ task[a] \in ProjectTask
  BY TaskAt DEF FillFile, At, Inv, TypeOK, Task
<1>2. /\ p \in Projects /\ WorksOn(a, p) /\ phase = "serving" /\ queue = {}
      /\ sole[p] \in {a, "nobody"} /\ promise[p] = "none"
  BY <1>1, Working
<1>3. Become(a, [task[a] EXCEPT !.at = "written"])
  BY DEF FillFile
<1>4. PICK result \in {task[a].version}
        \union {"torn" : b \in {b \in Slots \ {a} : At(b, "opened") /\ WorksOn(b, p)}} :
          file' = [file EXCEPT ![p] = result]
  BY DEF FillFile
<1>5. /\ file'[p] \in Versions \union {"torn"}
      /\ \A q \in Projects \ {p} : file'[q] = file[q]
      /\ file' \in [Projects -> Versions \union {"absent", "torn"}]
      /\ sole[p] = a => file'[p] = task[a].version
  <2>1. task[a].version \in Versions
    BY <1>1, <1>3, Moved DEF Inv
  <2>2. sole[p] = a => \A b \in Slots \ {a} : ~WorksOn(b, p)
    BY <1>2, ProjectAssumption DEF Inv, ProjectInv, OnProject, Alone
  <2> QED
    BY <1>2, <1>4, <2>1, <2>2 DEF Inv, TypeOK
<1>6. TypeOK'
  BY <1>1, <1>3, <1>5, Moved
  DEF Inv, TypeOK, FillFile, tenantVars, podVars, agentVars, historyVars, TenantsTypeOK, Task
<1>7. RangeInv'
  BY <1>1, <1>3, Moved, RangeQuiet DEF Inv, FillFile, tenantVars
<1>8. PhaseInv'
  BY <1>2 DEF Inv, ProjectInv, PhaseInv, FillFile, agentVars, WantedRows
<1>9. ASSUME NEW q \in Projects \ {p}
      PROVE  OnProject(q)'
  <2>1. \A b \in Slots : WorksOn(b, q)' => WorksOn(b, q) /\ task'[b] = task[b]
    BY <1>1, <1>3, Moved DEF Inv, WorksOn
  <2> QED
    BY <1>5, <2>1, Elsewhere DEF Inv, ProjectInv, FillFile, podVars, agentVars, historyVars
<1>10. OnProject(p)'
  <2>1. Filed(p)'
    BY <1>5, ProjectAssumption DEF Filed
  <2>2. Alone(p)'
    BY <1>1, <1>2, <1>3, Moved DEF Inv, ProjectInv, OnProject, Alone, FillFile, historyVars
  <2>3. Kept(p)'
    BY <1>2, ProjectAssumption DEF Kept, FillFile, historyVars
  <2>4. Achieved(p)'
    <3> SUFFICES ASSUME NEW b \in Slots, WorksOn(b, p)', sole[p] = b
                 PROVE  task'[b].at = "written" /\ file'[p] = task'[b].version
      BY DEF Achieved, At, FillFile, historyVars
    <3>1. b = a
      BY <1>2, ProjectAssumption
    <3> QED
      BY <1>1, <1>3, <1>5, <3>1, Moved DEF Inv
  <2> QED
    BY <2>1, <2>2, <2>3, <2>4 DEF OnProject
<1> QED
  BY <1>6, <1>7, <1>8, <1>9, <1>10, <1>2 DEF Inv, ProjectInv

LEMMA ComposeUpInv ==
  ASSUME Inv, NEW a \in Slots, NEW p \in Projects, task[a].project = p, ComposeUp(a)
  PROVE  Inv'
<1>1. At(a, "written") /\ task[a] \in ProjectTask
  BY TaskAt DEF ComposeUp, At, Inv, TypeOK, Task
<1>2. /\ p \in Projects /\ WorksOn(a, p) /\ phase = "serving" /\ queue = {}
      /\ sole[p] \in {a, "nobody"} /\ promise[p] = "none"
  BY <1>1, Working
<1>3. Become(a, [task[a] EXCEPT !.at = "up"]) /\ Up(p)
  BY DEF ComposeUp
<1>5. /\ file[p] \in Versions /\ made'[p] = file[p] /\ p \in runs'
      /\ \A q \in Projects \ {p} : made'[q] = made[q] /\ (q \in runs)' = (q \in runs)
      /\ made' \in [Projects -> Versions \union {"absent"}]
      /\ runs' \subseteq {q \in Projects : made'[q] # "absent"}
  BY <1>2, <1>3, ProjectAssumption DEF Inv, TypeOK, Up
<1>6. TypeOK'
  BY <1>1, <1>3, <1>5, Moved
  DEF Inv, TypeOK, ComposeUp, tenantVars, agentVars, historyVars, TenantsTypeOK, Task
<1>7. RangeInv'
  BY <1>1, <1>3, Moved, RangeQuiet DEF Inv, ComposeUp, tenantVars
<1>8. PhaseInv'
  BY <1>2 DEF Inv, ProjectInv, PhaseInv, ComposeUp, agentVars, WantedRows
<1>9. ASSUME NEW q \in Projects \ {p}
      PROVE  OnProject(q)'
  <2>1. \A b \in Slots : WorksOn(b, q)' => WorksOn(b, q) /\ task'[b] = task[b]
    BY <1>1, <1>3, Moved DEF Inv, WorksOn
  <2> QED
    BY <1>5, <2>1, Elsewhere DEF Inv, ProjectInv, ComposeUp, agentVars, historyVars
<1>10. OnProject(p)'
  <2>1. Filed(p)'
    BY <1>5, ProjectAssumption DEF Filed, ComposeUp
  <2>2. Alone(p)'
    BY <1>1, <1>2, <1>3, Moved DEF Inv, ProjectInv, OnProject, Alone, ComposeUp, historyVars
  <2>3. Kept(p)'
    BY <1>2, ProjectAssumption DEF Kept, ComposeUp, historyVars
  <2>4. Achieved(p)'
    <3> SUFFICES ASSUME NEW b \in Slots, WorksOn(b, p)', sole[p] = b
                 PROVE  /\ task'[b].at = "up" /\ file[p] = task'[b].version
                        /\ made'[p] = task'[b].version /\ p \in runs'
      BY DEF Achieved, At, ComposeUp, historyVars
    <3>1. b = a
      BY <1>2, ProjectAssumption
    <3>2. file[p] = task[a].version
      BY <1>1, <1>2, <3>1 DEF Inv, ProjectInv, OnProject, Achieved
    <3> QED
      BY <1>1, <1>3, <1>5, <3>1, <3>2, Moved DEF Inv
  <2> QED
    BY <2>1, <2>2, <2>3, <2>4 DEF OnProject
<1> QED
  BY <1>6, <1>7, <1>8, <1>9, <1>10, <1>2 DEF Inv, ProjectInv

LEMMA StoreInv ==
  ASSUME Inv, NEW a \in Slots, NEW p \in Projects, task[a].project = p,
         StoreRunning(a) \/ StoreStopped(a)
  PROVE  Inv'
<1>1. /\ At(a, "up") \/ At(a, "down")
      /\ task[a] \in ProjectTask
      /\ At(a, "up") => task[a].version \in Versions
  BY TaskAt DEF StoreRunning, StoreStopped, At, Inv, TypeOK, Task
<1>2. /\ p \in Projects /\ WorksOn(a, p) /\ phase = "serving" /\ queue = {}
      /\ sole[p] \in {a, "nobody"} /\ promise[p] = "none"
  BY <1>1, Working
<1>3. /\ Become(a, Idle) /\ UNCHANGED <<tenantVars, file, podVars, agentVars, sole>>
      /\ desired' \in [Projects -> {"none", "running", "stopped"}]
      /\ promise' \in [Projects -> Versions \union {"down", "none"}]
      /\ \A q \in Projects \ {p} : desired'[q] = desired[q] /\ promise'[q] = promise[q]
      /\ promise'[p] # "none" => sole[p] = a
      /\ promise'[p] = "down" => At(a, "down") /\ desired'[p] # "running"
      /\ promise'[p] \in Versions =>
           At(a, "up") /\ promise'[p] = task[a].version /\ desired'[p] = "running"
  <2>1. CASE StoreRunning(a)
    BY <1>1, <1>2, <2>1, ProjectAssumption
    DEF StoreRunning, Succeed, Inv, TypeOK, At
  <2>2. CASE StoreStopped(a)
    BY <1>2, <2>2, ProjectAssumption DEF StoreStopped, Succeed, Inv, TypeOK
  <2> QED
    BY <2>1, <2>2
<1>6. TypeOK'
  BY <1>3, Ended DEF Inv, TypeOK, tenantVars, podVars, agentVars, TenantsTypeOK, Task
<1>7. RangeInv'
  BY <1>3, Ended, RangeQuiet DEF Inv, tenantVars
<1>8. PhaseInv'
  BY <1>2, <1>3 DEF Inv, ProjectInv, PhaseInv, agentVars, WantedRows
<1>9. ASSUME NEW q \in Projects \ {p}
      PROVE  OnProject(q)'
  BY <1>3, Ended, Elsewhere DEF Inv, ProjectInv, podVars, agentVars
<1>10. OnProject(p)'
  <2>1. \A b \in Slots : WorksOn(b, p)' => WorksOn(b, p) /\ b # a /\ task'[b] = task[b]
    BY <1>2, <1>3, Ended DEF Inv
  <2>2. \A b \in Slots : WorksOn(b, p)' => sole[p] = "nobody"
    BY <1>2, <2>1, ProjectAssumption DEF Inv, ProjectInv, OnProject, Alone
  <2>3. Alone(p)'
    BY <1>2, <1>3, <2>2, ProjectAssumption DEF Alone
  <2>4. Achieved(p)'
    BY <1>3, <2>2, ProjectAssumption DEF Achieved
  <2>5. Filed(p)'
    BY <1>2, <1>3 DEF Inv, ProjectInv, OnProject, Filed, podVars
  <2>6. Kept(p)'
    BY <1>2, <1>3, ProjectAssumption
    DEF Inv, ProjectInv, OnProject, Achieved, Kept, podVars, agentVars
  <2> QED
    BY <2>3, <2>4, <2>5, <2>6 DEF OnProject
<1> QED
  BY <1>6, <1>7, <1>8, <1>9, <1>10, <1>2 DEF Inv, ProjectInv

LEMMA ComposeDownInv ==
  ASSUME Inv, NEW a \in Slots, NEW p \in Projects, ComposeDown(a, p)
  PROVE  Inv'
<1> DEFINE t == [at |-> "down", project |-> p]
<1>1. t \in ProjectTask /\ t.project = p /\ t.at = "down" /\ BeginOn(a, p, t)
  BY DEF ComposeDown, ProjectTask
<1> HIDE DEF t
<1>2. /\ UNCHANGED <<tenantVars, file, desired, agentVars>>
      /\ made' \in [Projects -> Versions \union {"absent"}]
      /\ runs' \subseteq {q \in Projects : made'[q] # "absent"}
      /\ made'[p] = "absent"
      /\ \A q \in Projects \ {p} : made'[q] = made[q] /\ (q \in runs)' = (q \in runs)
  BY DEF ComposeDown, Inv, TypeOK, ProjectInv, OnProject, Filed, podVars
<1>3. TypeOK'
  BY <1>1, <1>2, Begun DEF Inv, TypeOK, tenantVars, agentVars, TenantsTypeOK, Task
<1>4. RangeInv'
  BY <1>1, <1>2, Begun, RangeQuiet DEF Inv, tenantVars
<1>5. PhaseInv'
  BY <1>1, <1>2, Begun DEF Inv, ProjectInv, PhaseInv, agentVars, WantedRows
<1>6. ASSUME NEW q \in Projects \ {p}
      PROVE  OnProject(q)'
  BY <1>1, <1>2, Begun, Elsewhere DEF Inv, ProjectInv, agentVars
<1>7. OnProject(p)'
  <2>1. Filed(p)'
    BY <1>2 DEF Filed
  <2>2. Alone(p)'
    BY <1>1, Begun DEF Alone
  <2>3. Kept(p)'
    BY <1>1, Begun, ProjectAssumption DEF Kept
  <2>4. Achieved(p)'
    <3> SUFFICES ASSUME NEW b \in Slots, WorksOn(b, p)', sole'[p] = b
                 PROVE  task'[b].at = "down"
      BY <1>2 DEF Achieved, At
    <3>1. WorksOn(a, p)'
      BY <1>1, Begun DEF WorksOn
    <3>2. b = a
      BY <1>1, <3>1, Begun, ProjectAssumption
    <3> QED
      BY <1>1, <3>2, Begun
  <2> QED
    BY <2>1, <2>2, <2>3, <2>4 DEF OnProject
<1> QED
  BY <1>3, <1>4, <1>5, <1>6, <1>7 DEF Inv, ProjectInv

LEMMA FailsInv ==
  ASSUME Inv, NEW a \in Slots, Fails(a)
  PROVE  Inv'
<1>1. /\ Become(a, Idle)
      /\ UNCHANGED <<tenantVars, file, podVars, desired, agentVars, historyVars>>
  BY DEF Fails
<1>2. TypeOK'
  BY <1>1, Ended
  DEF Inv, TypeOK, tenantVars, podVars, agentVars, historyVars, TenantsTypeOK, Task
<1>3. RangeInv'
  BY <1>1, Ended, RangeQuiet DEF Inv, tenantVars
<1>4. PhaseInv'
  BY <1>1 DEF Inv, TypeOK, ProjectInv, PhaseInv, agentVars, WantedRows, Become
<1>5. ASSUME NEW q \in Projects
      PROVE  OnProject(q)'
  BY <1>1, Ended, Elsewhere DEF Inv, ProjectInv, podVars, agentVars, historyVars
<1> QED
  BY <1>2, <1>3, <1>4, <1>5 DEF Inv, ProjectInv

-----------------------------------------------------------------------------
LEMMA ContainerInv ==
  ASSUME Inv, NEW p \in Projects, ContainerStep(p)
  PROVE  Inv'
<1>1. /\ OnContainer(p)
      /\ made' \in [Projects -> Versions \union {"absent"}]
      /\ runs' \subseteq {q \in Projects : made'[q] # "absent"}
      /\ \A q \in Projects \ {p} : made'[q] = made[q] /\ (q \in runs)' = (q \in runs)
      /\ made'[p] \in {made[p], "absent"}
  BY DEF ContainerStep, StartContainer, StopContainer, RemoveContainer, OnContainer, Inv, TypeOK
<1>2. /\ UNCHANGED <<tenantVars, task, file, desired, agentVars>>
      /\ sole' = [sole EXCEPT ![p] = "nobody"]
      /\ promise' = [promise EXCEPT ![p] = "none"]
      /\ phase = "serving"
  BY <1>1 DEF OnContainer, Forget
<1>3. TypeOK'
  BY <1>1, <1>2 DEF Inv, TypeOK, tenantVars, agentVars, TenantsTypeOK
<1>4. RangeInv'
  BY <1>2, RangeQuiet DEF Inv, tenantVars
<1>5. PhaseInv'
  BY <1>2 DEF Inv, ProjectInv, PhaseInv, agentVars, WantedRows
<1>6. ASSUME NEW q \in Projects \ {p}
      PROVE  OnProject(q)'
  BY <1>1, <1>2, Elsewhere DEF Inv, TypeOK, ProjectInv, agentVars, WorksOn
<1>7. sole'[p] = "nobody" /\ promise'[p] = "none"
  BY <1>2 DEF Inv, TypeOK
<1>8. OnProject(p)'
  BY <1>1, <1>2, <1>7, ProjectAssumption
  DEF Inv, ProjectInv, OnProject, Filed, Alone, Achieved, Kept
<1> QED
  BY <1>3, <1>4, <1>5, <1>6, <1>8 DEF Inv, ProjectInv

-----------------------------------------------------------------------------
\* While the agent starts no command is under way.
LEMMA Starting ==
  ASSUME Inv, phase # "serving"
  PROVE  /\ \A b \in Slots, q \in Projects : ~WorksOn(b, q)
         /\ task = [b \in Slots |-> Idle]
  BY TaskAt DEF Inv, ProjectInv, PhaseInv, WorksOn, Task, Idle

LEMMA RestartInv ==
  ASSUME Inv, Restart
  PROVE  Inv'
<1>1. /\ task' = [b \in Slots |-> Idle]
      /\ runs' \subseteq runs
      /\ phase' = "starting" /\ queue' = {}
      /\ UNCHANGED <<tenantVars, file, made, desired, historyVars>>
  BY DEF Restart
<1>2. Idle \in Task /\ Idle.at = "idle" /\ Idle \notin ProjectTask
  BY DEF Task, Idle, ProjectTask
<1>3. TypeOK'
  BY <1>1, <1>2 DEF Inv, TypeOK, tenantVars, historyVars, TenantsTypeOK, Task
<1>4. RangeInv'
  BY <1>1, <1>2, RangeQuiet DEF Inv, tenantVars
<1>5. PhaseInv'
  BY <1>1 DEF PhaseInv
<1>6. \A b \in Slots, q \in Projects : ~WorksOn(b, q)'
  BY <1>1, <1>2 DEF WorksOn
<1>7. ASSUME NEW q \in Projects
      PROVE  OnProject(q)'
  BY <1>1, <1>6 DEF Inv, ProjectInv, OnProject, Filed, Alone, Achieved, Kept, historyVars
<1> QED
  BY <1>3, <1>4, <1>5, <1>7 DEF Inv, ProjectInv

LEMMA RecoveryInv ==
  ASSUME Inv, RecoveryStep
  PROVE  Inv'
<1>1. /\ phase # "serving"
      /\ UNCHANGED <<tenantVars, task, file, desired, sole>>
  BY DEF RecoveryStep, SelectRows, SelectFails, Recover, RecoverFails, Serve,
         Inv, ProjectInv, PhaseInv, historyVars, Forget
<1>2. RangeInv'
  BY <1>1, RangeQuiet DEF Inv, tenantVars
<1>3. \A b \in Slots, q \in Projects : ~WorksOn(b, q)'
  BY <1>1, Starting DEF WorksOn
<1> DEFINE Recovered ==
      /\ made' \in [Projects -> Versions \union {"absent"}]
      /\ \A q \in runs' : q \in Projects /\ made'[q] # "absent"
      /\ phase' \in {"recovering", "serving"}
      /\ queue' \subseteq WantedRows
      /\ phase' = "serving" => queue' = {}
      /\ promise' \in [Projects -> Versions \union {"down", "none"}]
      /\ \A q \in Projects : Filed(q)' /\ Kept(q)'
<1> HIDE DEF Recovered
<1>4. ASSUME SelectRows \/ SelectFails PROVE Recovered
  <2>1. /\ phase = "starting" /\ phase' = "recovering"
        /\ UNCHANGED <<file, made, runs, desired>>
        /\ queue' \subseteq WantedRows
        /\ promise' \in [Projects -> Versions \union {"down", "none"}]
    BY <1>4 DEF SelectRows, SelectFails, podVars, historyVars, Inv, TypeOK
  <2>2. ASSUME NEW q \in Projects
        PROVE  Filed(q)' /\ Kept(q)'
    <3>1. /\ promise'[q] = "down" => promise[q] = "down"
          /\ promise'[q] \in Versions => promise[q] = promise'[q] /\ queue' = WantedRows
      BY <1>4, ProjectAssumption DEF SelectRows, SelectFails, historyVars, Inv, TypeOK
    <3> QED
      BY <2>1, <3>1 DEF Inv, ProjectInv, OnProject, Filed, Kept, WantedRows
  <2>3. /\ made' \in [Projects -> Versions \union {"absent"}]
        /\ \A q \in runs' : q \in Projects /\ made'[q] # "absent"
    BY <2>1 DEF Inv, TypeOK
  <2> QED
    BY <2>1, <2>2, <2>3 DEF Recovered
<1>6. ASSUME NEW p \in Projects, Recover(p)
      PROVE  Recovered
  <2>1. /\ phase = "recovering" /\ phase' = "recovering" /\ UNCHANGED promise
        /\ file[p] \in Versions /\ desired[p] = "running"
        /\ queue' = queue \ {p}
    BY <1>1, <1>6 DEF Recover, UpNoRecreate, Inv, TypeOK, ProjectInv, PhaseInv, WantedRows,
                      historyVars
  <2>2. /\ made' = [made EXCEPT ![p] = IF @ = "absent" THEN file[p] ELSE @]
        /\ runs' = runs \union {p}
    BY <1>6 DEF Recover, UpNoRecreate
  <2>3. /\ made'[p] \in Versions
        /\ made[p] # "absent" => made'[p] = made[p]
        /\ made' \in [Projects -> Versions \union {"absent"}]
        /\ \A q \in Projects \ {p} : made'[q] = made[q] /\ (q \in runs)' = (q \in runs)
    BY <2>1, <2>2 DEF Inv, TypeOK
  <2>4. \A q \in runs' : q \in Projects /\ made'[q] # "absent"
    BY <2>2, <2>3, ProjectAssumption DEF Inv, TypeOK
  <2>5. ASSUME NEW q \in Projects \ {p} PROVE Filed(q)' /\ Kept(q)'
    BY <1>1, <2>1, <2>2, <2>3 DEF Inv, ProjectInv, OnProject, Filed, Kept
  <2>6. Filed(p)' /\ Kept(p)'
    BY <1>1, <2>1, <2>2, <2>3, ProjectAssumption DEF Inv, ProjectInv, OnProject, Filed, Kept
  <2> QED
    BY <2>1, <2>3, <2>4, <2>5, <2>6 DEF Recovered, Inv, TypeOK, ProjectInv, PhaseInv
<1>7. ASSUME NEW p \in Projects, RecoverFails(p)
      PROVE  Recovered
  <2>1. /\ phase' = phase /\ queue' = queue \ {p} /\ UNCHANGED <<made, runs, file, desired>>
        /\ promise' = [promise EXCEPT ![p] = "none"]
        /\ phase = "recovering"
    BY <1>7 DEF RecoverFails, Forget, podVars, Inv, TypeOK, ProjectInv, PhaseInv
  <2>2. promise'[p] = "none" /\ \A q \in Projects \ {p} : promise'[q] = promise[q]
    BY <2>1 DEF Inv, TypeOK
  <2>3. \A q \in Projects : Filed(q)' /\ Kept(q)'
    BY <2>1, <2>2, ProjectAssumption DEF Inv, ProjectInv, OnProject, Filed, Kept
  <2> QED
    BY <2>1, <2>3 DEF Recovered, Inv, TypeOK, ProjectInv, PhaseInv
<1>8. ASSUME Serve PROVE Recovered
  <2>1. /\ phase = "recovering" /\ phase' = "serving" /\ queue = {} /\ queue' = {}
        /\ UNCHANGED <<file, made, runs, desired, promise>>
    BY <1>8 DEF Serve, podVars, historyVars
  <2>2. \A q \in Projects : Filed(q)' /\ Kept(q)'
    BY <2>1 DEF Inv, ProjectInv, OnProject, Filed, Kept
  <2>3. /\ made' \in [Projects -> Versions \union {"absent"}]
        /\ \A q \in runs' : q \in Projects /\ made'[q] # "absent"
        /\ promise' \in [Projects -> Versions \union {"down", "none"}]
    BY <2>1 DEF Inv, TypeOK
  <2> QED
    BY <2>1, <2>2, <2>3 DEF Recovered
<1>9. Recovered
  <2>1. CASE \E p \in Projects : Recover(p) \/ RecoverFails(p)
    BY <2>1, <1>6, <1>7
  <2> QED
    BY <1>4, <1>8, <2>1 DEF RecoveryStep
<1>10. TypeOK'
  BY <1>1, <1>9 DEF Recovered, Inv, TypeOK, tenantVars, TenantsTypeOK, WantedRows
<1>11. PhaseInv'
  BY <1>1, <1>9 DEF Recovered, Inv, ProjectInv, PhaseInv, WantedRows, RecoveryStep, SelectRows,
                    SelectFails, Recover, RecoverFails, Serve
<1>12. \A q \in Projects : OnProject(q)'
  BY <1>3, <1>9 DEF Recovered, OnProject, Alone, Achieved
<1> QED
  BY <1>2, <1>10, <1>11, <1>12 DEF Inv, ProjectInv

-----------------------------------------------------------------------------
LEMMA NextInv == Inv /\ [Next]_vars => Inv'
<1> SUFFICES ASSUME Inv, [Next]_vars PROVE Inv'
  OBVIOUS
<1>1. CASE UNCHANGED vars
  <2>1. TypeOK'
    BY <1>1 DEF Inv, TypeOK, TenantsTypeOK, vars, tenantVars, podVars, agentVars, historyVars
  <2>2. RangeInv'
    BY <1>1, RangeQuiet DEF Inv, vars, tenantVars
  <2>3. ProjectInv'
    BY <1>1, ProjectQuiet DEF Inv, vars
  <2> QED
    BY <2>1, <2>2, <2>3 DEF Inv
<1>2. ASSUME NEW a \in Slots, CommandStep(a)
      PROVE  Inv'
  <2>1. CASE Ensure(a)
    BY <2>1, EnsureInv
  <2>2. CASE \E p \in Projects : (\E v \in Versions : OpenFile(a, p, v)) \/ ComposeDown(a, p)
    BY <2>2, OpenFileInv, ComposeDownInv
  <2>3. CASE FillFile(a) \/ ComposeUp(a) \/ StoreRunning(a) \/ StoreStopped(a)
    <3>1. task[a] \in ProjectTask
      BY <2>3, TaskAt DEF FillFile, ComposeUp, StoreRunning, StoreStopped, At, Inv, TypeOK, Task
    <3>2. task[a].project \in Projects
      BY <3>1, Working
    <3> QED
      BY <2>3, <3>2, FillFileInv, ComposeUpInv, StoreInv
  <2>4. CASE Fails(a)
    BY <2>4, FailsInv
  <2> QED
    BY <1>2, <2>1, <2>2, <2>3, <2>4 DEF CommandStep
<1> QED
  BY <1>1, <1>2, ContainerInv, RestartInv, RecoveryInv DEF Next

LEMMA Invariance == Spec => []Inv
  BY InitInv, NextInv, PTL DEF Spec

\* Every variable keeps its type.
THEOREM TypeCorrect == Spec => []TypeOK
<1>1. Inv => TypeOK
  BY DEF Inv
<1> QED
  BY <1>1, Invariance, PTL

\* Tenants never share a range unless two commands computed theirs before
\* either entered it, for any number of tenants and commands, whatever fails.
THEOREM TenantsApart == Spec => []RangesDisjoint
<1>1. Inv => RangesDisjoint
  BY DEF Inv, RangeInv, RangesDisjoint
<1> QED
  BY <1>1, Invariance, PTL

\* A project that container.down took down, alone, stays down across restarts,
\* recoveries and whatever happens to any number of other projects.
THEOREM TakenDownStaysDown == Spec => []DownStaysDown
<1>1. Inv => DownStaysDown
  BY DEF Inv, ProjectInv, OnProject, Kept, DownStaysDown
<1> QED
  BY <1>1, Invariance, PTL

\* A project that container.deploy brought up, alone, runs what was deployed
\* whenever the agent serves, with any number of others to recover.
THEOREM DeployedRecovers == Spec => []DeployedComesBack
<1>1. Inv => DeployedComesBack
  BY DEF Inv, ProjectInv, OnProject, Kept, DeployedComesBack
<1> QED
  BY <1>1, Invariance, PTL
=============================================================================
