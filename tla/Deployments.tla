----------------------------- MODULE Deployments -----------------------------
(***************************************************************************)
(* container.deploy, container.down and the commands on single containers  *)
(* (handlers/containers.rs, podman/mod.rs), the table                      *)
(* container_deployments, and the recovery of main.rs that brings the      *)
(* deployments of that table back up before the agent serves again.        *)
(*                                                                         *)
(* A deployment is its compose file, its containers and its row, written   *)
(* one after another, each by a step that may fail and leave the rest      *)
(* undone; commands on one project are not kept apart.                     *)
(*                                                                         *)
(* Abstractions: a project has one container, known by the version of the  *)
(* compose file it was made from; compose brings it up, or fails; an INSERT *)
(* or UPDATE is one step; a command whose HTTP client left has failed; the  *)
(* containers change only by what is modelled here.                        *)
(***************************************************************************)
EXTENDS Tenants

CONSTANTS
  Projects,     \* projects of the tenants
  TenantOf,     \* the tenant of a project
  Versions      \* compose files the deny-list walker lets pass

ASSUME ProjectAssumption ==
  /\ TenantOf \in [Projects -> Tenants]
  /\ {"absent", "torn", "down", "none"} \intersect Versions = {}
  /\ "nobody" \notin Slots

VARIABLES
  file,         \* compose.yml of each project
  made,         \* the version its container was made from, or "absent"
  runs,         \* projects whose container runs
  desired,      \* its row in container_deployments
  phase,        \* whether the agent recovers deployments or serves
  queue,        \* those it has still to recover
  sole,         \* history: the command nobody joined on the project
  promise       \* history: what its last caller was told, if nobody joined

podVars == <<made, runs>>
agentVars == <<phase, queue>>
historyVars == <<sole, promise>>
vars ==
  <<tenantVars, task, file, podVars, desired, agentVars, historyVars>>

ProjectTask ==
  [at : {"opened", "written", "up"}, project : Projects, version : Versions]
    \union [at : {"down"}, project : Projects]

TypeOK ==
  /\ TenantsTypeOK
  /\ task \in [Slots -> EnsureTask \union ProjectTask \union {Idle}]
  /\ file \in [Projects -> Versions \union {"absent", "torn"}]
  /\ made \in [Projects -> Versions \union {"absent"}]
  /\ runs \subseteq {p \in Projects : made[p] # "absent"}
  /\ desired \in [Projects -> {"none", "running", "stopped"}]
  /\ phase \in {"starting", "recovering", "serving"}
  /\ queue \subseteq Projects
  /\ sole \in [Projects -> Slots \union {"nobody"}]
  /\ promise \in [Projects -> Versions \union {"down", "none"}]

Init ==
  /\ TenantsInit
  /\ task = [a \in Slots |-> Idle]
  /\ file = [p \in Projects |-> "absent"]
  /\ made = [p \in Projects |-> "absent"]
  /\ runs = {}
  /\ desired = [p \in Projects |-> "none"]
  /\ phase = "serving"
  /\ queue = {}
  /\ sole = [p \in Projects |-> "nobody"]
  /\ promise = [p \in Projects |-> "none"]

-----------------------------------------------------------------------------
\* runuser and rootless podman work for the tenant.
HasUser(p) == TenantOf[p] \in users

HasRanges(p) ==
  \A ids \in {subuid, subgid} : \E e \in ids : e.tenant = TenantOf[p]

Podman(p) == HasUser(p) /\ HasRanges(p)

WorksOn(a, p) == task[a] \in ProjectTask /\ task[a].project = p

Forget(p) == promise' = [promise EXCEPT ![p] = "none"]

\* A command on p begins: it is the sole one if no other is under way.
BeginOn(a, p, t) ==
  /\ At(a, "idle")
  /\ phase = "serving"
  /\ Become(a, t)
  /\ sole' = [sole EXCEPT ![p] = IF \E b \in Slots : WorksOn(b, p) THEN "nobody" ELSE a]
  /\ Forget(p)

\* It is answered with success.
Succeed(a, p, what) ==
  /\ Become(a, Idle)
  /\ promise' = [promise EXCEPT ![p] = IF sole[p] = a THEN what ELSE "none"]
  /\ UNCHANGED sole

-----------------------------------------------------------------------------
(***************************************************************************)
(* container.deploy                                                        *)
(***************************************************************************)

\* fs::write truncates compose.yml, then fills it; two at once may mix.
OpenFile(a, p, v) ==
  /\ BeginOn(a, p, [at |-> "opened", project |-> p, version |-> v])
  /\ file' = [file EXCEPT ![p] = "torn"]
  /\ UNCHANGED <<tenantVars, podVars, desired, agentVars>>

FillFile(a) ==
  /\ At(a, "opened")
  /\ \E result \in {task[a].version}
         \union {"torn" : b \in {b \in Slots \ {a} : At(b, "opened") /\ WorksOn(b, task[a].project)}} :
       file' = [file EXCEPT ![task[a].project] = result]
  /\ Become(a, [task[a] EXCEPT !.at = "written"])
  /\ UNCHANGED <<tenantVars, podVars, desired, agentVars, historyVars>>

\* compose up makes the container anew when the file has changed.
Up(p) ==
  /\ Podman(p)
  /\ file[p] \in Versions
  /\ made' = [made EXCEPT ![p] = file[p]]
  /\ runs' = runs \union {p}

ComposeUp(a) ==
  /\ At(a, "written")
  /\ Up(task[a].project)
  /\ Become(a, [task[a] EXCEPT !.at = "up"])
  /\ UNCHANGED <<tenantVars, file, desired, agentVars, historyVars>>

\* A faulty variant of StoreRunning: INSERT ... ON CONFLICT DO NOTHING.
StoreFirstTime(a) ==
  /\ At(a, "up")
  /\ desired' = [desired EXCEPT ![task[a].project] = IF @ = "none" THEN "running" ELSE @]
  /\ Succeed(a, task[a].project, task[a].version)
  /\ UNCHANGED <<tenantVars, file, podVars, agentVars>>

\* INSERT ... ON CONFLICT DO UPDATE SET desired = 'running'
StoreRunning(a) ==
  /\ At(a, "up")
  /\ desired' = [desired EXCEPT ![task[a].project] = "running"]
  /\ Succeed(a, task[a].project, task[a].version)
  /\ UNCHANGED <<tenantVars, file, podVars, agentVars>>

-----------------------------------------------------------------------------
(***************************************************************************)
(* container.down                                                          *)
(***************************************************************************)

\* Nothing to take down without a compose file.
ComposeDown(a, p) ==
  /\ BeginOn(a, p, [at |-> "down", project |-> p])
  /\ IF file[p] = "absent" THEN UNCHANGED podVars
     ELSE /\ Podman(p)
          /\ file[p] # "torn"
          /\ made' = [made EXCEPT ![p] = "absent"]
          /\ runs' = runs \ {p}
  /\ UNCHANGED <<tenantVars, file, desired, agentVars>>

\* UPDATE ... SET desired = 'stopped', if there is a row.
StoreStopped(a) ==
  /\ At(a, "down")
  /\ LET p == task[a].project IN
       /\ desired' = [desired EXCEPT ![p] = IF @ = "none" THEN "none" ELSE "stopped"]
       /\ Succeed(a, p, "down")
  /\ UNCHANGED <<tenantVars, file, podVars, agentVars>>
-----------------------------------------------------------------------------
(***************************************************************************)
(* Commands on a single container, none of which touches its row           *)
(***************************************************************************)
OnContainer(p) ==
  /\ phase = "serving"
  /\ Podman(p)
  /\ made[p] # "absent"
  /\ Forget(p)
  /\ sole' = [sole EXCEPT ![p] = "nobody"]
  /\ UNCHANGED <<tenantVars, task, file, desired, agentVars>>

\* container.start and container.restart
StartContainer(p) ==
  /\ OnContainer(p)
  /\ runs' = runs \union {p}
  /\ UNCHANGED made

StopContainer(p) ==
  /\ OnContainer(p)
  /\ runs' = runs \ {p}
  /\ UNCHANGED made

\* podman rm refuses a container that runs, unless forced to.
RemoveContainer(p, force) ==
  /\ OnContainer(p)
  /\ force \/ p \notin runs
  /\ made' = [made EXCEPT ![p] = "absent"]
  /\ runs' = runs \ {p}

-----------------------------------------------------------------------------
\* A step returns an error, or the client leaves at an await: what was done
\* stays done and the rest is never reached.
Fails(a) ==
  /\ ~At(a, "idle")
  /\ Become(a, Idle)
  /\ UNCHANGED <<tenantVars, file, podVars, desired, agentVars, historyVars>>

\* The agent is restarted or crashes; the containers stay, or the host
\* reboots and none of them runs.
Restart ==
  /\ task' = [a \in Slots |-> Idle]
  /\ \E left \in {runs, {}} : runs' = left
  /\ phase' = "starting"
  /\ queue' = {}
  /\ UNCHANGED <<tenantVars, file, made, desired, historyVars>>

-----------------------------------------------------------------------------
(***************************************************************************)
(* Recovery at startup                                                     *)
(***************************************************************************)

\* A faulty variant of WantedRows: the query has lost its WHERE.
AllRows == {p \in Projects : desired[p] # "none"}

\* SELECT ... WHERE desired = 'running'
WantedRows == {p \in Projects : desired[p] = "running"}

SelectRows ==
  /\ phase = "starting"
  /\ phase' = "recovering"
  /\ queue' = WantedRows
  /\ UNCHANGED <<tenantVars, task, file, podVars, desired, historyVars>>

\* unwrap_or_default: a query that fails looks like an empty table.
SelectFails ==
  /\ phase = "starting"
  /\ phase' = "recovering"
  /\ queue' = {}
  /\ promise' = [p \in Projects |-> IF promise[p] = "down" THEN "down" ELSE "none"]
  /\ UNCHANGED <<tenantVars, task, file, podVars, desired, sole>>

\* A faulty variant of UpNoRecreate: compose start, which makes nothing.
StartOnly(p) ==
  /\ Podman(p)
  /\ file[p] \in Versions
  /\ runs' = runs \union {p}
  /\ UNCHANGED made

\* compose_up_no_recreate: a container that exists is started as it is.
UpNoRecreate(p) ==
  /\ Podman(p)
  /\ file[p] \in Versions
  /\ made' = [made EXCEPT ![p] = IF @ = "absent" THEN file[p] ELSE @]
  /\ runs' = runs \union {p}

Recover(p) ==
  /\ p \in queue
  /\ UpNoRecreate(p)
  /\ queue' = queue \ {p}
  /\ UNCHANGED <<tenantVars, task, file, desired, phase, historyVars>>

\* A deployment that does not come up is logged, and the next one tried.
RecoverFails(p) ==
  /\ p \in queue
  /\ queue' = queue \ {p}
  /\ Forget(p)
  /\ UNCHANGED <<tenantVars, task, file, podVars, desired, phase, sole>>

Serve ==
  /\ phase = "recovering"
  /\ queue = {}
  /\ phase' = "serving"
  /\ UNCHANGED <<tenantVars, task, file, podVars, desired, queue, historyVars>>

-----------------------------------------------------------------------------
Ensure(a) ==
  /\ \/ phase = "serving" /\ \E t \in Tenants : BeginEnsure(a, t)
     \/ EnsureStep(a)
  /\ UNCHANGED <<file, podVars, desired, agentVars, historyVars>>

CommandStep(a) ==
  \/ Ensure(a)
  \/ \E p \in Projects : (\E v \in Versions : OpenFile(a, p, v)) \/ ComposeDown(a, p)
  \/ FillFile(a) \/ ComposeUp(a) \/ StoreRunning(a) \/ StoreStopped(a)
  \/ Fails(a)

ContainerStep(p) ==
  \/ StartContainer(p)
  \/ StopContainer(p)
  \/ \E force \in BOOLEAN : RemoveContainer(p, force)

RecoveryStep ==
  \/ SelectRows
  \/ SelectFails
  \/ \E p \in Projects : Recover(p) \/ RecoverFails(p)
  \/ Serve

Next ==
  \/ \E a \in Slots : CommandStep(a)
  \/ \E p \in Projects : ContainerStep(p)
  \/ Restart
  \/ RecoveryStep

Spec == Init /\ [][Next]_vars

-----------------------------------------------------------------------------
(***************************************************************************)
(* A project whose container.down was answered with success, and that no   *)
(* other command has worked on meanwhile or since, has no container and    *)
(* gets none, however often the agent or the host restarts.                *)
(***************************************************************************)
DownStaysDown ==
  \A p \in Projects :
    promise[p] = "down" => made[p] = "absent" /\ desired[p] # "running"

(***************************************************************************)
(* A project whose container.deploy was answered with success, and that no *)
(* other command has worked on meanwhile or since, runs what was deployed  *)
(* whenever the agent serves, after any restart and reboot too, unless     *)
(* recovery has failed on it and said so in the log.                       *)
(***************************************************************************)
DeployedComesBack ==
  phase = "serving" =>
    \A p \in Projects :
      promise[p] \in Versions => made[p] = promise[p] /\ p \in runs
=============================================================================
