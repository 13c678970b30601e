-------------------------------- MODULE Nginx --------------------------------
(***************************************************************************)
(* The reverse proxy: nginx.deploy and nginx.update_config of              *)
(* handlers/nginx_cmd.rs, the watchdog of nginx.rs, the table              *)
(* nginx_configs, and the two files and the container they all use.        *)
(*                                                                         *)
(*   - nginx.update_config vets a configuration, writes it to the          *)
(*     temporary file, has nginx test that path, stores the configuration, *)
(*     renames the file over the live one and reloads.                     *)
(*   - nginx.deploy replaces the container; a configuration that comes     *)
(*     with it is stored and written over the live file untested.          *)
(*   - The watchdog runs a container that stopped, and when a running one  *)
(*     is not healthy does as nginx.update_config does with the newest     *)
(*     stored configuration, but for storing it.                           *)
(*                                                                         *)
(* Commands and watchdog run on different threads, so each file operation, *)
(* podman call and statement is a step.  fs::write is two: it opens and    *)
(* truncates the file, then fills it.  What is open stays open when the    *)
(* file is renamed or removed.                                             *)
(*                                                                         *)
(* The container has an /etc/nginx of its own: podman run mounts nothing.  *)
(* Neither nginx -t, nor a reload, nor the health check is known to see    *)
(* the files written here, so what they answer is left open.               *)
(*                                                                         *)
(* Abstractions: a configuration is known by what the allow-list walker    *)
(* says of it, "torn" is a file cut short or mixed of several; that        *)
(* podman, the disk or a SELECT fails is a state of the host; the 60 s     *)
(* tick and the backoff are left open; an INSERT is one step.              *)
(***************************************************************************)
EXTENDS Naturals

CONSTANTS
  Slots,        \* commands that can be in progress at once
  Configs,      \* configurations the dashboard may send
  Accepted,     \* those the walker lets pass
  MaxRedeploys, \* MAX_REDEPLOY_ATTEMPTS
  MaxRows       \* bound on the INSERTs

ASSUME ConfigAssumption ==
  /\ Accepted \subseteq Configs
  /\ {"absent", "empty", "torn", "edited"} \intersect Configs = {}
  /\ {"watchdog", "none"} \intersect Slots = {}
  /\ MaxRedeploys \in Nat \ {0}
  /\ MaxRows \in Nat

VARIABLES
  live,         \* /etc/nginx/conf.d/helmly.conf
  tmp,          \* helmly.conf.new
  rows,         \* nginx_configs: the stored configurations and their times
  inserts,      \* PostgreSQL's NOW(), as seen by INSERTs
  container,    \* helmly-nginx
  task,         \* where each command and the watchdog are
  up,           \* the agent runs
  hostOk,       \* podman and the disk do what they are asked
  renamed,      \* history: whose rename gave the live file its content
  alone,        \* history: the task that has the temporary file to itself
  sole          \* history: the task nobody interfered with since it began

fileVars == <<live, tmp, renamed, alone>>
rowVars == <<rows, inserts>>
hostVars == <<up, hostOk>>
vars == <<fileVars, container, rowVars, hostVars, task, sole>>

Watchdog == "watchdog"
Actors == Slots \union {Watchdog}

\* Nothing in it yet, a prefix or a mixture, an operator's own.
Content == Configs \union {"absent", "empty", "torn", "edited"}

Row == [at : 1 .. MaxRows, cfg : Configs]

(***************************************************************************)
(* A command "stopped" and "removed" the container and left the new one    *)
(* "running"; it has "written" the temporary file, had it "tested",        *)
(* "inserted" the row and "persisted" the table, "placed" the live file.   *)
(* The watchdog is "selecting" and has "selected" a configuration, or is   *)
(* "redeploying" for the n-th time.  Whoever is "filling" writes to the    *)
(* file that now has the name "to", or to one without a name.              *)
(***************************************************************************)
Place ==
  {"stopped", "removed", "running", "selected", "written", "tested", "inserted",
   "persisted", "placed"}

Kind == {"deploy", "update", "restore"}

Task ==
  [at : {"idle", "selecting"}]
    \union [at : {"redeploying"}, n : 1 .. MaxRedeploys]
    \union [at : Place, kind : Kind, cfg : Configs \union {"absent"}]
    \union [at : {"filling"}, kind : Kind, cfg : Configs, to : {"tmp", "live", "gone"}]

TypeOK ==
  /\ live \in Content
  /\ tmp \in Content \ {"edited"}
  /\ renamed \in {"no", "alone", "contested"}
  /\ alone \in Actors \union {"none"}
  /\ rows \subseteq Row
  /\ inserts \in 0 .. MaxRows
  /\ container \in {"absent", "exited", "running"}
  /\ task \in [Actors -> Task]
  /\ up \in BOOLEAN
  /\ hostOk \in BOOLEAN
  /\ sole \in Actors \union {"none"}

Idle == [at |-> "idle"]

Init ==
  /\ live = "absent"
  /\ tmp = "absent"
  /\ renamed = "no"
  /\ alone = "none"
  /\ rows = {}
  /\ inserts = 0
  /\ container = "absent"
  /\ task = [a \in Actors |-> Idle]
  /\ up = TRUE
  /\ hostOk = TRUE
  /\ sole = "none"

-----------------------------------------------------------------------------
At(a, place) == task[a].at = place

Become(a, t) == task' = [task EXCEPT ![a] = t]

Went(a, place) == [at |-> place, kind |-> task[a].kind, cfg |-> task[a].cfg]

Advance(a, place) == Become(a, Went(a, place))

Quiet(S) == \A a \in S : At(a, "idle")

\* A task that begins is the sole one if no other is under way, and no longer
\* is once another begins or an operator interferes.
Start(a) == sole' = IF Quiet(Actors) THEN a ELSE "none"

Free(a) == up /\ At(a, "idle")

Begin(a, t) == Free(a) /\ Become(a, t) /\ Start(a)

IsNewest(r) == r \in rows /\ \A x \in rows : x.at <= r.at

\* From the truncation of the temporary file to its rename.
UsesTmp(a) ==
  /\ task[a].at \in {"filling", "written", "tested", "inserted", "persisted"}
  /\ task[a].kind # "deploy"

-----------------------------------------------------------------------------
(***************************************************************************)
(* The container.                                                          *)
(***************************************************************************)

\* podman run --name helmly-nginx succeeds: the name is free.  Whether nginx
\* then stays up is its image's business.
Run ==
  /\ hostOk /\ container = "absent"
  /\ container' \in {"running", "exited"}

RunFails == ~hostOk \/ container # "absent"

\* nginx -t -c <tmp> may find the file, and may like it.
MayPass == hostOk /\ container = "running"

-----------------------------------------------------------------------------
(***************************************************************************)
(* The files.                                                              *)
(***************************************************************************)

\* The files that tasks have open are now under other names.
Follow(ts, names) ==
  [a \in Actors |-> IF ts[a].at = "filling" THEN [ts[a] EXCEPT !.to = names[@]] ELSE ts[a]]

WhenRenamed == [tmp |-> "live", live |-> "gone", gone |-> "gone"]
WhenRemoved == [tmp |-> "gone", live |-> "live", gone |-> "gone"]

\* What a task leaves in a file that held something: its configuration, or part
\* of it; with what others wrote there it may be mixed.
Shared(a) == \E b \in Actors \ {a} : At(b, "filling") /\ task[b].to = task[a].to

Filled(a, held) ==
  IF ~hostOk THEN {held, "torn"}
  ELSE {task[a].cfg} \union {"torn" : x \in {TRUE} \intersect {held # "empty" \/ Shared(a)}}

\* fs::write, after the file was opened and truncated.
Fill(a) ==
  /\ At(a, "filling")
  /\ \/ task[a].to = "tmp" /\ tmp' \in Filled(a, tmp) /\ UNCHANGED live
     \/ task[a].to = "live" /\ live' \in Filled(a, live) /\ UNCHANGED tmp
     \/ task[a].to = "gone" /\ UNCHANGED <<live, tmp>>
  /\ IF task[a].kind = "deploy" THEN Advance(a, "placed")
     ELSE IF hostOk THEN Advance(a, "written")
     ELSE Become(a, Idle)
  /\ UNCHANGED <<renamed, alone, container, rowVars, hostVars, sole>>

-----------------------------------------------------------------------------
\* Faulty variants of operators below: a cleanup that keeps the oldest row, a
\* rename whose error is ignored, a restore that trusts the table, a fourth
\* attempt.
PurgeOldest(a) ==
  /\ At(a, "inserted")
  /\ rows' = {r \in rows : \A x \in rows : r.at <= x.at}
  /\ Advance(a, "persisted")
  /\ UNCHANGED <<fileVars, container, inserts, hostVars, sole>>

IgnoreError(a) ==
  /\ hostOk => tmp = "absent"
  /\ Advance(a, "placed")
  /\ UNCHANGED <<fileVars, container, rowVars, hostVars, sole>>

SelectUnvetted ==
  /\ At(Watchdog, "selecting")
  /\ \E r \in rows :
       /\ IsNewest(r)
       /\ tmp' = "empty"
       /\ Become(Watchdog, [at |-> "filling", to |-> "tmp", kind |-> "restore", cfg |-> r.cfg])
  /\ UNCHANGED <<live, renamed, alone, container, rowVars, hostVars, sole>>

RedeployOnceMore ==
  /\ At(Watchdog, "redeploying")
  /\ RunFails
  /\ Become(Watchdog, IF task[Watchdog].n > MaxRedeploys THEN Idle
                      ELSE [task[Watchdog] EXCEPT !.n = @ + 1])
  /\ UNCHANGED <<fileVars, container, rowVars, hostVars, sole>>

-----------------------------------------------------------------------------
(***************************************************************************)
(* persist_config: INSERT, then DELETE all rows but the newest, whose      *)
(* error is ignored.                                                       *)
(***************************************************************************)
Insert(a) ==
  /\ \/ At(a, "tested") /\ task[a].kind = "update"
     \/ At(a, "running")
  /\ inserts < MaxRows
  /\ inserts' = inserts + 1
  /\ rows' = rows \union {[at |-> inserts', cfg |-> task[a].cfg]}
  /\ Advance(a, "inserted")
  /\ UNCHANGED <<fileVars, container, hostVars, sole>>

Purge(a) ==
  /\ At(a, "inserted")
  /\ rows' \in {rows, {r \in rows : IsNewest(r)}}
  /\ Advance(a, "persisted")
  /\ UNCHANGED <<fileVars, container, inserts, hostVars, sole>>

\* The INSERT fails, or the HTTP client goes away at one of these awaits.
PersistEnds(a) ==
  /\ \/ At(a, "tested") /\ task[a].kind = "update"
     \/ At(a, "running")
     \/ At(a, "inserted")
  /\ Become(a, Idle)
  /\ UNCHANGED <<fileVars, container, rowVars, hostVars, sole>>

-----------------------------------------------------------------------------
(***************************************************************************)
(* nginx.update_config, and the steps restore_nginx_config shares with it. *)
(***************************************************************************)

\* Faulty variant: the temporary file is created and must not exist.
OpenTmpAnew(a, c, kind) ==
  /\ hostOk
  /\ \/ /\ tmp = "absent"
        /\ tmp' = "empty"
        /\ alone' = IF \E b \in Actors \ {a} : UsesTmp(b) THEN "none" ELSE a
        /\ Become(a, [at |-> "filling", to |-> "tmp", kind |-> kind, cfg |-> c])
     \/ tmp # "absent" /\ Become(a, Idle) /\ UNCHANGED <<tmp, alone>>
  /\ UNCHANGED <<live, renamed, container, rowVars, hostVars>>

\* fs::write opens and truncates the temporary file.
OpenTmp(a, c, kind) ==
  /\ hostOk
  /\ tmp' = "empty"
  /\ alone' = IF \E b \in Actors \ {a} : UsesTmp(b) THEN "none" ELSE a
  /\ Become(a, [at |-> "filling", to |-> "tmp", kind |-> kind, cfg |-> c])
  /\ UNCHANGED <<live, renamed, container, rowVars, hostVars>>

\* The walker accepts the configuration, or the command ends here.
BeginUpdate(a, c) ==
  /\ Free(a)
  /\ c \in Accepted
  /\ OpenTmp(a, c, "update")
  /\ Start(a)

\* A failed test removes the temporary file, if the disk lets it.
TestPasses(a) ==
  /\ At(a, "written")
  /\ MayPass
  /\ Advance(a, "tested")
  /\ UNCHANGED <<fileVars, container, rowVars, hostVars, sole>>

TestFails(a) ==
  /\ At(a, "written")
  /\ \/ tmp' = "absent" /\ task' = [Follow(task, WhenRemoved) EXCEPT ![a] = Idle]
     \/ ~hostOk /\ UNCHANGED tmp /\ Become(a, Idle)
  /\ UNCHANGED <<live, renamed, alone, container, rowVars, hostVars, sole>>

\* rename(tmp, live), for an update once the configuration is stored.
Rename(a) ==
  /\ hostOk /\ tmp # "absent"
  /\ live' = tmp
  /\ tmp' = "absent"
  /\ renamed' = IF alone = a THEN "alone" ELSE "contested"
  /\ task' = [Follow(task, WhenRenamed) EXCEPT ![a] = Went(a, "placed")]
  /\ UNCHANGED <<alone, container, rowVars, hostVars, sole>>

RenameFails(a) ==
  /\ ~hostOk \/ tmp = "absent"
  /\ Become(a, Idle)
  /\ UNCHANGED <<fileVars, container, rowVars, hostVars, sole>>

Swap(a) ==
  /\ \/ At(a, "persisted") /\ task[a].kind = "update"
     \/ At(a, "tested") /\ task[a].kind = "restore"
  /\ Rename(a) \/ RenameFails(a)

\* nginx -s reload reloads what the container has; the task ends either way.
Finish(a) ==
  /\ At(a, "placed")
  /\ Become(a, Idle)
  /\ UNCHANGED <<fileVars, container, rowVars, hostVars, sole>>

-----------------------------------------------------------------------------
(***************************************************************************)
(* nginx.deploy: podman stop, rm and run, the first two as far as they     *)
(* succeed; then the configuration, if one came along.                     *)
(***************************************************************************)
BeginDeploy(a, c) ==
  /\ Begin(a, [at |-> "stopped", kind |-> "deploy", cfg |-> c])
  /\ container' = IF hostOk /\ container = "running" THEN "exited" ELSE container
  /\ UNCHANGED <<fileVars, rowVars, hostVars>>

RemoveContainer(a) ==
  /\ At(a, "stopped")
  /\ container' = IF hostOk /\ container = "exited" THEN "absent" ELSE container
  /\ Advance(a, "removed")
  /\ UNCHANGED <<fileVars, rowVars, hostVars, sole>>

RunContainer(a) ==
  /\ At(a, "removed")
  /\ \/ Run /\ IF task[a].cfg = "absent" THEN Become(a, Idle) ELSE Advance(a, "running")
     \/ RunFails /\ Become(a, Idle) /\ UNCHANGED container
  /\ UNCHANGED <<fileVars, rowVars, hostVars, sole>>

\* fs::write opens and truncates the live file; its failure is logged.
OpenLive(a) ==
  /\ At(a, "persisted") /\ task[a].kind = "deploy"
  /\ \/ /\ hostOk
        /\ live' = "empty"
        /\ renamed' = "no"
        /\ Become(a, [at |-> "filling", to |-> "live", kind |-> "deploy", cfg |-> task[a].cfg])
     \/ ~hostOk /\ Advance(a, "placed") /\ UNCHANGED <<live, renamed>>
  /\ UNCHANGED <<tmp, alone, container, rowVars, hostVars, sole>>

-----------------------------------------------------------------------------
(***************************************************************************)
(* The watchdog.                                                           *)
(***************************************************************************)
BeginRestore == Begin(Watchdog, [at |-> "selecting"])

\* check_nginx: a container that exists and does not run is run again; when a
\* running one does not answer GET /_health, the configuration is restored.
Check ==
  /\ hostOk
  /\ \/ container = "exited" /\ Begin(Watchdog, [at |-> "redeploying", n |-> 1])
     \/ container = "running" /\ BeginRestore
  /\ UNCHANGED <<fileVars, container, rowVars, hostVars>>

\* restore_nginx_config: SELECT the newest row, and ask the walker again.
Select ==
  /\ At(Watchdog, "selecting")
  /\ \/ \E r \in rows :
          /\ hostOk /\ IsNewest(r) /\ r.cfg \in Accepted
          /\ Become(Watchdog, [at |-> "selected", kind |-> "restore", cfg |-> r.cfg])
     \/ /\ ~hostOk \/ \A r \in rows : IsNewest(r) => r.cfg \notin Accepted
        /\ Become(Watchdog, Idle)
  /\ UNCHANGED <<fileVars, container, rowVars, hostVars, sole>>

Restore ==
  /\ At(Watchdog, "selected")
  /\ \/ OpenTmp(Watchdog, task[Watchdog].cfg, "restore")
     \/ ~hostOk /\ Become(Watchdog, Idle) /\ UNCHANGED <<fileVars, container, rowVars, hostVars>>
  /\ UNCHANGED sole

\* podman run, up to three times.
Redeploy ==
  /\ At(Watchdog, "redeploying")
  /\ \/ Run /\ Become(Watchdog, Idle)
     \/ /\ RunFails
        /\ Become(Watchdog, IF task[Watchdog].n = MaxRedeploys THEN Idle
                            ELSE [task[Watchdog] EXCEPT !.n = @ + 1])
        /\ UNCHANGED container
  /\ UNCHANGED <<fileVars, rowVars, hostVars, sole>>

-----------------------------------------------------------------------------
(***************************************************************************)
(* The environment: the host, nginx, an operator, restarts.                *)
(***************************************************************************)
HostFlips ==
  /\ hostOk' = ~hostOk
  /\ UNCHANGED <<fileVars, container, rowVars, up, task, sole>>

\* An operator writes a configuration of their own.
Edit ==
  /\ live' = "edited"
  /\ renamed' = "no"
  /\ sole' = "none"
  /\ UNCHANGED <<tmp, alone, container, rowVars, hostVars, task>>

\* The container is stopped, ends by itself or is started again.
ContainerRestarts ==
  /\ container # "absent"
  /\ container' \in {"running", "exited"}
  /\ UNCHANGED <<fileVars, rowVars, hostVars, task, sole>>

AgentStops ==
  /\ up
  /\ up' = FALSE
  /\ task' = [a \in Actors |-> Idle]
  /\ UNCHANGED <<fileVars, container, rowVars, hostOk, sole>>

AgentStarts ==
  /\ ~up
  /\ up' = TRUE
  /\ UNCHANGED <<fileVars, container, rowVars, hostOk, task, sole>>

CommandBegins(a) ==
  \/ \E c \in Configs : BeginUpdate(a, c)
  \/ \E c \in Configs \union {"absent"} : BeginDeploy(a, c)

CommandStep(a) ==
  \/ Insert(a) \/ Purge(a) \/ PersistEnds(a)
  \/ Fill(a) \/ TestPasses(a) \/ TestFails(a) \/ Swap(a) \/ Finish(a)
  \/ RemoveContainer(a) \/ RunContainer(a) \/ OpenLive(a)

WatchdogStep ==
  \/ Select \/ Restore \/ Redeploy
  \/ Fill(Watchdog) \/ TestPasses(Watchdog) \/ TestFails(Watchdog)
  \/ Swap(Watchdog) \/ Finish(Watchdog)

Next ==
  \/ \E a \in Slots : CommandBegins(a) \/ CommandStep(a)
  \/ Check \/ WatchdogStep
  \/ HostFlips \/ Edit \/ ContainerRestarts \/ AgentStops \/ AgentStarts

(***************************************************************************)
(* The watchdog ticks for ever and what it has begun runs on.  Nothing     *)
(* obliges the dashboard to send commands, the host to work, or nginx to   *)
(* answer.                                                                 *)
(***************************************************************************)
Fairness == WF_vars(Check) /\ WF_vars(WatchdogStep)

Spec == Init /\ [][Next]_vars /\ Fairness

-----------------------------------------------------------------------------
(***************************************************************************)
(* Commands and the watchdog write, test, remove and rename one temporary  *)
(* file.  What a rename makes live is a configuration that has passed the  *)
(* allow-list walker, if no other task used the file in the meantime;      *)
(* otherwise it may also be one cut short or mixed of several, but never   *)
(* one that the walker refused.  So too after whoever still had the file   *)
(* open has filled it.                                                     *)
(***************************************************************************)
RenamedIsAccepted ==
  /\ renamed = "alone" => live \in Accepted
  /\ renamed = "contested" => live \in Accepted \union {"empty", "torn"}

(***************************************************************************)
(* However the INSERTs and cleanups of concurrent commands interleave, the *)
(* configuration stored last is in the table, for the watchdog to find.    *)
(***************************************************************************)
NewestStays == inserts > 0 => \E r \in rows : r.at = inserts

(***************************************************************************)
(* An update that nobody interfered with and that comes to the reload has  *)
(* its configuration both in the live file and in the newest row, whatever *)
(* earlier tasks left behind in the files and the table.                   *)
(***************************************************************************)
LoneUpdateTakes ==
  \A a \in Slots :
    sole = a /\ At(a, "placed") /\ task[a].kind = "update"
      => /\ live = task[a].cfg
         /\ \E r \in rows : IsNewest(r) /\ r.cfg = task[a].cfg

(***************************************************************************)
(* Once nobody sends commands, edits files or stops the agent, podman and  *)
(* the disk work, and the container runs but is found unhealthy again and  *)
(* again, the live file ends up as the configuration stored last, if the   *)
(* walker accepts that and nginx -t refuses the watchdog no more, whatever *)
(* crashes and races left in the files.  Whether nginx then becomes        *)
(* healthy is another matter.                                              *)
(***************************************************************************)
Restorable ==
  /\ up /\ hostOk
  /\ container = "running"
  /\ Quiet(Slots)
  /\ \E r \in rows : IsNewest(r) /\ r.cfg \in Accepted

FileRestored ==
  /\ <>[]Restorable
  /\ []<>At(Watchdog, "selecting")
  /\ <>[][~Edit /\ ~TestFails(Watchdog)]_vars
  => <>[](\E r \in rows : IsNewest(r) /\ live = r.cfg)
=============================================================================
