# helmly-agent: a TLA+ model, its checks and its proofs

helmly-agent is a single tokio process that runs on a tenant's VPS next to a
local PostgreSQL. A remote dashboard commands it over HTTPS and over a WebSocket
session the agent opens. The agent verifies each signed command, runs it
(nftables, nginx, containers, WireGuard, its own update), and appends an audit
row; background tasks watch PostgreSQL, the heartbeat, nftables, nginx and
conflicting software, and copy the audit log to the dashboard.

This directory holds TLA+ modules translated from `src/internal/`, the TLC
configurations that check them on small instances, and TLAPS proofs of the main
properties for every value of the constants.

    tlc -workers 2 -config MCLockdown.cfg MCLockdown     # a run
    tlapm GateProofs.tla                                 # its proofs

Paths below are relative to `src/internal/` unless they say otherwise.

## Inventory

### Components, their state and their operations

| Component | Code | State | Operations | Correct when |
|---|---|---|---|---|
| Command authentication | `auth/mod.rs`, cleanup task in `main.rs` | table `used_nonces` | `verify_command`: envelope checks, DELETE of old nonces, INSERT of the nonce; hourly cleanup | a signed command runs at most once, and near its timestamp |
| Lockdown | `state.rs`, watchdogs in `main.rs`, `conflict.rs`, `nftables/divergence.rs` | `lockdown` flag, `lockdown_reason`, `last_heartbeat` | `set_lockdown`, `clear_lockdown_if_heartbeat`, heartbeat and PostgreSQL watchdogs | never locked without a reason; a sticky lockdown ends with a restart only; silence locks; an agent acknowledged in time stays unlocked |
| Audit log | `audit/mod.rs` | table `audit_log`, a hash chain | `append`: read last row, insert | every row links back to genesis; one chain, in order, until two appends race |
| Audit sync | `sync/mod.rs` | table `sync_state` (cursor) | batch, POST, move or reset cursor | until two appends race, the dashboard holds a prefix of the log, and gets all of it |
| Command pipeline | `handlers/system.rs`, `state.rs`, `error.rs` | rate limiter window and count | gate, rate limit, verification, dispatch, audit row, answer | no command that came in under a lockdown runs; an answer agrees with the log; no effect is lost from sight; a stretch of a minute sees fewer than twice the limit |
| nftables | `handlers/nftables.rs`, `nftables/` | chain bodies in memory and in PostgreSQL, expected checksum, last ruleset, `nftables.conf`, the live table | apply, restore, accept, close setup port, divergence check | the table converges to what was last approved |
| Conflict monitor | `conflict.rs` | none of its own | detect, remove, lock down | see Lockdown |
| Self-update | `update/`, `handlers/system.rs`, `main.rs` | the binary, `.new`, `.prev`, `last_dashboard_contact` | download, back up, swap, health check, rollback, fallback updater | no update leaves a binary that cannot be executed unless it met another; a version that never serves is rolled back; an agent left alone becomes current |
| WebSocket client | `ws_client.rs` | the session | heartbeat, read command, reconnect with backoff | commands and acknowledgements keep flowing |
| HTTP server and TLS | `server.rs`, `main.rs`, `tls_keypair.rs` | certificates | `/cmd`, `/heartbeat`, `/health` | see the pipeline |
| nginx | `nginx.rs`, `handlers/nginx_cmd.rs` | the container, the live file, the temporary file, table `nginx_configs` | `nginx.deploy`, `nginx.update_config`, watchdog's redeploy and restore | no rename makes live what the walker refused; the last configuration stays stored; a lone update ends on disk and in the table; when nginx stays unhealthy the stored configuration comes back on disk |
| Container deployments | `handlers/containers.rs`, `podman/`, `main.rs` | table `container_deployments`, compose files, containers, system users, `/etc/subuid`, `/etc/subgid` | `tenant.ensure`; deploy, down, start, stop, restart, remove; recovery at startup | id ranges of tenants are disjoint; what was taken down stays down; what was deployed comes back |
| Secret rotation, migration | `handlers/system.rs` | database password, podman secret, credentials file, certificates, dashboard address | `db.rotate_password`, `cert.update`, `dashboard.migrate` | a rotation that ended alone survives every restart; the agent comes up again |
| WireGuard | `handlers/wireguard.rs` | the dashboard's PSK in the kernel, in `credentials/` and in `helmly-wg.conf`; tunnels and peers | `wg.rotate_psk`; add and remove tunnels and peers | kernel and conf agree on the PSK after a reboot |
| Configuration, keyring | `config.rs`, `cert.rs` | keyring file and its temporary, environment | seed, load | a start never finds half a keyring |
| Validation, metrics, scripts | `handlers/validate.rs`, `metrics/`, `src/*.sh` | none | | |

### How they interact

- Everything shares `AppState` (`Arc`s of atomics and mutexes) and one
  PostgreSQL pool. There is no lock around a command: an HTTP `/cmd`, an HTTP
  `/heartbeat`, the WebSocket session and six background tasks run concurrently
  and interleave at every `await` (and, on tokio's worker threads, between any
  two accesses of shared atomics).
- `/cmd` and the WebSocket session both go through `verify_command`, then the
  lockdown test and the rate limiter, the handler, and `audit::append`.
- An acknowledgement (`agent.heartbeat_ack`) passes the same gate without the
  timestamp check, resets `last_heartbeat` and calls
  `clear_lockdown_if_heartbeat`.
- The nginx watchdog and the conflict monitor append to the audit log without
  having been commanded. The watchdog also writes the files, and drives the
  container, that the nginx commands do.
- At startup, before anything is served, `main.rs` brings up every project that
  `container_deployments` wants running, from the compose file that is on disk.
- What a rotation of a secret left in its files is what the next start reads.
- The sync task reads what all of these append.
- The divergence check compares the live table with the checksum the nftables
  handlers record, and locks the agent down when it cannot restore.
- `update.self` and the fallback updater both call `perform_update`, which ends
  the process for systemd to start the new binary; the health guard of that
  start may put the old one back and end the process again. Either `exit` cuts
  short whatever else the process is doing.

### What is hard here

Interleavings of two handlers between two SQL statements (nonce purge and
insert; audit read and insert); a flag and its reason that are two variables;
state tested before an `await` and used after; messages that are delivered twice,
late or not at all; a POST that times out and is processed all the same; a file
of which half is written; a file two tasks share; a secret that is changed in one
place and not yet in the next; a handler dropped at an `await` because its client
left; a restart anywhere. `PROJECT.json` lists the hazards, each at its line, with
the properties that would catch it, and says what those leave open and which
hazards no property covers.

## Modules

| Module | Models |
|---|---|
| `CommandAuth` | the gate in front of every signed command |
| `CommandPipeline` | a command from its channel to its audit row, over `AuditLog` |
| `CommandPipelineProofs` | its theorems |
| `Lockdown` | flag, reason, watchdogs, acknowledgements |
| `GateProofs` | the theorems of `CommandAuth` and `Lockdown`, the two gates in front of a handler |
| `AuditLog` | the hash-chained table with any number of appends in progress |
| `AuditSync` | `AuditLog` composed with the sync task and an external dashboard |
| `AuditSyncProofs` | the theorems of both |
| `Replica` | the abstract specification of the sync: a copy that is a prefix of a log, both sets of entries ordered by a field |
| `AuditReplica` | the refinement mapping from `AuditSync` to `Replica` |
| `Nftables` | the firewall: commands, divergence check, start, outsiders |
| `NftablesProofs` | its theorems |
| `SelfUpdate` | binary, backup and download; updates, health guard, fallback updater, systemd |
| `SelfUpdateProofs` | its theorems |
| `Nginx` | nginx commands and watchdog over two files, a table and a container |
| `NginxProofs` | its theorems |
| `Tenants` | `tenant.ensure`: users and their id ranges |
| `Deployments` | `Tenants` with deployments, their files, rows and containers, and the recovery |
| `DeploymentsProofs` | the theorems of both |
| `Secrets` | rotations of password and PSK, the keyring, and the start that reads them |
| `SecretsProofs` | its theorems |
| `MC*` | constants for TLC |

`PROJECT.json` maps each definition to its lines. Definitions below a comment
"Faulty variants" are deliberate mistakes (a dropped `abs`, a swapped order, a
missing reset): no specification uses them; put in the place of the definition
they vary, each makes one property fail, which is how we know that the property
can fail.

### CommandAuth

`verify_command` is cut where other tasks can run: `CheckEnvelope` is everything
before the first `await` (signature, agent id, freshness), `Purge` the DELETE,
`InsertNonce` / `InsertUnacknowledged` / `RefuseUsed` the INSERT with its three
outcomes, `DatabaseError` a failure without effect, `Dispatch` the return to the
caller, who runs the command. `Cleanup` is the hourly task, `Restart` loses the
requests and keeps the table. The environment may present a copy of any
envelope at any time, so loss, duplication, delay and reordering need no action
of their own.

`used_nonces` is keyed by nonce; the model's set of rows is too, since `Consume`
inserts only an unknown nonce. `now` is both `Utc::now()` and `NOW()`: the
database is a container on the same machine. A clock that is set back is outside
the model. `consumed` and `applied` are history variables.

`MaxStall` bounds the time between the freshness check and the INSERT. The code
has no bound of its own on it, other than the pool's timeouts; with 30 s and
5 minutes, `RetentionAssumption` (`2 * Skew + MaxStall <= Retention`) says that
a request may stall for 240 s.

### Lockdown

One variable per field of `AppState`. A task goes `idle` → `triggered` (before
`is_locked_down()`, for the two watchdogs that test it) → `entering` → `flagged`
(the flag is stored, the reason not yet) → `idle`. An acknowledgement goes
`verified` → `timed` (the timer is reset) → done. `clear_lockdown_if_heartbeat`
is one step: it holds the reason's mutex, and its only store that others can see
before it unlocks is the flag's. `age` is `last_heartbeat.elapsed()`, saturated
just past the timeout. The module is proved about together with `CommandAuth`, so
its definitions have names of their own: `LockdownInit`, `LockdownSpec`,
`AgentRestarts`, `TimePasses`.

Whether a conflict can be removed or a ruleset restored is left open: `Fail` may
happen at any time, before and after a lockdown.

### CommandPipeline

A request is cut where others can run: `Receive` is gate and rate limiter, with no
`await` between them; `Verify` is `verify_command`, one step here; `Dispatch` is the
return of the handler, with its result; `AppendStarts`, `AppendSucceeds` and
`AppendFails` are `audit::append` and the answer, the append being `AuditLog`'s
own steps (a request is one of its writers). `limited`, `refused` and `done` are the
three places `append` is called from. `Cancel` drops the handler of an HTTP client
that left, at any `await`; the WebSocket session, one of the writers, is never
dropped, because `ws_client.rs` awaits the message inside its select loop
(`LinkChanges` needs it idle). `Heartbeat` is `POST /heartbeat`, which has neither
limit nor row.

The row of a command over the limit cannot be inserted: `CHECK` in
`src/migrations/001_init.sql` does not know `rejected_rate_limit`.

`admitted`, `effects`, `logged`, `told` and `excused` are history variables;
`admitted` holds the times of the commands the limiter let through since the
agent started, in their order. An
effect is *excused* when its caller was told of a failure or was not there any
more.

Left out: what the handlers do, which is for the other modules (a handler that is
dropped half-way has no result here); bearer token and JSON errors, which come
before any state; the counter of rejections, which feeds a log line.

### AuditLog, AuditSync

A row is the time its INSERT started (`created_at`, which orders the log and is
the cursor's unit) and its `previous_hash`. The time also stands for the row's own
hash, which is sound while `created_at` is unique. `ReadLast` and `StartInsert`
are the two statements of `append`; `CommitInsert` comes later, for PostgreSQL
fixes `NOW()` at the start of the statement and others see the row when it is
committed.

The sync task is `PostBatch` (both SELECTs and the request), then `Answer`,
`PostFails` or `PostTimesOut`, then `SaveCursor`, `ResetCursor` or `AnswerLost`.
A batch that timed out, or was under way when the agent restarted, is in `late`
and may reach the dashboard in any later state.

The dashboard is not in this repository. From how `sync/mod.rs` uses it, it
drops entries it has and answers 422, storing nothing, unless the remaining ones
continue its chain (`Accepts`, `Receive`); `DashboardRestore` sets it back to a
prefix of what it had, as the comment at `sync/mod.rs:97-99` foresees. These
definitions are marked external.

Nothing in the code keeps two appends apart, and in the model they race as they
please. Two history variables tell when a race did damage: a writer is
`overtaken` when another's INSERT commits between its SELECT and its own commit,
and `raced` becomes true when an overtaken writer's row is committed all the
same (`Track`, part of every step of the log). Appends that merely overlap, fail,
or are cut short by a restart do not set it. `Replica`, the abstract
specification, makes its promise until its log is `broken`, which `AuditReplica`
maps to `raced`; after that any step is a `Lapse`.

Left out: rows changed by anything but `append`; two rows with one `created_at`
(with a tie at the boundary of a batch the exclusive cursor would skip one); an
orphaned INSERT whose fate is decided after its writer appended again.

### Nftables

`table` is the kernel's, `bodies`, `expected` and `last` are fields of
`AppState`, `stored` the rows of `nftables_state`, and `proc` says where each
command, and the monitor, is. The monitor is the divergence check; before that it
is the start of the agent, during which nothing else runs (`Serving`). Handlers
have no lock and no await before their `UPDATE`, but they run on several worker
threads: a process is cut at every access of what another can see, so apply is
`rendering` → `loading` → `listing` → `recording` → `saving` → `storing`, with
`LoadFails` and `ListFails` on the way. Restore, accept, the check's `restore_with`
and the start share these actions; `Saves(p)` and `Abort(p)` are where they differ.

A ruleset is what its base chain holds (`open` and `closed`: with and without the
setup port; `edited`: an outsider's; `emergency`; `none`: no table, or an empty
text) and the bodies of the other chains. A checksum is the table it was computed
from: the model assumes no SHA-256 collision and that a loaded ruleset is listed
the same way each time. Which bodies nft refuses is a constant, `Rejected`.

Left out: the WireGuard port, which goes through the same steps as a body but is
never refused; the per-chain checksums, which name a chain in a log line; the file
that `persist_ruleset` writes for `nftables.service` and the agent never reads;
the notification of the dashboard, a POST whose answer is ignored; an outsider
who opens the setup port.

### SelfUpdate

`target`, `prev` and `new` are the binary, `.prev` and `.new`; a binary is its
version. `running` is the process, `guard` its `run_startup_health_check`
(`polling` → `copying` → `renaming` → `reporting`, then exit), `update` the calls
of `perform_update` in progress (`downloading` → `writing` → `written` →
`copying` → `copied` → `exiting`). `Begin`, which `Command` (`update.self`) and
`Fallback` (of the constant `Updater`) share, is the call; `UpdateFails` is every `?` between there and the
rename, with the files left as they are.

Writing a file takes two steps. In between, and for good if the process ends
there or the disk is full, the file is `Torn`: `fs::write` and `fs::copy` truncate
first. A rename moves the file another call is still writing to; `Follow` keeps
track of where that call's bytes go (`at`). `met` is a history variable: since the process
started, a call began to write `.new` while another was past its download. Nothing
in the code prevents that; it is what the properties are conditional on. `Stop` is
every end of the process, also of what its tasks were doing. systemd's `Start` needs a binary that can be
executed; a `Broken` version then ends at once, before the guard is spawned, which
is as if it had not started. `Good` versions come up (`Listen`), the others, the
mute ones, run and never accept a connection.

`Answered` is the guard's poll: plain HTTP to a listener that, unless
`INSECURE_PLAIN_HTTP` is set, speaks mTLS. The variable `tls` is fixed by the
configuration, and both of its values are initial states.

Left out: the reasons a download is refused; polls of a serving agent that
fail by chance, one of which decides nothing; the CRITICAL file, which the guard
writes and removes and nothing reads; `update-agent.sh`; an agent without
`DASHBOARD_URL`, which has no fallback.

### Nginx

`live` and `tmp` are the two files, `rows` the table, `container` what podman knows
of `helmly-nginx`, `task` where each command and the watchdog is, and `kind` whose
task it is. `nginx.update_config` goes `filling` → `written` → `tested` →
`inserted` → `persisted` → `placed`: the temporary file is opened and filled,
`nginx -t`, the INSERT, the DELETE of all other rows, the rename, and at last
`Finish`, the reload. `nginx.deploy` goes `stopped` → `removed` → `running`, and with
a configuration on to `inserted`, `persisted`, `filling` (of the live file) and
`placed`. The watchdog (`Check`) runs an exited container again (`redeploying`, up to
`MaxRedeploys` times), and for an unhealthy one goes `selecting` → `selected`, then
the way of an update without the table. It is an actor like the commands, and
shares their actions.

`fs::write` is two steps, for either file: `OpenTmp` or `OpenLive` truncates it
(`empty`), `Fill` writes, and may leave it `torn` when the disk fails or another
task writes to the same file. A task that is `filling` has the file open: `to` is
the name its file has now, which another task's rename makes `live` and another's
removal or rename over it makes `gone` (`Follow`). So of two tasks one can test the
temporary file, the other truncate it, and the first rename it, and then the
second fill what is now the live file.

What the container sees is left open. Both `podman run` calls
(`handlers/nginx_cmd.rs:37-50`, `nginx.rs:99-103`) mount nothing, so nginx starts
with its image's `/etc/nginx`, `nginx -t -c` looks for the temporary path there, and
`nginx -s reload` reloads what is there. The model claims nothing about their
outcome: `TestPasses` and `TestFails` are both possible whenever nginx runs
(with no mount only the second one happens, unless the image brings such a file
along), `Check` may find a running container healthy or not, and `Finish` changes no
state. No property speaks of what nginx serves.

A configuration is what the allow-list walker says of it (`Accepted`). `Edit` is an
operator's hand on the live file, `HostFlips` podman or the disk failing or working
again. `AgentStops` and `AgentStarts` are two steps, with the environment's steps
in between. Three history variables: `renamed` says whether the live file came by a
rename and whether the task that renamed had the temporary file to itself from
truncation to rename (`alone`); `sole` is the task that nobody has joined or
interfered with since it began.

Left out: `nginx.install_cert` and `certbot.obtain`, which place certificates;
`close_setup_port`, which is in `Nftables`; the watchdog's backoff.

### Tenants, Deployments

`Tenants` is `ensure_tenant_user` with every program it runs as a step: `AddUser`
(useradd), `ReadRanges` (`next_subid_start`), `AddUids` and `AddGids` (usermod).
A range of 65536 ids is its index. `raced` is a history variable: a command
computed a range while another held one it had not yet entered.

`Deployments` has the same commands (`task`) also deploy (`opened` → `written` →
`up` → `StoreRunning`) and take down (`ComposeDown` → `StoreStopped`), and single
containers started, stopped, restarted and removed, which touch no row. `Fails` is
an error of any step or a client that left. `Restart` is a restart of the agent
or a reboot, after which no container runs; `phase` is then `starting` (the
SELECT), `recovering` (one project of `queue` after another) and `serving`.
`sole` and `promise` are history variables: the command that nobody joined on a
project, and what its caller was told.

Left out: `container.list` and `container.update` (logs, images), which change none
of this; subordinate ranges entered by others; lingering.

### Secrets

`db.rotate_password` goes `altered` (`ALTER USER`) → `stored` (podman secret, best
effort) → `opened` → done (the URL in `credentials/`); `wg.rotate_psk` goes `set` (the
kernel) → `noted` (best effort) → `read` → `emptied` → done (the conf). `GivesUp` is
an error or a client that left. The start goes from `down` over `LoadConfig`, and
for a keyring that is not there `seeding` → `filling` → `renaming`, to `connecting`
and `serving`, or back to `down`. `Expire` and `Reconnect` are the pool, which keeps the
URL it was made with. `sole` and `kept` are history variables: the rotation
nobody joined, and what the last lone one said it has set.

Left out: `cert.update`, which writes files nothing reads again, `dashboard.migrate`,
data-plane tunnels and management peers.

## Runs

| Run | Expect | Bounds | Shows |
|---|---|---|---|
| `auth_delivery` | pass | 4 envelopes (a command, its nonce signed again later, an acknowledgement, one for another agent), 2 nonces, 2 requests, Skew 1, MaxStall 1, Retention 3, clock to 7 | `AtMostOnce`, `ConsumptionsSpaced`, `ConsumedWhileFresh` |
| `command_pipeline` | pass | an HTTP request and the session, 3 commands (a command, an acknowledgement, a forged acknowledgement), Limit 2, Window 2, time to 4, 1 lockdown, 2 rows | `ChainRooted`, `AnswerTellsRow`, `EffectsAccountedFor`, `LessThanTwiceLimit`, `LockdownHolds` |
| `lockdown` | pass | 4 tasks, 2 acknowledgements, Timeout 1 | `LockdownHasReason`, `StickyStays`, `SilenceLocks`, `StaysUnlocked` |
| `audit_fork` | violation | 3 writers, 4 timestamps | two appends that race fork the chain |
| `audit_sync` | pass | 2 writers that race, 3 timestamps, batches of 2, 1 restore | `ForkedOnlyByRace`, `NoRowSkipped`, `IsReplica`, `PendingArrives` |
| `nftables` | pass | 1 command at a time and the monitor, 1 chain, the empty body, one that nft takes and one it refuses | `Installable`, `EmergencyLocks`, `EditUndone`, `Settles` |
| `nft_deleted` | violation | the same | a deleted table is never restored |
| `self_update` | pass | 3 versions (an old good one, a mute one, the latest, good), `update.self` and the fallback at once, 2 polls | `UpdateNeverTears`, `FallbackForward`, `MuteRolledBack`, `UpToDate` |
| `update_tls` | violation | the same | polls of an agent that serves mTLS fail |
| `nginx` | pass | 1 command at a time and the watchdog, 3 configurations (two the walker accepts, one it refuses), 2 attempts, 2 INSERTs | `RenamedIsAccepted`, `NewestStays`, `LoneUpdateTakes`, `FileRestored` |
| `deployments` | pass | 3 commands at a time, 2 tenants, 1 project, 2 compose files | `RangesDisjoint`, `DownStaysDown`, `DeployedComesBack` |
| `secrets` | pass | 2 rotations at a time, 2 PSKs, 3 passwords, 2 restarts | `KeptSurvives`, `RingWhole`, `ComesUp` |

The runs of `nftables`, `self_update`, `command_pipeline`, `nginx`, `deployments` and
`secrets` check `TypeOK` as well; that of the others is proved only.

Why the bounds are enough to be interesting:

- `auth_delivery`: the retention is exactly `2 * Skew + MaxStall`, the tightest
  the assumption allows, and the clock runs past it, so nonces do expire while
  commands are still presented; every off-by-one in `Fresh` or `Expired` breaks
  a property. Two requests are what a race between purge and insert takes.
- `lockdown`: all four tasks exist in the code once. Two acknowledgements are
  the two channels. A timeout of one tick has the timer below, at and past it.
- `command_pipeline`: two requests are what it takes to have one pass the gate
  and be overtaken, or append while the other does. A window of two ticks within
  four has bursts on both sides of a boundary. Nothing bounds the number of
  requests but the two nonces and the two rows; a request that finds neither
  still goes all the way to its failure.
- `audit_fork`: three writers let two rows fork and a third build on either.
- `audit_sync`: two writers are what a race takes. Batches of 2 with up to 3 rows
  give full and partial batches and a second batch posted while the first is
  late; one restore is enough for the 422, the reset and the full resend, with
  older batches still in `late`.
- `nftables`: one command and the monitor are the two actors of every race the
  properties are about, and there is no bound on the number of commands, edits,
  failures or restarts. Chains are independent of one another in everything but
  being rendered together, so one is enough; two bodies distinguish what is live
  from what is wanted, and the third is refused. The proofs cover the invariants
  for any number of handlers, chains and bodies.

- `self_update`: the two callers the code has, at once. One version of each kind
  that starts, in an order that lets the fallback pass over the mute one and an
  operator install any of them, newer or older. A version that ends at once
  (`Broken`) is not among them: like a torn binary, which the run has, it cannot
  be started. Two polls have a first, a last and one past it; the number changes
  nothing else. Updates, crashes, failures and restarts are not bounded. There
  is no deadlock check: with a torn binary installed nothing runs any
  more, and the model is right to stop.
- `nginx`: two INSERTs let a newer row replace an older one; two accepted
  configurations tell the one that was stored from the one that is live, and a
  deployment can store and write one the walker refuses. A command and the
  watchdog are two tasks at the temporary file. One command beside the watchdog is
  what the run can take (with two it has over ten million states), so the
  INSERTs and cleanups of two commands interleave in the proofs only, which hold
  for any number of commands; `FileRestored` is about states in which none is under
  way.
- `deployments`: two of the three commands can race on the project, or for a
  range, while the third does the other. Restarts, failures and commands are not
  bounded.
- `secrets`: the run begins with a password and draws two more, so that a
  rotation follows one that was cut short. Two restarts let the second find what
  the first left behind. There is no deadlock check: an agent whose pool has lost
  its connections after a rotation may serve on without a database, which is
  where the run ends once the restarts are used up.

The races of two appends and of two updates are in the runs. What the code cannot
promise once they did damage is a disjunct of the properties, over the history
variables: `raced` for the log and its copy, `met` for the binary. The disjunct is
as narrow as we could make it, and it is needed: without `raced`, TLC finds the
fork (run `audit_fork`), the row that commits behind the cursor and is never
posted, and the dashboard that refuses the log for good; without `met`, the torn
binary, and the fallback whose rename installs the older version that an
operator's call was writing.

### Fairness

- `Lockdown`: WF on `TimePasses`, on both watchdogs' tests (`loop` over a 30 s
  `interval`) and on steps of code that has started. Nothing obliges the
  dashboard to acknowledge, PostgreSQL to answer or a task to fail; `SilenceLocks`
  is about runs in which the acknowledgements and the restarts end, `StaysUnlocked`
  about runs in which acknowledgements go on, the timer never passes its limit
  again, and the agent is not restarted any more.
- `AuditSync`: WF on `PostBatch` (a 60 s `interval`; the task never returns), SF
  on `Answer`, `SaveCursor` and `ResetCursor`: network, dashboard and PostgreSQL
  may fail any number of times, but a request repeated for ever is answered in
  the end. Without that nothing can be promised. Appends are not fair.
- `Nftables`: WF on the monitor's steps (a 60 s `interval` in a `loop`, and each
  check runs to its end), SF on its `Diverged`, `Load` and `List`: `nft` may fail
  for it any number of times, but not for ever, and an edit does not always
  vanish before it is seen. WF on a handler's `Save`, since no call lies between
  it and `Record`; otherwise a handler may stall anywhere, and no command, edit or
  restart is fair. `Settles` is about runs in which commands, outsiders and
  restarts end.
- `Nginx`: WF on `Check` (a 60 s `interval` in a `loop`) and on `WatchdogStep` (what a
  check has begun runs to its end, on calls that return). Neither the host nor
  nginx is under an obligation to work: `FileRestored` is about runs in which from
  some point on the agent is up, podman and the disk work, the container runs and
  is found unhealthy again and again, no command is under way, the walker
  accepts the newest configuration, nobody edits files, and `nginx -t` refuses the
  watchdog no more. That last assumption is the operator's to fulfil, by an image
  or a `containers.conf` that lets the container see the file; the property is
  about what races and crashes left behind, not about `nginx -t`.
- `Secrets`: WF on `StartStep`: `main.rs` is straight-line code up to serving, and
  systemd starts the agent whenever it is down (`Restart=always`). `ComesUp` speaks
  of starts in which PostgreSQL answers.
- `CommandPipeline` and `Deployments` state no fairness: nothing obliges a client to
  stay, and their properties are safety properties.
- `SelfUpdate`: WF on `Start` (`Restart=always`), on the guard's steps, on the
  fallback updater's call (an hourly `interval` in a `loop`) and on the steps of
  an update that has begun; SF on the guard's copy and rename, which may fail or
  be cut short any number of times, but not whenever they are tried. `Listen`,
  `Contact`, `Silence`, `Command`, `Crash` and `UpdateFails` are not fair.
  `MuteRolledBack` is about runs in which crashes end, `UpToDate` about runs in
  which the process stays up without the dashboard, nobody commands an update and
  the fallback's own ones stop failing.

## Disagreements between the code and its documentation

1. `audit_fork`. `src/docs/security-architecture.md:329` says that a row carries
   the hash of the previous one. Two concurrent appends both carry that of the
   row before both. `ChainRooted` is what does hold.
2. `nft_deleted`. `nftables/divergence.rs:103` says "Auto-restore in all cases".
   A deleted table has no checksum, and `check_once_with` returns at line 73
   before it restores anything. `EditUndone` is what does hold: a table that is
   edited, not deleted, comes back.
3. `update_tls`. `update/mod.rs:88-89` says that the guard restores `.prev` if the
   agent is unhealthy. Its poll is `http://127.0.0.1:9090/health`, and the listener
   there speaks mTLS unless a development switch is set (`main.rs:346-351`;
   `src/setup-agent.sh:1023-1025` configures the certificates). A plain request ends in a
   failed handshake (`server.rs:101-106`), so that in the default configuration
   every poll of a healthy agent fails, and after the last one the guard restores
   `.prev`, if there is one, and exits.

Seen while modelling, and in no run of its own. The gate and the log:

- The comment at `auth/mod.rs:126` says that nonce deduplication protects
  acknowledgements without the timestamp check. Nonces are forgotten after 5
  minutes, so it does for 5 minutes. `AtMostOnce` is about the other commands.
- `state.rs:10-11` says that only a restart clears a lockdown whose reason is not
  the heartbeat. `set_lockdown` stores the flag before the reason (lines 65-67),
  and an acknowledgement in between lowers the flag: the sticky reason is then
  recorded with the flag down. `StickyStays` is what does hold.
- `src/docs/security-architecture.md:409` calls the rate limit a sliding window.
  It is a fixed one; `LessThanTwiceLimit` is what does hold.
- Commands over the limit are never audited: their row violates the CHECK of
  `src/migrations/001_init.sql:9`, and the error is ignored.

The firewall:

- `handlers/nginx_cmd.rs:274` says that the setup port is closed once a domain is
  confirmed. The handler deletes the rule from the live table and leaves the
  expected checksum and the last ruleset alone, so the next divergence check opens
  the port again.
- `src/docs/security-architecture.md:389-391` says that the agent locks down if
  the restore fails and the emergency ruleset fails as well; line 114 of
  `nftables/divergence.rs` locks it down after the first failure whatever becomes
  of the emergency ruleset (`LoadEmergency` and `EmergencyFails` both lead to
  `Lock`, and `EmergencyLocks` relies on it).
- `accept` records an empty last ruleset. The next divergence is "restored" by an
  empty `nft -f`, and the diverged table becomes the baseline. `HasBaseline` leaves
  this case out of `EditUndone`.
- An apply racing the check can be undone: the check restores the previous
  ruleset over the new table, and the apply then records that table's checksum.
  `Settles` promises that table and baseline agree, not on which ruleset.
- Of two racing applies to one chain, one renders the other's body and stores its
  own, which may be one nft refuses; the next start then keeps the old table.

The update:

- `.prev` is copied over in place. A crash, or a full disk, in the middle leaves a
  torn backup, which the guard of a later start restores over the binary: the
  agent then cannot be started. `UpdateNeverTears` names this case
  (`guard.stage = "renaming"`) and excludes every other.
- Nothing keeps `update.self` and the fallback updater apart. Of two calls, one
  can rename `.new` while the other is writing it, and exit: the binary is torn.
  Or it renames what the other has written: the fallback then installs an
  operator's older version. Both take two calls past their downloads at once
  (`met`); `UpdateNeverTears` and `FallbackForward` hold until then.
- A version that ends before it spawns the guard (`Broken`) is never rolled back.
- `src/docs/security-architecture.md:454-455` says that the fallback polls GitHub when the
  dashboard has been silent for 6 hours. After each restart `last_dashboard_contact`
  is 0, which counts as longer than that, and the first check comes at once,
  usually before the WebSocket session is up (`Fallback` needs only
  `contact # "recent"`). `FallbackForward` says that this does not loop.

nginx and the containers:

- Neither `podman run` mounts `/etc/nginx`, and nothing in the repository does so
  in another way. `nginx -t -c` is given a path on the host
  (`handlers/nginx_cmd.rs:165-173`, `nginx.rs:174-176`), which the container does not
  have, so that `nginx.update_config` and the watchdog's restore give up there; a
  deployment's configuration is written to the host, and the reload does not see
  it. `nginx -t -c` would also parse a file meant for `conf.d` as a main
  configuration. This is why the model leaves those answers open, and why
  `LoneUpdateTakes` and `FileRestored` are about the file and the row only.
- The comment at `handlers/nginx_cmd.rs:72-77` says that a broken configuration
  fails closed. Of two tasks at the temporary file, one can have it tested, the other
  truncate it, and the first rename it: what goes live is empty or cut short, and
  nobody has tested it. `RenamedIsAccepted` allows that for a contested rename only;
  without its second conjunct's `"empty"` and `"torn"` TLC finds it. No
  configuration the walker refused gets there that way.
- The watchdog cannot run a container that exited (`nginx.rs:99`): `podman run`
  is refused while the exited one holds the name. A container that was removed
  is not redeployed at all, since the check wants one that exists
  (`nginx.rs:27-28`). `FileRestored` asks for a container that runs.
- The comment at `handlers/nginx_cmd.rs:99` places the temporary file outside
  `/etc/nginx`; it lies beside the live one.
- A configuration that comes with `nginx.deploy` is neither walked nor tested, and
  stored all the same; the watchdog's own walk then refuses it. That is why
  `RenamedIsAccepted` is about renames.
- `validate_compose` is documented and tested with project directories under
  `tenants/` (`handlers/validate.rs:61`); `podman/mod.rs:288` has them under
  `projects/`.
- `podman/mod.rs:4-5` says that every tenant has its own range of subordinate
  ids. Two `tenant.ensure` at once can compute the same one. `RangesDisjoint` is
  what does hold. A tenant whose `usermod` failed exists without a range, and no
  later `tenant.ensure` repairs it.
- A container that was stopped by `container.stop` is started again by the next
  start of the agent, whose recovery asks the row only. A deployment that failed
  has left its compose file, from which the next recovery makes whatever is
  missing.

Secrets:

- The comment at `config.rs:150-154` says that `O_EXCL` keeps an existing keyring from
  being clobbered, and that the start continues when there is one. The exclusive
  creation is that of the temporary file: a crash between creating and renaming it
  leaves a file on which every later start fails, and the rename would replace a
  keyring that has appeared meanwhile.
- After `db.rotate_password` the pool goes on with the URL it was made with: its
  connections age out and cannot be replaced until the agent restarts.
- A rotation cut short between `ALTER USER` and the credentials file leaves an
  agent that never starts again. `ComesUp` excludes just that and the case above.
- Once `helmly-wg.conf` was emptied by a rotation that was cut short, later
  rotations read no lines, write none and answer with success.
- The interface of a data-plane tunnel is named by the first 8 digits of its id
  (`handlers/wireguard.rs:115-117`). Of a UUIDv7, which this project uses throughout
  (`src/migrations/008_fix_container_deployments_uuid_default.sql:2`), these are the
  time to within about a minute: two tunnels made in one minute share a name.

Two more things the model shows that no document speaks of. A watchdog that
tested the flag before another task locked the agent down with a sticky reason
overwrites the reason with `Heartbeat`, and an acknowledgement then clears it:
hence the condition on the heartbeat task in `SafelyLocked`. And when the
dashboard is restored while an answer is waiting to be recorded, the cursor
passes rows the dashboard has lost; they come back only once a later row makes
it answer 422: hence the condition `sync # "accepted"` in `PendingArrives`.

## Proofs

Every theorem is checked by TLAPS to its last leaf. None bounds the number of
commands, requests, writers, rows or failures.

- **GateProofs**, authentication (assumes the constants' types and
  `RetentionAssumption`). `AtMostOnce` is not inductive: a second consumption is
  refused because the table still has the nonce, which depends on when it was
  inserted and on what a request that passed its check earlier may still do.
  `Inv` adds `Remembered` (a nonce consumed within the retention is in the
  table), `InTime` (a request on its way to the INSERT passed its freshness
  check, if it has one, at most `MaxStall` ago; with `RetentionAssumption` an
  earlier consumption of its nonce cannot have expired) and `OnceEach` (a command
  is applied or about to be applied only for a consumption of its own).
  `AppliedAtMostOnce`, `NoncesSpaced` and `FreshWhenConsumed` follow.
- **GateProofs**, lockdown (assumes `Timeout \in Nat`). `LockdownHasReason` with the
  types is inductive; `StickyLockdownStays` proves the action property from it,
  one case per action.
- **CommandPipelineProofs** (assumes what the constants are, and that the model's time
  reaches past its start). `AnswerTellsRow` needs `DoneInv`: what a request is
  about to log is an effect. `LockdownHolds` needs `GateInv`: while a lockdown is
  on, a request between limiter and handler passed the gate before it, or reads
  like an acknowledgement, and what was verified is genuine. `EffectsAccountedFor`
  is inductive with the types. `LogImplemented` says that the pipeline's audit log
  is an `AuditLog` (`LogSpec`), cancelled and restarted appends included, so that
  `RootedForAnyWriters` gives `ChainRooted` for it. `RateHolds`, which shows
  `LessThanTwiceLimit`, needs `RateInv`: the limiter's count is that of the last
  commands let through, the first of them opened the window, and one of the
  `Limit` before it came a window's length earlier, for otherwise the window would
  not have been over. Of 2 * `Limit` commands in a row the last is in the window
  that is open, and the first is no later than that earlier one.
- **AuditSyncProofs** (assumes what the constants are). First the log alone:
  `RowsInv`, `HeldInv` and `InsertInv` say that a row, a hash held by a writer and a
  row being inserted link back to an earlier committed row, and that the
  timestamps of drafts and rows differ; they give `RootedForAnyWriters` for any
  number of racing appends. Then the composition: a step of it is a step of the log
  with its history, or leaves both alone (`LogOfStep`, `TrackOfStep`), so that the
  log's theorems carry over. Nothing is assumed about how many writers append at
  once; what a race takes away is measured by `SoundInv`: as long as no overtaken
  row was committed, the rows are one chain, a writer that was not overtaken holds
  the hash of the latest row, and its INSERT comes after every row. That gives
  `ForksOnlyByRace`. `NoRowIsSkipped` rests on `CursorInv`: rows up to the cursor
  were delivered, a posted batch is contiguous beyond the cursor, an accepted
  batch was delivered. `ReplicaImplemented` is the refinement: the sync implements
  `Replica`, one lemma per kind of step (`LogRefines`, `ReceiveRefines`,
  `RestoreRefines`, `SyncRefines`). `ReplicaInv` says that the dashboard holds the
  oldest rows and that a batch under way, or late, has every row between its first
  and its last (`Gapless`). What the dashboard accepts links to what it has, so by
  `Unforked` nothing lies in between (`AcceptedIsPrefix`); that a first batch starts
  with the oldest row (`OldestRow`) rests on the order of the natural numbers being
  well-founded.
- **NftablesProofs** (assumes that the empty body is not refused and that the
  monitor is not a handler). `Installable` is not inductive: a process carries a
  text and a checksum it has yet to save or record. `ProcessInv` says that a text
  that was loaded, and a checksum that was read, have no refused body, and that no
  text is the emergency ruleset; `LastInv` says the latter of what is kept for a
  restore; `UnlockedInv` says that while the emergency ruleset is in the kernel
  without a lockdown (the agent has restarted), it is all that is expected or
  about to be recorded. `Inv`, the conjunction with the types,
  is inductive, one lemma per action or group of actions; `NothingRefused` and
  `EmergencyMeansLockdown` follow.
- **SelfUpdateProofs** (assumes what the constants are). `TypeOK`, which says
  among other things that the installed binary is never missing, needs `CopyInv`:
  the guard and an update copy something that exists. `UpdateNeverTears` needs
  `WholeInv`: until two updates meet at the files, one that is past its download is
  the only such, what it is writing goes to `.new`, and what it has written is
  there whole. `FallbackForward` needs it too, since it is about what the rename
  installs, and `ForwardInv`: an update ends with the process, and a fallback is
  for a version newer than the one running. All three hold for any number of
  updates at once.
- **NginxProofs** (assumes what the constants are). `RenamedIsAccepted` needs
  `FileInv`: the temporary file is missing, or holds an accepted configuration or a
  piece of some; and while a task has the live file open, that file is not the work of a lone
  rename, and of no rename at all if the task is a deployment. It needs `AloneInv`: a task that has the temporary file
  to itself finds there what it wrote. `NewestStays` needs `RowInv`: no row is newer
  than the last INSERT, so that the newest row is what every cleanup keeps.
  `TypeOK` needs `TaskInv`: what a task at each place can be. `LoneUpdateTakes` is
  proved from `LoneInv`: while `sole` names an update everybody else is idle, and
  the temporary file, the table and the live file hold what it has put there so
  far (`Achieved`).
- **DeploymentsProofs** (assumes what the constants are). `RangesDisjoint` needs
  `RangeInv`: without a race a command that has computed a range is the only one,
  and its range is still past every end; half-way through, the uid file has its
  entry. `DownStaysDown` and `DeployedComesBack` need `PhaseInv` (no command is
  under way while the agent starts, and the queue is part of the wanted rows),
  `Alone` and `Achieved` (a command nobody has joined finds what it did itself,
  and after a promise nobody works on the project) and `Kept`, which says of a
  promise what must hold of file, container, row and queue in each phase. Most
  actions concern one project and leave the others alone (`Elsewhere`).
- **SecretsProofs** (assumes what the constants are). `KeptSurvives` is not
  inductive: `LoneInv` says that what a rotation nobody joined has set is in force
  as long as it is under way, and that no other rotation of that secret is;
  `QuietInv` that after a rotation's promise none is under way, so that only a new
  one, which withdraws the promise, can break it. `RingWhole` needs `TmpInv`: what
  is about to be renamed to the keyring is whole.

Every invariant, every action property and the refinement that the passing runs
check is stated by a theorem. Only model-checked: the liveness properties
(`SilenceLocks`, `StaysUnlocked`, `PendingArrives`, `EditUndone`, `Settles`, `MuteRolledBack`, `UpToDate`,
`FileRestored`, `ComesUp`), which TLAPS cannot prove under fairness.
The violations are counterexamples and need no proof.

## Not modelled, and the plan

Not modelled, by component:

- **nginx**: `nginx.install_cert` and `certbot.obtain` write certificates that nginx
  reads and call certbot; they share nothing with the files modelled here but the
  reload.
- **WireGuard**: the data-plane tunnels and management peers, each a call or two of
  `wg` and `ip` on an interface of its own.
- **Secret rotation and migration**: `cert.update` writes files nothing reads
  again, `dashboard.migrate` sends one request.
- **Input validation**: pure predicates on strings, better tested than
  model-checked.
- **Metrics**: reads of `/proc` and of podman, of no state a property could be
  about.
- **Scripts** (`src/*.sh`): run once, by hand.
- **TLS, the conflict monitor's detection, the session's backoff**: calls of
  external tools and libraries, without state of their own.

What is left of the plan:

1. `Nginx` with two commands at a time in TLC, on a smaller abstraction of the
   watchdog's side.
2. `CommandPipeline` over `CommandAuth` instead of its one-step `Verify`, with the
   theorem that the pipeline implements the gate.
