------------------------------- MODULE Secrets -------------------------------
(***************************************************************************)
(* The secrets the agent changes in place, and the start that depends on   *)
(* them: db.rotate_password (handlers/system.rs), wg.rotate_psk            *)
(* (handlers/wireguard.rs), Config::load with the seeding of the keyring   *)
(* (config.rs), and the connection main.rs opens before anything else.     *)
(*                                                                         *)
(* A rotation changes the secret where it is in force first, then each     *)
(* copy of it, and a copy that fails is a warning in the log; after a      *)
(* restart the copies are all there is.  Rotations are not kept apart.     *)
(*                                                                         *)
(* Abstractions: a password drawn is a new one; the environment names a    *)
(* legacy key; one write call is one step; a process dies without its      *)
(* files going.                                                            *)
(***************************************************************************)
EXTENDS Naturals

CONSTANTS
  Slots,        \* commands that can be in progress at once
  Psks,         \* pre-shared keys the dashboard sends
  FirstPsk,     \* the one of the installation
  Passwords,    \* passwords that can be drawn
  FirstPassword, \* the one of the installation
  MaxCrashes    \* bound: restarts of the agent or the host

ASSUME SecretsAssumption ==
  /\ FirstPsk \in Psks
  /\ FirstPassword \in Passwords
  /\ {"torn", "none"} \intersect (Passwords \union Psks) = {}
  /\ "nobody" \notin Slots
  /\ MaxCrashes \in Nat

VARIABLES
  password,     \* what PostgreSQL accepts for helmly_agent_app
  drawn,        \* passwords drawn so far
  secret,       \* podman secret helmly-agent-pg-pass
  urlFile,      \* credentials/database-url: a password, or "torn"
  psk,          \* of the dashboard's peer in the kernel; "none": no tunnel
  pskFile,      \* credentials/helmly-wg-psk
  conf,         \* PresharedKey of helmly-wg.conf, or "torn"
  keyring,      \* dashboard-keyring
  tmp,          \* dashboard-keyring.tmp
  agent,        \* how far the agent has got in starting
  url,          \* the password in the database_url it has read
  connected,    \* its pool holds a connection
  task,         \* where each rotation is
  crashes,      \* restarts so far
  sole,         \* history: the rotation nobody joined, for each secret
  kept          \* history: what the last lone rotation said it has set

dbVars == <<password, drawn, secret, urlFile>>
wgVars == <<psk, pskFile, conf>>
ringVars == <<keyring, tmp>>
agentVars == <<agent, url, connected>>
historyVars == <<sole, kept>>
vars == <<dbVars, wgVars, ringVars, agentVars, task, crashes, historyVars>>

Idle == [at |-> "idle"]

DbTask == [at : {"altered", "stored", "opened"}, secret : Passwords]

PskTask ==
  [at : {"set", "noted"}, secret : Psks]
    \union [at : {"read", "emptied"}, secret : Psks, whole : BOOLEAN]

TypeOK ==
  /\ password \in Passwords
  /\ drawn \subseteq Passwords
  /\ secret \in Passwords
  /\ urlFile \in Passwords \union {"torn"}
  /\ psk \in Psks \union {"none"}
  /\ pskFile \in Psks
  /\ conf \in Psks \union {"torn"}
  /\ keyring \in {"absent", "empty", "whole"}
  /\ tmp \in {"absent", "empty", "whole"}
  /\ agent \in {"down", "seeding", "filling", "renaming", "connecting", "serving"}
  /\ url \in Passwords \union {"torn"}
  /\ connected \in BOOLEAN
  /\ task \in [Slots -> DbTask \union PskTask \union {Idle}]
  /\ crashes \in 0..MaxCrashes
  /\ sole \in [{"db", "psk"} -> Slots \union {"nobody"}]
  /\ kept \in [db : Passwords \union {"none"}, psk : Psks \union {"none"}]

\* The installation has written every file but the keyring.
Init ==
  /\ password = FirstPassword /\ drawn = {FirstPassword}
  /\ secret = FirstPassword /\ urlFile = FirstPassword
  /\ psk = FirstPsk /\ pskFile = FirstPsk /\ conf = FirstPsk
  /\ keyring = "absent" /\ tmp = "absent"
  /\ agent = "down" /\ url = FirstPassword /\ connected = FALSE
  /\ task = [a \in Slots |-> Idle]
  /\ crashes = 0
  /\ sole = [db |-> "nobody", psk |-> "nobody"]
  /\ kept = [db |-> FirstPassword, psk |-> FirstPsk]

-----------------------------------------------------------------------------
At(a, place) == task[a].at = place

Become(a, t) == task' = [task EXCEPT ![a] = t]

Move(a, place) == Become(a, [task[a] EXCEPT !.at = place])

Under(s) ==
  {a \in Slots : task[a] \in (IF s = "db" THEN DbTask ELSE PskTask)}

\* A rotation of s begins: it is the sole one if no other is under way.
Begin(a, s, t) ==
  /\ At(a, "idle")
  /\ agent = "serving"
  /\ connected
  /\ Become(a, t)
  /\ sole' = [sole EXCEPT ![s] = IF Under(s) = {} THEN a ELSE "nobody"]
  /\ kept' = [kept EXCEPT ![s] = "none"]

\* The answer is a success; sound: there was a file to put the secret into.
Succeed(a, s, sound) ==
  /\ Become(a, Idle)
  /\ kept' = [kept EXCEPT ![s] = IF sole[s] = a /\ sound THEN task[a].secret ELSE "none"]
  /\ UNCHANGED sole

-----------------------------------------------------------------------------
(***************************************************************************)
(* db.rotate_password                                                      *)
(***************************************************************************)
AlterUser(a, p) ==
  /\ p \notin drawn
  /\ drawn' = drawn \union {p}
  /\ password' = p
  /\ Begin(a, "db", [at |-> "altered", secret |-> p])
  /\ UNCHANGED <<secret, urlFile, wgVars, ringVars, agentVars, crashes>>

\* podman secret create --replace; when podman refuses, that is a warning.
StoreSecret(a) ==
  /\ At(a, "altered")
  /\ Move(a, "stored")
  /\ secret' \in {secret, task[a].secret}
  /\ UNCHANGED <<password, drawn, urlFile, wgVars, ringVars, agentVars, crashes, historyVars>>

\* update_database_url_credential: fs::write truncates, then fills.
OpenUrlFile(a) ==
  /\ At(a, "stored")
  /\ Move(a, "opened")
  /\ urlFile' = "torn"
  /\ UNCHANGED <<password, drawn, secret, wgVars, ringVars, agentVars, crashes, historyVars>>

\* A faulty variant of FillUrlFile: the URL keeps the password it was read with.
RewriteUrlFile(a) ==
  /\ At(a, "opened")
  /\ urlFile' = url
  /\ Succeed(a, "db", TRUE)
  /\ UNCHANGED <<password, drawn, secret, wgVars, ringVars, agentVars, crashes>>

FillUrlFile(a) ==
  /\ At(a, "opened")
  /\ urlFile' = task[a].secret
  /\ Succeed(a, "db", TRUE)
  /\ UNCHANGED <<password, drawn, secret, wgVars, ringVars, agentVars, crashes>>

-----------------------------------------------------------------------------
(***************************************************************************)
(* wg.rotate_psk                                                           *)
(***************************************************************************)

\* wg set wg-helmly-agent peer ... preshared-key, for the first peer shown.
SetPsk(a, k) ==
  /\ psk # "none"
  /\ psk' = k
  /\ Begin(a, "psk", [at |-> "set", secret |-> k])
  /\ UNCHANGED <<dbVars, pskFile, conf, ringVars, agentVars, crashes>>

NotePsk(a) ==
  /\ At(a, "set")
  /\ Move(a, "noted")
  /\ pskFile' \in {pskFile, task[a].secret}
  /\ UNCHANGED <<dbVars, psk, conf, ringVars, agentVars, crashes, historyVars>>

\* The conf is read whole, or empty while another rotation rewrites it.
ReadConf(a) ==
  /\ At(a, "noted")
  /\ Become(a, [at |-> "read", secret |-> task[a].secret, whole |-> conf # "torn"])
  /\ UNCHANGED <<dbVars, wgVars, ringVars, agentVars, crashes, historyVars>>

EmptyConf(a) ==
  /\ At(a, "read")
  /\ Move(a, "emptied")
  /\ conf' = "torn"
  /\ UNCHANGED <<dbVars, psk, pskFile, ringVars, agentVars, crashes, historyVars>>

\* The lines read, with the new PresharedKey; of no lines, nothing is written.
FillConf(a) ==
  /\ At(a, "emptied")
  /\ conf' = IF task[a].whole THEN task[a].secret ELSE conf
  /\ Succeed(a, "psk", task[a].whole)
  /\ UNCHANGED <<dbVars, psk, pskFile, ringVars, agentVars, crashes>>

-----------------------------------------------------------------------------
\* A rotation ends with copies left as they are: the client has left at the
\* await, podman cannot be spawned, or a file can be neither read nor written.
GivesUp(a) ==
  /\ ~At(a, "idle")
  /\ Become(a, Idle)
  /\ UNCHANGED <<dbVars, wgVars, ringVars, agentVars, crashes, historyVars>>

RotationStep(a) ==
  \/ \E p \in Passwords : AlterUser(a, p)
  \/ StoreSecret(a) \/ OpenUrlFile(a) \/ FillUrlFile(a)
  \/ \E k \in Psks : SetPsk(a, k)
  \/ NotePsk(a) \/ ReadConf(a) \/ EmptyConf(a) \/ FillConf(a)
  \/ GivesUp(a)

-----------------------------------------------------------------------------
(***************************************************************************)
(* The start of the agent, which systemd repeats whenever it has ended     *)
(***************************************************************************)
Advance(place) ==
  /\ agent' = place
  /\ UNCHANGED <<dbVars, wgVars, task, crashes, historyVars>>

\* A faulty variant of LoadConfig: the URL is kept from the last start.
LoadRingOnly ==
  /\ agent = "down"
  /\ Advance(IF keyring = "absent" THEN "seeding" ELSE "connecting")
  /\ UNCHANGED <<url, connected, ringVars>>

\* Config::load: the URL, then the keyring, seeded when there is none.
LoadConfig ==
  /\ agent = "down"
  /\ url' = urlFile
  /\ Advance(IF keyring = "absent" THEN "seeding" ELSE "connecting")
  /\ UNCHANGED <<connected, ringVars>>

\* create_new: a temporary file that is there already ends the start.
CreateTmp ==
  /\ agent = "seeding"
  /\ tmp = "absent"
  /\ tmp' = "empty"
  /\ Advance("filling")
  /\ UNCHANGED <<url, connected, keyring>>

\* A faulty variant of FillTmp: the rename is ahead of the write.
LeaveTmpEmpty ==
  /\ agent = "filling"
  /\ Advance("renaming")
  /\ UNCHANGED <<url, connected, ringVars>>

FillTmp ==
  /\ agent = "filling"
  /\ tmp' = "whole"
  /\ Advance("renaming")
  /\ UNCHANGED <<url, connected, keyring>>

RenameTmp ==
  /\ agent = "renaming"
  /\ keyring' = tmp
  /\ tmp' = "absent"
  /\ Advance("connecting")
  /\ UNCHANGED <<url, connected>>

\* PgPool::connect
Connect ==
  /\ agent = "connecting"
  /\ url = password
  /\ connected' = TRUE
  /\ Advance("serving")
  /\ UNCHANGED <<url, ringVars>>

\* The start ends in an error: main returns, and systemd tries again.
StartFails ==
  /\ \/ agent = "seeding" /\ tmp # "absent"
     \/ agent = "connecting" /\ url # password
  /\ Advance("down")
  /\ UNCHANGED <<url, connected, ringVars>>

StartStep ==
  LoadConfig \/ CreateTmp \/ FillTmp \/ RenameTmp \/ Connect \/ StartFails

-----------------------------------------------------------------------------
\* The pool gives up connections by age and opens new ones with the URL it
\* was made with.
Expire ==
  /\ connected
  /\ connected' = FALSE
  /\ Advance(agent)
  /\ UNCHANGED <<url, ringVars>>

Reconnect ==
  /\ agent = "serving"
  /\ ~connected
  /\ url = password
  /\ connected' = TRUE
  /\ Advance(agent)
  /\ UNCHANGED <<url, ringVars>>

\* A faulty variant of Crash: wg-quick takes whatever the conf holds.
CrashUnread(rebooted) ==
  /\ crashes < MaxCrashes
  /\ crashes' = crashes + 1
  /\ agent' = "down"
  /\ connected' = FALSE
  /\ task' = [a \in Slots |-> Idle]
  /\ psk' = IF rebooted THEN conf ELSE psk
  /\ UNCHANGED <<dbVars, pskFile, conf, ringVars, url, historyVars>>

\* The agent dies or is restarted; with the host, wg-quick makes the tunnel
\* anew from the conf.
Crash(rebooted) ==
  /\ crashes < MaxCrashes
  /\ crashes' = crashes + 1
  /\ agent' = "down"
  /\ connected' = FALSE
  /\ task' = [a \in Slots |-> Idle]
  /\ psk' = IF ~rebooted THEN psk ELSE IF conf = "torn" THEN "none" ELSE conf
  /\ UNCHANGED <<dbVars, pskFile, conf, ringVars, url, historyVars>>

Next ==
  \/ \E a \in Slots : RotationStep(a)
  \/ StartStep
  \/ Expire
  \/ Reconnect
  \/ \E rebooted \in BOOLEAN : Crash(rebooted)

\* main.rs is straight-line code up to serving, and systemd starts the agent
\* whenever it is down (Restart=always).
Spec == Init /\ [][Next]_vars /\ WF_vars(StartStep)

-----------------------------------------------------------------------------
(***************************************************************************)
(* A password or PSK set by a rotation that no other one joined and that   *)
(* reached its end without a warning about its file, the PSK's conf being  *)
(* whole when it was read, is the one in force and the one the next start  *)
(* or reboot will read, until it is rotated again: whatever restarts,      *)
(* refusals of podman and rotations of the other secret come in between.   *)
(***************************************************************************)
KeptSurvives ==
  /\ kept.db # "none" => password = kept.db /\ urlFile = kept.db
  /\ kept.psk # "none" => psk = kept.psk /\ conf = kept.psk

(***************************************************************************)
(* A start never finds a keyring that is not whole: it is installed by a   *)
(* rename, of a file that is complete, so that a crash at any step of the  *)
(* seeding leaves either no ring or all of it.                             *)
(***************************************************************************)
RingWhole == keyring # "absent" => keyring = "whole"

\* The start depends on nothing that was left half done.
Startable ==
  /\ kept.db # "none"
  /\ keyring = "absent" => agent \in {"filling", "renaming"} \/ tmp = "absent"

(***************************************************************************)
(* An agent that is down comes to serve, as long as its last password      *)
(* rotation reached its end alone and no crash has left a temporary file   *)
(* without a keyring.                                                      *)
(***************************************************************************)
ComesUp == (agent = "down" /\ Startable) ~> (agent = "serving" \/ ~Startable)
=============================================================================
