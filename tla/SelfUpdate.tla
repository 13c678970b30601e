----------------------------- MODULE SelfUpdate -----------------------------
(***************************************************************************)
(* The agent's own binary: perform_update and the startup health guard of  *)
(* internal/update/mod.rs, the fallback updater of                         *)
(* internal/update/fallback.rs, and systemd, which restarts the process    *)
(* however it ends.                                                        *)
(*                                                                         *)
(* A file is written in two steps, and is torn in between, and for good if *)
(* the process ends there: the guard, an update and the process can end    *)
(* each other's work anywhere.                                             *)
(*                                                                         *)
(* Abstractions: a binary is its version; a download that is refused (URL, *)
(* size, signature, install method) or fails has no effect; a wait is a    *)
(* step that can be late.  Left out: a plain /health that answers nothing  *)
(* although the agent serves it, for one of its 15 polls is enough; the    *)
(* CRITICAL file, which is written and removed, never read; the updates    *)
(* of update-agent.sh.                                                     *)
(***************************************************************************)
EXTENDS Naturals

CONSTANTS
  Versions,     \* the signed releases
  Latest,       \* the first one GitHub lists
  Good,         \* those that come up
  Broken,       \* those that end before they start the health guard
  Updates,      \* calls of perform_update that can be in progress at once
  Updater,      \* the one of them that the fallback updater makes
  Attempts,     \* polls of the health guard: 15 in the code
  Torn,         \* the content of a file whose writing was not finished
  None          \* no file, no process

ASSUME VersionsAssumption ==
  /\ Versions \subseteq Nat
  /\ Latest \in Versions
  /\ Good \subseteq Versions /\ Broken \subseteq Versions \ Good
  /\ Torn \notin Versions /\ None \notin Versions /\ Torn # None

ASSUME UpdatesAssumption == Updater \in Updates

ASSUME AttemptsAssumption == Attempts \in Nat \ {0}

VARIABLES
  target,       \* /etc/glyndor/helmly/bin/helmly-agent
  prev,         \* the same with .prev
  new,          \* the same with .new
  tls,          \* the listener speaks mTLS; if not, INSECURE_PLAIN_HTTP is set
  running,      \* the version of the process, if there is one
  serving,      \* its listener accepts connections
  contact,      \* last_dashboard_contact
  guard,        \* the startup health guard
  update,       \* the calls of perform_update
  met           \* history: a call began to write while another was at the files

files == <<target, prev, new, tls>>
vars == <<target, prev, new, tls, running, serving, contact, guard, update, met>>
updates == <<update, met>>

Content == Versions \union {Torn, None}

Guard == [stage : {"off", "polling", "copying", "renaming", "reporting", "exiting"},
          tries : 0 .. Attempts, copy : Content]

\* The version asked for, the file the download goes to (.new may have been
\* renamed by another call), the binary that is copied to .prev.
Update == [stage : {"off", "downloading", "writing", "written", "copying", "copied",
                    "exiting"},
           version : Versions, at : {"new", "target", "gone"}, copy : Content]

Off == [stage |-> "off", tries |-> 0, copy |-> None]
NoUpdate == [stage |-> "off", version |-> Latest, at |-> "new", copy |-> None]

TypeOK ==
  /\ target \in Versions \union {Torn}
  /\ prev \in Content
  /\ new \in Content
  /\ tls \in BOOLEAN
  /\ running \in Versions \union {None}
  /\ serving \in BOOLEAN
  /\ contact \in {"never", "recent", "absent"}
  /\ guard \in Guard
  /\ update \in [Updates -> Update]
  /\ met \in BOOLEAN

\* setup-agent.sh has installed a binary; systemd has not started it yet.
Init ==
  /\ target \in Versions \ Broken
  /\ prev = None
  /\ new = None
  /\ tls \in BOOLEAN
  /\ running = None
  /\ serving = FALSE
  /\ contact = "never"
  /\ guard = Off
  /\ update = [u \in Updates |-> NoUpdate]
  /\ met = FALSE

-----------------------------------------------------------------------------
\* Every end of the process: exit, crash, kill.
Stop ==
  /\ running' = None
  /\ serving' = FALSE
  /\ contact' = "never"
  /\ guard' = Off
  /\ update' = [u \in Updates |-> NoUpdate]
  /\ met' = FALSE

UpdateMoves(u, stage) == update' = [update EXCEPT ![u].stage = stage]
UpdateEnds(u) == update' = [update EXCEPT ![u] = NoUpdate]

Begin(u, v) ==
  /\ running # None
  /\ update[u].stage = "off"
  /\ update' = [update EXCEPT
       ![u] = [NoUpdate EXCEPT !.stage = "downloading", !.version = v]]
  /\ UNCHANGED <<files, running, serving, contact, guard, met>>

\* Faulty variants of operators below: health without a request, a poll too
\* many, a download into the live binary, an update to the version that runs,
\* no fallback before the first contact.
Alive == running # None

PollFailsAgain ==
  /\ guard.stage = "polling"
  /\ ~(serving /\ ~tls)
  /\ guard' = [guard EXCEPT !.tries = @ + 1]
  /\ UNCHANGED <<files, running, serving, contact, updates>>

WriteBeginsInPlace(u) ==
  /\ update[u].stage = "downloading"
  /\ target' = Torn
  /\ UpdateMoves(u, "writing")
  /\ UNCHANGED <<prev, new, tls, running, serving, contact, guard, met>>

NotOlder == running # None /\ Latest >= running

FallbackOnceContacted(u) ==
  /\ u = Updater
  /\ contact = "absent"
  /\ running # None /\ Latest > running
  /\ Begin(u, Latest)

-----------------------------------------------------------------------------
(***************************************************************************)
(* systemd, and the life of the process.                                   *)
(***************************************************************************)

\* A torn binary cannot be executed, and a broken one ends without a trace.
Start ==
  /\ running = None
  /\ target \in Versions \ Broken
  /\ running' = target
  /\ guard' = [Off EXCEPT !.stage = "polling"]
  /\ UNCHANGED <<files, serving, contact, updates>>

Listen ==
  /\ running \in Good
  /\ ~serving
  /\ serving' = TRUE
  /\ UNCHANGED <<files, running, contact, guard, updates>>

Crash ==
  /\ running # None
  /\ Stop
  /\ UNCHANGED files

\* Message from the dashboard on the WebSocket, and six hours without one.
Contact ==
  /\ running # None
  /\ contact' = "recent"
  /\ UNCHANGED <<files, running, serving, guard, updates>>

Silence ==
  /\ contact = "recent"
  /\ contact' = "absent"
  /\ UNCHANGED <<files, running, serving, guard, updates>>

-----------------------------------------------------------------------------
(***************************************************************************)
(* run_startup_health_check                                                *)
(***************************************************************************)

\* GET http://127.0.0.1:9090/health
Answered == serving /\ ~tls

PollSucceeds ==
  /\ guard.stage = "polling"
  /\ Answered
  /\ guard' = Off
  /\ UNCHANGED <<files, running, serving, contact, updates>>

PollFails ==
  /\ guard.stage = "polling"
  /\ ~Answered
  /\ guard.tries < Attempts
  /\ guard' = [guard EXCEPT !.tries = @ + 1]
  /\ UNCHANGED <<files, running, serving, contact, updates>>

\* After the last poll: .prev, if there is one, is copied to .restoring.
GiveUp ==
  /\ guard.stage = "polling"
  /\ guard.tries = Attempts
  /\ guard' = [stage |-> IF prev = None THEN "reporting" ELSE "copying",
               tries |-> 0, copy |-> prev]
  /\ UNCHANGED <<files, running, serving, contact, updates>>

\* What was read at first, or what is there by now.
Copied ==
  /\ guard.stage = "copying"
  /\ \E c \in {guard.copy, prev} :
       guard' = [guard EXCEPT !.copy = c, !.stage = "renaming"]
  /\ UNCHANGED <<files, running, serving, contact, updates>>

RestoreFails ==
  /\ guard.stage \in {"copying", "renaming"}
  /\ guard' = [Off EXCEPT !.stage = "reporting"]
  /\ UNCHANGED <<files, running, serving, contact, updates>>

\* Whoever still writes to the file that was at "to" now writes to no file
\* that has a name, and whoever writes to the one at "from", to "to".
Follow(us, from) ==
  [u \in Updates |->
     [us[u] EXCEPT !.at = IF @ = "target" THEN "gone"
                          ELSE IF @ = from THEN "target" ELSE @]]

RenameRestored ==
  /\ guard.stage = "renaming"
  /\ target' = guard.copy
  /\ update' = Follow(update, "restoring")
  /\ guard' = [Off EXCEPT !.stage = "reporting"]
  /\ UNCHANGED <<prev, new, tls, running, serving, contact, met>>

\* process::exit(1), after the CRITICAL file was written.
GuardExits ==
  /\ guard.stage = "reporting"
  /\ Stop
  /\ UNCHANGED files

-----------------------------------------------------------------------------
(***************************************************************************)
(* perform_update                                                          *)
(***************************************************************************)
\* update.self: any version, an older one as well.
Command(u) == u # Updater /\ \E v \in Versions : Begin(u, v)

Newer == running # None /\ Latest > running

\* The fallback updater polls GitHub at its first tick, right after the
\* start, and then once an hour.  It waits for perform_update to return.
Fallback(u) ==
  /\ u = Updater
  /\ contact # "recent"
  /\ Newer
  /\ Begin(u, Latest)

\* Every "?" on the way: download, signature, write, chmod, copy, rename.
UpdateFails(u) ==
  /\ update[u].stage \notin {"off", "exiting"}
  /\ UpdateEnds(u)
  /\ UNCHANGED <<files, running, serving, contact, guard, met>>

\* No other call is past its download.  Two at work on one file may leave a
\* mixture.
Alone(u) == \A w \in Updates \ {u} : update[w].stage \in {"off", "downloading"}

\* Downloaded and verified; fs::write truncates .new.
WriteBegins(u) ==
  /\ update[u].stage = "downloading"
  /\ new' = Torn
  /\ update' = [update EXCEPT ![u].stage = "writing", ![u].at = "new"]
  /\ met' = (met \/ ~Alone(u))
  /\ UNCHANGED <<target, prev, tls, running, serving, contact, guard>>

WriteEnds(u) ==
  /\ update[u].stage = "writing"
  /\ \E c \in {update[u].version, Torn} :
       /\ Alone(u) => c # Torn
       /\ new' = IF update[u].at = "new" THEN c ELSE new
       /\ target' = IF update[u].at = "target" THEN c ELSE target
  /\ UpdateMoves(u, "written")
  /\ UNCHANGED <<prev, tls, running, serving, contact, guard, met>>

\* fs::copy truncates .prev, which the guard may be reading.
BackupBegins(u) ==
  /\ update[u].stage = "written"
  /\ prev' = Torn
  /\ update' = [update EXCEPT ![u].stage = "copying", ![u].copy = target]
  /\ guard' = IF guard.stage = "copying" THEN [guard EXCEPT !.copy = Torn] ELSE guard
  /\ UNCHANGED <<target, new, tls, running, serving, contact, met>>

BackupEnds(u) ==
  /\ update[u].stage = "copying"
  /\ \E c \in {update[u].copy, Torn} : (Alone(u) => c = update[u].copy) /\ prev' = c
  /\ update' = [update EXCEPT ![u].stage = "copied", ![u].copy = None]
  /\ UNCHANGED <<target, new, tls, running, serving, contact, guard, met>>

Swap(u) ==
  /\ update[u].stage = "copied"
  /\ new # None
  /\ target' = new
  /\ new' = None
  /\ update' = [Follow(update, "new") EXCEPT ![u].stage = "exiting"]
  /\ UNCHANGED <<prev, tls, running, serving, contact, guard, met>>

\* process::exit(0)
Exit(u) ==
  /\ update[u].stage = "exiting"
  /\ Stop
  /\ UNCHANGED files

-----------------------------------------------------------------------------
GuardStep ==
  \/ PollSucceeds
  \/ PollFails
  \/ GiveUp
  \/ Copied
  \/ RestoreFails
  \/ RenameRestored
  \/ GuardExits

Requested(u) == Command(u) \/ Fallback(u)

Proceeds(u) ==
  \/ WriteBegins(u)
  \/ WriteEnds(u)
  \/ BackupBegins(u)
  \/ BackupEnds(u)
  \/ Swap(u)
  \/ Exit(u)

Next ==
  \/ Start
  \/ Listen
  \/ Crash
  \/ Contact
  \/ Silence
  \/ GuardStep
  \/ \E u \in Updates : Requested(u) \/ Proceeds(u) \/ UpdateFails(u)

(***************************************************************************)
(* systemd starts the agent again; the guard, the fallback updater and an  *)
(* update go on.  A restore may fail, or be cut short, any number of       *)
(* times, but not whenever it is tried.                                    *)
(***************************************************************************)
Fairness ==
  /\ WF_vars(Start)
  /\ WF_vars(GuardStep)
  /\ SF_vars(Copied)
  /\ SF_vars(RenameRestored)
  /\ \A u \in Updates : WF_vars(Fallback(u)) /\ WF_vars(Proceeds(u))

Spec == Init /\ [][Next]_vars /\ Fairness

-----------------------------------------------------------------------------
(***************************************************************************)
(* update.self and the fallback updater call perform_update without a lock *)
(* between them.  However their calls interleave, wherever they fail or    *)
(* are cut short, they make the installed binary one that cannot be        *)
(* executed only if one began to write .new after another had, in the same *)
(* life of the process; overlapping downloads, and backups a crash left    *)
(* torn, do not.  Apart from that only the restore of a torn backup does.  *)
(***************************************************************************)
UpdateNeverTears ==
  [][target' = Torn => target = Torn \/ guard.stage = "renaming" \/ met]_vars

(***************************************************************************)
(* What the fallback updater installs is newer than what runs: a restart   *)
(* is not followed by the same update again (update/fallback.rs:21-24).    *)
(* Only another call at the files can put an older version in its place.   *)
(***************************************************************************)
FallbackForward ==
  [][update[Updater].stage = "copied" /\ update'[Updater].stage = "exiting"
       => met \/ (target' \in Versions /\ target' > running)]_vars

(***************************************************************************)
(* A version that starts and never serves is replaced by the backup, if    *)
(* there is one of another version, as long as the process is not ended    *)
(* from outside again and again.                                           *)
(***************************************************************************)
Mute == Versions \ (Good \union Broken)

Backed(v) == prev \in Versions \ {v}

MuteRolledBack ==
  <>[][~Crash]_vars =>
    \A v \in Mute : (running = v /\ Backed(v)) ~> (target # v \/ ~Backed(v))

(***************************************************************************)
(* An agent that stays up while the dashboard is silent ends up with the   *)
(* latest release, if downloads and disk work: also when it has never      *)
(* heard of the dashboard since its last start.                            *)
(***************************************************************************)
Unattended ==
  /\ <>[](running # None /\ contact # "recent")
  /\ <>[][~\E u \in Updates : Command(u) \/ UpdateFails(u)]_vars

UpToDate == Unattended => <>[](running # None => running >= Latest)

(***************************************************************************)
(* "If still unhealthy" (update/mod.rs:89): the guard's poll fails only    *)
(* when the agent does not serve.                                          *)
(***************************************************************************)
ServingIsHealthy == [][guard.tries' > guard.tries => ~serving]_vars
=============================================================================
