------------------------------ MODULE Nftables ------------------------------
(***************************************************************************)
(* The firewall: the commands of internal/handlers/nftables.rs, closing    *)
(* the setup port (internal/handlers/nginx_cmd.rs), the divergence check   *)
(* (internal/nftables/divergence.rs) and the start of the agent            *)
(* (internal/main.rs), all working on one kernel table that root on the    *)
(* VPS can change as well.                                                 *)
(*                                                                         *)
(* No lock is held around a command.  Handlers, and the check, interleave  *)
(* wherever one of them reads or writes what another can see: the bodies,  *)
(* the table, the checksum, the last ruleset, the database.                *)
(*                                                                         *)
(* Abstractions: a ruleset is what its base chain holds and the bodies of  *)
(* its other chains; a checksum is the table it was computed from; an      *)
(* outsider edits the table or deletes it, and no table but a rendered one *)
(* accepts the setup port; DASHBOARD_PORT is set, as on the dashboard's    *)
(* VPS.  Left out: the WireGuard port; the per-chain checksums, which only *)
(* name a chain in a log line; the file persist_ruleset writes, which the  *)
(* agent never reads (a reboot is a restart, with an outsider's steps for  *)
(* what booting does to the table).                                        *)
(***************************************************************************)
EXTENDS Naturals

CONSTANTS
  Handlers,     \* commands that can be in progress at once
  Chains,       \* the chains the dashboard may write
  Bodies,       \* what it may write there
  Empty,        \* the body of a new row of nftables_state
  Rejected      \* the bodies nft refuses

ASSUME BodiesAssumption == Rejected \subseteq Bodies /\ Empty \in Bodies \ Rejected

\* The divergence check, and before it the start of the agent.
CONSTANT Monitor

ASSUME MonitorAssumption == Monitor \notin Handlers

VARIABLES
  table,        \* table inet helmly-agent in the kernel
  bodies,       \* AppState.nft_*_body
  stored,       \* nftables_state.body
  expected,     \* AppState.nft_checksum: none, or one
  last,         \* AppState.nft_last_ruleset: none, or one
  lockdown,     \* set_lockdown(NftablesFailure) was called since startup
  proc          \* where each handler, and the monitor, is

vars == <<table, bodies, stored, expected, last, lockdown, proc>>

(***************************************************************************)
(* A table or ruleset.  "open" is what render_ruleset puts in the base     *)
(* chain, "closed" the same without the setup port, "edited" an outsider's,*)
(* "emergency" EMERGENCY_RULESET.  "none" is no table, or an empty text.   *)
(***************************************************************************)
Base == {"open", "closed", "edited", "emergency", "none"}
Ruleset == [base : Base, bodies : [Chains -> Bodies]]

Bare(base) == [base |-> base, bodies |-> [c \in Chains |-> Empty]]
Emergency == Bare("emergency")
Blank == Bare("none")

Op == {"none", "startup", "check", "apply", "restore", "accept", "close"}
Stage == {"idle", "comparing", "restoring", "rendering", "loading", "listing",
          "recording", "saving", "storing", "failed", "locking", "deleting",
          "verifying", "closed"}

(***************************************************************************)
(* A handler: its command, the body that command sets (none, or one), the  *)
(* ruleset it works with and the checksum it has read.                     *)
(***************************************************************************)
Process == [op : Op, stage : Stage, change : SUBSET (Chains \X Bodies),
            text : Ruleset, sum : Ruleset]

Idle == [op |-> "none", stage |-> "idle", change |-> {}, text |-> Blank, sum |-> Blank]
Starting(s) == [Idle EXCEPT !.op = "startup", !.stage = "loading",
                            !.text = [base |-> "open", bodies |-> s]]

TypeOK ==
  /\ table \in Ruleset
  /\ bodies \in [Chains -> Bodies]
  /\ stored \in [Chains -> Bodies]
  /\ expected \in SUBSET Ruleset
  /\ last \in SUBSET Ruleset
  /\ lockdown \in BOOLEAN
  /\ proc \in [Handlers \union {Monitor} -> Process]

\* After setup-agent.sh: its table, which is not one the agent renders.
Init ==
  /\ table = Bare("edited")
  /\ stored = [c \in Chains |-> Empty]
  /\ bodies = stored
  /\ expected = {}
  /\ last = {}
  /\ lockdown = FALSE
  /\ proc = [p \in Handlers \union {Monitor} |->
               IF p = Monitor THEN Starting(stored) ELSE Idle]

-----------------------------------------------------------------------------
Moved(p, stage) == proc' = [proc EXCEPT ![p].stage = stage]
Done(p) == proc' = [proc EXCEPT ![p] = Idle]

\* Axum and the tasks are started after the ruleset was applied.
Serving == proc[Monitor].op # "startup"
Ready(h) == Serving /\ proc[h].stage \in {"idle", "closed"}

Takes(ruleset) == \A c \in Chains : ruleset.bodies[c] \notin Rejected

\* Faulty variants of operators below: chains without a body not rendered,
\* the ruleset saved although nft refused it, no lockdown when the emergency
\* ruleset applies, no check under lockdown, a restore that leaves the
\* checksum as it was.
RenderedWithoutEmpty ==
  [base |-> "open",
   bodies |-> [c \in {c \in Chains : bodies[c] # Empty} |-> bodies[c]]]

SavedBeforeLoad(p) ==
  /\ proc[p].stage = "loading"
  /\ last' = {proc[p].text}
  /\ Done(p)
  /\ UNCHANGED <<table, bodies, stored, expected, lockdown>>

EmergencySuffices ==
  /\ proc[Monitor].stage = "failed"
  /\ table' = Emergency
  /\ Done(Monitor)
  /\ UNCHANGED <<bodies, stored, expected, last, lockdown>>

CheckUnlessLocked ==
  /\ proc[Monitor].stage = "idle"
  /\ ~lockdown
  /\ \E e \in expected :
       proc' = [proc EXCEPT ![Monitor] = [Idle EXCEPT !.op = "check", !.stage = "comparing",
                                                      !.sum = e]]
  /\ UNCHANGED <<table, bodies, stored, expected, last, lockdown>>

RecordUnlessRestored(p) ==
  /\ proc[p].stage = "recording"
  /\ IF proc[p].op = "check" THEN UNCHANGED expected ELSE expected' = {proc[p].sum}
  /\ IF proc[p].op \in {"apply", "startup", "accept"}
       THEN proc' = [proc EXCEPT ![p].sum = Blank, ![p].stage = "saving"]
       ELSE Done(p)
  /\ UNCHANGED <<table, bodies, stored, last, lockdown>>

-----------------------------------------------------------------------------
(***************************************************************************)
(* The commands, up to their first step that others can see.  A command    *)
(* without permission, for an unknown chain, or a restore before any       *)
(* apply, leaves no trace.                                                 *)
(***************************************************************************)

\* nftables.apply with a chain: the body is replaced in memory.
ApplyChain(h, c, b) ==
  /\ Ready(h)
  /\ bodies' = [bodies EXCEPT ![c] = b]
  /\ proc' = [proc EXCEPT ![h] = [Idle EXCEPT !.op = "apply", !.stage = "rendering",
                                              !.change = {<<c, b>>}]]
  /\ UNCHANGED <<table, stored, expected, last, lockdown>>

\* nftables.apply with a WireGuard port only.
ApplyFull(h) ==
  /\ Ready(h)
  /\ proc' = [proc EXCEPT ![h] = [Idle EXCEPT !.op = "apply", !.stage = "rendering"]]
  /\ UNCHANGED <<table, bodies, stored, expected, last, lockdown>>

Rendered == [base |-> "open", bodies |-> bodies]

\* apply_current_ruleset renders the bodies as they are now.
Render(h) ==
  /\ proc[h].stage = "rendering"
  /\ proc' = [proc EXCEPT ![h].text = Rendered, ![h].stage = "loading"]
  /\ UNCHANGED <<table, bodies, stored, expected, last, lockdown>>

\* nftables.restore
Restore(h) ==
  /\ Ready(h)
  /\ \E r \in last :
       proc' = [proc EXCEPT ![h] = [Idle EXCEPT !.op = "restore", !.stage = "loading",
                                                !.text = r]]
  /\ UNCHANGED <<table, bodies, stored, expected, last, lockdown>>

\* nftables.accept: the live table becomes the baseline, no text to restore.
Accept(h) ==
  /\ Ready(h)
  /\ proc' = [proc EXCEPT ![h] = [Idle EXCEPT !.op = "accept", !.stage = "listing"]]
  /\ UNCHANGED <<table, bodies, stored, expected, last, lockdown>>

\* nftables.close_setup_port lists the rules that accept the port.
Close(h) ==
  /\ Ready(h)
  /\ table.base # "none"
  /\ proc' = [proc EXCEPT ![h] = [Idle EXCEPT !.op = "close",
                !.stage = IF table.base = "open" THEN "deleting" ELSE "verifying"]]
  /\ UNCHANGED <<table, bodies, stored, expected, last, lockdown>>

-----------------------------------------------------------------------------
(***************************************************************************)
(* Putting a ruleset in place: what apply, restore, the check and the      *)
(* start of the agent have in common.                                      *)
(***************************************************************************)

\* What is saved as the last ruleset at the end.
Saves(p) == proc[p].op \in {"apply", "startup", "accept"}

\* nft -f, which replaces the whole table; an empty text changes nothing.
Load(p) ==
  /\ proc[p].stage = "loading"
  /\ Takes(proc[p].text)
  /\ table' = IF proc[p].text = Blank THEN table ELSE proc[p].text
  /\ proc' = [proc EXCEPT ![p].text = IF Saves(p) THEN @ ELSE Blank,
                          ![p].stage = "listing"]
  /\ UNCHANGED <<bodies, stored, expected, last, lockdown>>

\* A failed restore of the check goes on to the emergency ruleset.
Abort(p) == IF proc[p].op = "check" THEN Moved(p, "failed") ELSE Done(p)

\* nft refuses the ruleset, or cannot run.
LoadFails(p) ==
  /\ proc[p].stage = "loading"
  /\ Abort(p)
  /\ UNCHANGED <<table, bodies, stored, expected, last, lockdown>>

\* current_checksum
List(p) ==
  /\ proc[p].stage = "listing"
  /\ table.base # "none"
  /\ proc' = [proc EXCEPT ![p].sum = table, ![p].stage = "recording"]
  /\ UNCHANGED <<table, bodies, stored, expected, last, lockdown>>

\* nft finds no table, or cannot run.  The start of the agent ignores it.
ListFails(p) ==
  /\ proc[p].stage = "listing"
  /\ IF proc[p].op = "startup" THEN Moved(p, "saving") ELSE Abort(p)
  /\ UNCHANGED <<table, bodies, stored, expected, last, lockdown>>

\* set_nft_checksum
Record(p) ==
  /\ proc[p].stage = "recording"
  /\ expected' = {proc[p].sum}
  /\ IF Saves(p)
       THEN proc' = [proc EXCEPT ![p].sum = Blank, ![p].stage = "saving"]
       ELSE Done(p)
  /\ UNCHANGED <<table, bodies, stored, last, lockdown>>

\* set_nft_last_ruleset: of accept, the empty text.
Save(p) ==
  /\ proc[p].stage = "saving"
  /\ last' = {proc[p].text}
  /\ IF proc[p].op = "apply" THEN Moved(p, "storing") ELSE Done(p)
  /\ UNCHANGED <<table, bodies, stored, expected, lockdown>>

\* UPDATE nftables_state, whose failure is ignored.
Store(h) ==
  /\ proc[h].stage = "storing"
  /\ \/ stored' = [c \in Chains |->
                     IF \E b \in Bodies : <<c, b>> \in proc[h].change
                     THEN CHOOSE b \in Bodies : <<c, b>> \in proc[h].change
                     ELSE stored[c]]
     \/ UNCHANGED stored
  /\ Done(h)
  /\ UNCHANGED <<table, bodies, expected, last, lockdown>>

-----------------------------------------------------------------------------
(***************************************************************************)
(* The rest of close_setup_port.                                           *)
(***************************************************************************)
DeleteRule(h) ==
  /\ proc[h].stage = "deleting"
  /\ \/ /\ table.base = "open"
        /\ table' = Bare("closed")
        /\ Moved(h, "verifying")
     \/ UNCHANGED table /\ Done(h)
  /\ UNCHANGED <<bodies, stored, expected, last, lockdown>>

\* The port is reported closed only if no rule accepts it any more.
Verify(h) ==
  /\ proc[h].stage = "verifying"
  /\ \/ /\ table.base \notin {"open", "none"}
        /\ Moved(h, "closed")
     \/ Done(h)
  /\ UNCHANGED <<table, bodies, stored, expected, last, lockdown>>

-----------------------------------------------------------------------------
(***************************************************************************)
(* The divergence check, check_once_with.                                  *)
(***************************************************************************)
CheckStart ==
  /\ proc[Monitor].stage = "idle"
  /\ \E e \in expected :
       proc' = [proc EXCEPT ![Monitor] = [Idle EXCEPT !.op = "check", !.stage = "comparing",
                                                      !.sum = e]]
  /\ UNCHANGED <<table, bodies, stored, expected, last, lockdown>>

\* The table is as expected, or its checksum could not be computed.
CheckEnds ==
  /\ proc[Monitor].stage = "comparing"
  /\ Done(Monitor)
  /\ UNCHANGED <<table, bodies, stored, expected, last, lockdown>>

Diverged ==
  /\ proc[Monitor].stage = "comparing"
  /\ table.base # "none"
  /\ table # proc[Monitor].sum
  /\ proc' = [proc EXCEPT ![Monitor].sum = Blank, ![Monitor].stage = "restoring"]
  /\ UNCHANGED <<table, bodies, stored, expected, last, lockdown>>

\* restore_with takes the last ruleset; without one it fails.
TakeLast ==
  /\ proc[Monitor].stage = "restoring"
  /\ \/ \E r \in last :
          proc' = [proc EXCEPT ![Monitor].text = r, ![Monitor].stage = "loading"]
     \/ last = {} /\ Moved(Monitor, "failed")
  /\ UNCHANGED <<table, bodies, stored, expected, last, lockdown>>

LoadEmergency ==
  /\ proc[Monitor].stage = "failed"
  /\ table' = Emergency
  /\ Moved(Monitor, "locking")
  /\ UNCHANGED <<bodies, stored, expected, last, lockdown>>

EmergencyFails ==
  /\ proc[Monitor].stage = "failed"
  /\ Moved(Monitor, "locking")
  /\ UNCHANGED <<table, bodies, stored, expected, last, lockdown>>

\* set_lockdown(NftablesFailure), whether or not the emergency ruleset applied.
Lock ==
  /\ proc[Monitor].stage = "locking"
  /\ lockdown' = TRUE
  /\ Done(Monitor)
  /\ UNCHANGED <<table, bodies, stored, expected, last>>

-----------------------------------------------------------------------------
(***************************************************************************)
(* The environment.                                                        *)
(***************************************************************************)
Edit ==
  /\ table.base \notin {"edited", "none"}
  /\ table' = Bare("edited")
  /\ UNCHANGED <<bodies, stored, expected, last, lockdown, proc>>

DeleteTable ==
  /\ table.base # "none"
  /\ table' = Blank
  /\ UNCHANGED <<bodies, stored, expected, last, lockdown, proc>>

\* The agent starts again, and reads nftables_state, or fails to.
Restart ==
  /\ expected' = {}
  /\ last' = {}
  /\ lockdown' = FALSE
  /\ \/ /\ bodies' = stored
        /\ proc' = [p \in Handlers \union {Monitor} |->
                      IF p = Monitor THEN Starting(stored) ELSE Idle]
     \/ /\ bodies' = [c \in Chains |-> Empty]
        /\ proc' = [p \in Handlers \union {Monitor} |-> Idle]
  /\ UNCHANGED <<table, stored>>

-----------------------------------------------------------------------------
Command(h) ==
  \/ \E c \in Chains, b \in Bodies : ApplyChain(h, c, b)
  \/ ApplyFull(h)
  \/ Restore(h)
  \/ Accept(h)
  \/ Close(h)

HandlerStep(h) ==
  \/ Render(h)
  \/ Store(h)
  \/ DeleteRule(h)
  \/ Verify(h)

Install(p) == Load(p) \/ List(p) \/ Record(p) \/ Save(p)

InstallFails(p) == LoadFails(p) \/ ListFails(p)

Check ==
  \/ CheckStart
  \/ CheckEnds
  \/ Diverged
  \/ TakeLast
  \/ LoadEmergency
  \/ EmergencyFails
  \/ Lock

Outsider == Edit \/ DeleteTable

Next ==
  \/ \E h \in Handlers : Command(h) \/ HandlerStep(h)
  \/ \E p \in Handlers \union {Monitor} : Install(p) \/ InstallFails(p)
  \/ Check
  \/ Outsider
  \/ Restart

(***************************************************************************)
(* The check runs every 60 s, and goes on once it has started.  nft may    *)
(* fail for it any number of times, but not always.  A handler may stall   *)
(* anywhere but between its two assignments, Record and Save.              *)
(***************************************************************************)
MonitorStep == Check \/ Install(Monitor) \/ InstallFails(Monitor)

Fairness ==
  /\ WF_vars(MonitorStep)
  /\ SF_vars(Diverged)
  /\ SF_vars(Load(Monitor))
  /\ SF_vars(List(Monitor))
  /\ \A h \in Handlers : WF_vars(Save(h))

Spec == Init /\ [][Next]_vars /\ Fairness

-----------------------------------------------------------------------------
(***************************************************************************)
(* A body nft refuses stays in memory, and is rendered again with every    *)
(* later command; it is never what the agent would restore or expects.     *)
(***************************************************************************)
Installable ==
  \A r \in {table} \union expected \union last : Takes(r)

(***************************************************************************)
(* The emergency ruleset is in the kernel only under a lockdown, or when   *)
(* the agent, started again since, has not yet been able to replace it.    *)
(***************************************************************************)
EmergencyLocks ==
  table = Emergency =>
    \/ lockdown
    \/ proc[Monitor].stage = "locking"
    \/ expected \in {{}, {Emergency}}

(***************************************************************************)
(* An edit by an outsider is undone, unless a restart or accept does away  *)
(* with the baseline first, or it was made between the load of a ruleset   *)
(* and the reading of its checksum.                                        *)
(***************************************************************************)
Blind(p) ==
  \/ proc[p].stage \in {"listing", "recording"}
  \/ proc[p].stage = "loading" /\ proc[p].text = Blank

HasBaseline == expected # {} /\ last # {} /\ \A r \in expected \union last : r.base = "open"

EditUndone ==
  (table.base = "edited" /\ HasBaseline /\ \A p \in DOMAIN proc : ~Blind(p))
    ~> (table.base # "edited" \/ ~HasBaseline)

(***************************************************************************)
(* When commands, outsiders and restarts leave off, the table ends up as   *)
(* the one the agent expects, whatever was interrupted or raced before:    *)
(* the check does not restore for ever.  A deleted table is the exception. *)
(***************************************************************************)
Disturbance == (\E h \in Handlers : Command(h)) \/ Outsider \/ Restart

Settles ==
  <>[][~Disturbance]_vars => <>[](expected \in {{}, {table}} \/ table.base = "none")

(***************************************************************************)
(* "Auto-restore in all cases" (nftables/divergence.rs:103): a deleted     *)
(* table comes back, unless the agent has no ruleset to restore.           *)
(***************************************************************************)
DeletedTableReturns ==
  (table.base = "none" /\ HasBaseline) ~> (table.base # "none" \/ ~HasBaseline)
=============================================================================
