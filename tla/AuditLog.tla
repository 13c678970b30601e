------------------------------ MODULE AuditLog ------------------------------
(***************************************************************************)
(* The hash-chained audit_log table and audit::append of                   *)
(* internal/audit/mod.rs, called by every command, by the nginx watchdog   *)
(* and by the conflict monitor.  append reads the last row, and inserts    *)
(* the new one in a second statement: nothing keeps another append from    *)
(* running in between.                                                     *)
(*                                                                         *)
(* Abstractions: a row is its created_at, which also stands for its        *)
(* entry_hash, and the hash it carries as previous_hash; 0 is "genesis".   *)
(* created_at, the time an INSERT starts, is unique and never runs         *)
(* backwards.  Only append writes the table, so the last row's hash always *)
(* re-computes.  An INSERT whose caller is gone is decided, one way or the *)
(* other, before its writer appends again.                                 *)
(***************************************************************************)
EXTENDS Naturals

CONSTANTS
  Writers,      \* calls of append that can be in progress at once
  MaxStamp      \* bound on the clock

ASSUME StampAssumption == MaxStamp \in Nat

VARIABLES
  rows,         \* the committed rows of audit_log
  clock,        \* PostgreSQL's NOW(), as seen by INSERTs
  stage,        \* where each writer is
  draft         \* the row each writer is about to insert

logVars == <<rows, clock, stage, draft>>

Stamp == 0 .. MaxStamp
Row == [at : Stamp, prev : Stamp]
Blank == [at |-> 0, prev |-> 0]

LogTypeOK ==
  /\ rows \subseteq Row
  /\ clock \in Stamp
  /\ stage \in [Writers -> {"idle", "read", "inserting"}]
  /\ draft \in [Writers -> Row]

LogInit ==
  /\ rows = {}
  /\ clock = 0
  /\ stage = [w \in Writers |-> "idle"]
  /\ draft = [w \in Writers |-> Blank]

-----------------------------------------------------------------------------
Stamps(S) == {r.at : r \in S}

Before(t, S) == {r \in S : r.at < t}

\* The last hash of S: that of its latest row, or "genesis".
IsLatest(l, S) ==
  /\ S = {} => l = 0
  /\ S # {} => l \in Stamps(S) /\ \A r \in S : r.at <= l

\* Every row of S carries the hash of the row just before it.
IsChain(S) == \A r \in S : IsLatest(r.prev, Before(r.at, S))

-----------------------------------------------------------------------------
\* Faulty variants of operators below: the last hash of any row rather than
\* of the latest, "genesis" when the last row cannot be read, a link to the
\* INSERT that started last instead of to the last row.
LinksToAnyRow(w) ==
  /\ stage[w] = "idle"
  /\ \E l \in {0} \union Stamps(rows) :
       /\ rows # {} => l # 0
       /\ draft' = [draft EXCEPT ![w].prev = l]
  /\ stage' = [stage EXCEPT ![w] = "read"]
  /\ UNCHANGED <<rows, clock>>

GenesisOnError(w) ==
  /\ stage[w] = "idle"
  /\ \E l \in Stamp :
       /\ l = 0 \/ IsLatest(l, rows)
       /\ draft' = [draft EXCEPT ![w].prev = l]
  /\ stage' = [stage EXCEPT ![w] = "read"]
  /\ UNCHANGED <<rows, clock>>

LinksToLastInsert(w) ==
  /\ stage[w] = "idle"
  /\ draft' = [draft EXCEPT ![w].prev = clock]
  /\ stage' = [stage EXCEPT ![w] = "read"]
  /\ UNCHANGED <<rows, clock>>

-----------------------------------------------------------------------------
\* SELECT ... ORDER BY created_at DESC LIMIT 1, before the first await ends.
ReadLast(w) ==
  /\ stage[w] = "idle"
  /\ \E l \in Stamp :
       /\ IsLatest(l, rows)
       /\ draft' = [draft EXCEPT ![w].prev = l]
  /\ stage' = [stage EXCEPT ![w] = "read"]
  /\ UNCHANGED <<rows, clock>>

\* The INSERT starts: created_at DEFAULT NOW() is fixed, others cannot see it.
StartInsert(w) ==
  /\ stage[w] = "read"
  /\ clock < MaxStamp
  /\ clock' = clock + 1
  /\ draft' = [draft EXCEPT ![w].at = clock']
  /\ stage' = [stage EXCEPT ![w] = "inserting"]
  /\ UNCHANGED rows

Leave(w) ==
  /\ stage' = [stage EXCEPT ![w] = "idle"]
  /\ draft' = [draft EXCEPT ![w] = Blank]

\* The INSERT is committed, whether or not its reply arrives.
CommitInsert(w) ==
  /\ stage[w] = "inserting"
  /\ rows' = rows \union {draft[w]}
  /\ Leave(w)
  /\ UNCHANGED clock

\* Either statement failed, or the caller went away before the INSERT.
FailAppend(w) ==
  /\ stage[w] # "idle"
  /\ Leave(w)
  /\ UNCHANGED <<rows, clock>>

\* The process restarts; PostgreSQL finishes or rolls back what it had begun.
LogRestart ==
  /\ \E done \in SUBSET {w \in Writers : stage[w] = "inserting"} :
       rows' = rows \union {draft[w] : w \in done}
  /\ stage' = [w \in Writers |-> "idle"]
  /\ draft' = [w \in Writers |-> Blank]
  /\ UNCHANGED clock

AppendStep(w) ==
  \/ ReadLast(w)
  \/ StartInsert(w)
  \/ CommitInsert(w)
  \/ FailAppend(w)

LogNext == LogRestart \/ \E w \in Writers : AppendStep(w)

LogSpec == LogInit /\ [][LogNext]_logVars

-----------------------------------------------------------------------------
(***************************************************************************)
(* However many appends race: created_at tells the rows apart, and from    *)
(* every row the hashes lead back in time, over rows that exist, to        *)
(* "genesis".                                                              *)
(***************************************************************************)
ChainRooted ==
  \A r \in rows :
    /\ r.prev < r.at
    /\ r.prev # 0 => r.prev \in Stamps(rows)
    /\ \A x \in rows : x.at = r.at => x = r

(***************************************************************************)
(* "Each audit row carries previous_hash (the previous row's entry_hash)"  *)
(* (docs/security-architecture.md:329): the rows are one chain, in order.  *)
(***************************************************************************)
Unforked == IsChain(rows)
=============================================================================
