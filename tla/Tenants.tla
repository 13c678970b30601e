------------------------------- MODULE Tenants -------------------------------
(***************************************************************************)
(* tenant.ensure: ensure_tenant_user, add_subid_range and next_subid_start *)
(* of internal/podman/mod.rs.  A tenant is a system user with a range of   *)
(* subordinate uids and one of gids.  The next range is computed from both *)
(* files and entered with one usermod for each, all for a new user only;   *)
(* commands run on several threads, so each program called is a step, and  *)
(* the reading of both files is one.                                       *)
(*                                                                         *)
(* Abstractions: a range of 65536 ids is its index from 100000 upwards,    *)
(* and nobody else enters ranges; lingering and the user session, whose    *)
(* errors are ignored, are left out.                                       *)
(***************************************************************************)
EXTENDS Naturals

CONSTANTS
  Slots,        \* commands that can be in progress at once
  Tenants       \* tenant ids

VARIABLES
  users,        \* tenants with a system user
  subuid,       \* /etc/subuid: pairs of a user and the range it holds
  subgid,       \* /etc/subgid
  task,         \* where each command is
  raced         \* history: two commands held ranges not yet entered

tenantVars == <<users, subuid, subgid, raced>>

Entry == [tenant : Tenants, range : Nat]

\* A tenant.ensure found no user ("missing"), added it ("added"), computed a
\* range ("ranged"), entered it for uids ("halfway").
EnsureTask ==
  [at : {"missing", "added"}, tenant : Tenants]
    \union [at : {"ranged", "halfway"}, tenant : Tenants, range : Nat]

Idle == [at |-> "idle"]

TenantsTypeOK ==
  /\ users \subseteq Tenants
  /\ subuid \subseteq Entry
  /\ subgid \subseteq Entry
  /\ raced \in BOOLEAN

TenantsInit ==
  /\ users = {}
  /\ subuid = {}
  /\ subgid = {}
  /\ raced = FALSE

-----------------------------------------------------------------------------
At(a, place) == task[a].at = place

Become(a, t) == task' = [task EXCEPT ![a] = t]

Ranges(file) == {e.range : e \in file}

-----------------------------------------------------------------------------
\* A faulty variant of PastEveryEnd: only the gid file is read.
PastGids(n) == \A r \in Ranges(subgid) : r < n

-----------------------------------------------------------------------------
\* next_subid_start: n lies past the end of every range of both files.
PastEveryEnd(n) == \A r \in Ranges(subuid \union subgid) : r < n

NextRanges ==
  {n \in {0} \union {r + 1 : r \in Ranges(subuid \union subgid)} : PastEveryEnd(n)}

\* id <user>: a user that exists is all that tenant.ensure asks for.
BeginEnsure(a, t) ==
  /\ At(a, "idle")
  /\ t \notin users
  /\ Become(a, [at |-> "missing", tenant |-> t])
  /\ UNCHANGED tenantVars

\* useradd; it fails when another command was faster.
AddUser(a) ==
  /\ At(a, "missing")
  /\ task[a].tenant \notin users
  /\ users' = users \union {task[a].tenant}
  /\ Become(a, [task[a] EXCEPT !.at = "added"])
  /\ UNCHANGED <<subuid, subgid, raced>>

ReadRanges(a) ==
  /\ At(a, "added")
  /\ \E n \in NextRanges :
       Become(a, [at |-> "ranged", tenant |-> task[a].tenant, range |-> n])
  /\ raced' = (raced \/ \E b \in Slots \ {a} : At(b, "ranged"))
  /\ UNCHANGED <<users, subuid, subgid>>

EntryOf(a) == [tenant |-> task[a].tenant, range |-> task[a].range]

\* usermod --add-subuids, then --add-subgids, with the same range.
AddUids(a) ==
  /\ At(a, "ranged")
  /\ subuid' = subuid \union {EntryOf(a)}
  /\ Become(a, [task[a] EXCEPT !.at = "halfway"])
  /\ UNCHANGED <<users, subgid, raced>>

AddGids(a) ==
  /\ At(a, "halfway")
  /\ subgid' = subgid \union {EntryOf(a)}
  /\ Become(a, Idle)
  /\ UNCHANGED <<users, subuid, raced>>

EnsureStep(a) == AddUser(a) \/ ReadRanges(a) \/ AddUids(a) \/ AddGids(a)

-----------------------------------------------------------------------------
(***************************************************************************)
(* Tenants have ranges of their own, of uids and of gids, whichever steps  *)
(* fail and however commands interleave, as long as no two commands        *)
(* compute a range before either has entered its first.                    *)
(***************************************************************************)
Disjoint(file) ==
  \A e, f \in file : e.range = f.range => e.tenant = f.tenant

RangesDisjoint == ~raced => Disjoint(subuid \union subgid)
=============================================================================
