---------------------------- MODULE AuditReplica ----------------------------
(***************************************************************************)
(* The audit log and its sync implement Replica: the log is the committed  *)
(* rows in the order of created_at, the copy what the dashboard holds of   *)
(* them.  The log is broken when an append commits that another overtook:  *)
(* its row forks the chain or enters the log before its end.               *)
(***************************************************************************)
EXTENDS AuditSync

DashboardCopy ==
  INSTANCE Replica WITH Entry <- Row, log <- rows, copy <- dashboard,
    broken <- raced

(***************************************************************************)
(* Whatever is lost, late, restored or interrupted in the sync, and        *)
(* however many appends are in progress, the dashboard's copy of the audit *)
(* log is a prefix of it at every moment until an append that another      *)
(* overtook commits.                                                       *)
(***************************************************************************)
IsReplica == DashboardCopy!Spec
=============================================================================
