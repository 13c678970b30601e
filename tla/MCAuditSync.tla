----------------------------- MODULE MCAuditSync -----------------------------
(***************************************************************************)
(* The audit log and its sync, with two appends in progress at once.       *)
(***************************************************************************)
EXTENDS AuditReplica

TwoWriters == {"http", "watchdog"}
=============================================================================
