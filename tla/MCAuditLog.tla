----------------------------- MODULE MCAuditLog -----------------------------
(***************************************************************************)
(* The audit log with appends that race: a command over HTTP, one over the *)
(* WebSocket session, and the nginx watchdog.                              *)
(***************************************************************************)
EXTENDS AuditLog

MCWriters == {"http", "ws", "watchdog"}
=============================================================================
