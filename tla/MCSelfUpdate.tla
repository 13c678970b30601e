---------------------------- MODULE MCSelfUpdate ----------------------------
(***************************************************************************)
(* Self-update with an old release that comes up, one that starts and      *)
(* never serves, and the latest one, which comes up; a command and the     *)
(* fallback updater at once.  No release is broken: one that does not      *)
(* start is like a torn binary.                                            *)
(***************************************************************************)
EXTENDS SelfUpdate

MCVersions == 1 .. 3
MCGood == {1, 3}
MCBroken == {}
MCUpdates == {"update.self", "fallback"}
=============================================================================
