----------------------------- MODULE MCLockdown -----------------------------
(***************************************************************************)
(* Lockdown with acknowledgements from two channels at once.               *)
(***************************************************************************)
EXTENDS Lockdown

MCAckTasks == {"http", "ws"}
=============================================================================
