------------------------------- MODULE MCNginx -------------------------------
(***************************************************************************)
(* One command at a time beside the watchdog; two configurations that the  *)
(* walker accepts and one that it refuses.                                 *)
(***************************************************************************)
EXTENDS Nginx

MCSlots == {"command"}
MCConfigs == {"good", "better", "alien"}
MCAccepted == {"good", "better"}
=============================================================================
