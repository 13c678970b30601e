------------------------------ MODULE Replica ------------------------------
(***************************************************************************)
(* What the audit sync promises: the dashboard holds a copy of the agent's *)
(* audit log that is at every moment a prefix of it.  The log only grows,  *)
(* at its end; the copy grows by entries of the log, in their order, and   *)
(* shrinks, from its end, only when the dashboard is restored from a       *)
(* backup.  The promise lapses when the log is broken.                     *)
(*                                                                         *)
(* Log and copy are sets of entries, ordered by the field "at" of each.    *)
(***************************************************************************)
EXTENDS Naturals

CONSTANT Entry

VARIABLES log, copy, broken

vars == <<log, copy, broken>>

\* With an entry, c has every entry of l up to it.
Prefix(c, l) ==
  /\ c \subseteq l
  /\ \A e \in c, f \in l : f.at <= e.at => f \in c

Init == log = {} /\ copy = {} /\ broken = FALSE

\* One or several entries: a restart may commit what was in progress.
Extend ==
  /\ ~broken'
  /\ Prefix(log, log')
  /\ log' \subseteq Entry
  /\ UNCHANGED copy

Replicate ==
  /\ ~broken'
  /\ copy \subseteq copy'
  /\ Prefix(copy', log)
  /\ UNCHANGED log

Restore ==
  /\ ~broken'
  /\ Prefix(copy', copy)
  /\ UNCHANGED log

Lapse == broken'

Next ==
  \/ ~broken /\ (Extend \/ Replicate \/ Restore)
  \/ Lapse

Spec == Init /\ [][Next]_vars
=============================================================================
