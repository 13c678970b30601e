------------------------------ MODULE MCSecrets ------------------------------
(***************************************************************************)
(* Two rotations at a time, two passwords drawn, two keys of the dashboard *)
(* and two restarts.                                                       *)
(***************************************************************************)
EXTENDS Secrets

CONSTANTS a1, a2, k1, k2, w0, w1, w2

MCSlots == {a1, a2}

MCPasswords == {w0, w1, w2}

MCPsks == {k1, k2}
=============================================================================
