---------------------------- MODULE MCCommandAuth ----------------------------
(***************************************************************************)
(* CommandAuth on four envelopes: a command, the same nonce signed again   *)
(* later, an acknowledgement with a nonce of its own, and an envelope      *)
(* addressed to another agent.                                             *)
(***************************************************************************)
EXTENDS CommandAuth

CONSTANTS cmd, resigned, ack, misaddressed, n1, n2

MCCommands == {cmd, resigned, ack, misaddressed}
MCNonces == {n1, n2}
MCNonceOf == [c \in MCCommands |-> IF c = ack THEN n2 ELSE n1]
MCTimestamp == [c \in MCCommands |-> IF c = resigned THEN 4 ELSE 1]
MCAcks == {ack}
MCAuthentic == {cmd, resigned, ack}
=============================================================================
