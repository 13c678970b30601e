-------------------------- MODULE MCCommandPipeline --------------------------
(***************************************************************************)
(* A request over HTTP and the WebSocket session; a command, a genuine     *)
(* acknowledgement, and a forged command that reads like one.              *)
(***************************************************************************)
EXTENDS CommandPipeline

MCWriters == {"http", "ws"}
MCCommands == {"deploy", "ack", "forged"}
MCAcks == {"ack", "forged"}
MCGenuine == {"deploy", "ack"}
=============================================================================
