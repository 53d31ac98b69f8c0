----------------------------- MODULE WsServerMC -----------------------------
(* Small instances of WsServer. *)
EXTENDS WsServer

=============================================================================
