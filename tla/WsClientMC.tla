----------------------------- MODULE WsClientMC -----------------------------
(* Small instances of WsClient: requests are on one duct, so that the second  *)
(* can be a redirect of the first, and every handshake has a duct of its own. *)
EXTENDS WsClient

ducts == [c \in Reqs |-> IF c \in PlainReqs THEN "requests" ELSE c]

=============================================================================
