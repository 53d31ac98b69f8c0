------------------------------ MODULE ChannelsMC ------------------------------
(* One channel of eyre and its client, with one subscription that clogs at the  *)
(* second fact not acknowledged, reconnections, and a restart of the runtime.   *)
EXTENDS Channels

=============================================================================
