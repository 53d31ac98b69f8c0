------------------------------ MODULE PipelineMC ------------------------------
(* Values of the constants of Pipeline for TLC: the first driver retries, the *)
(* second does not.                                                           *)
EXTENDS Pipeline

=============================================================================
