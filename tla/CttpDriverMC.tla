---------------------------- MODULE CttpDriverMC ----------------------------
(* Small instances of CttpDriver: with MaxId = 1 attempts may share a number  *)
(* or not.                                                                    *)
EXTENDS CttpDriver, TLC

WsSymmetry == Permutations(WsReqs)

=============================================================================
