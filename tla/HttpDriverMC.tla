---------------------------- MODULE HttpDriverMC ----------------------------
(* Small instances of HttpDriver: with WidMod = 3 two sessions have two ids,  *)
(* with WidMod = 2 the counter comes round and they share one.               *)
EXTENDS HttpDriver, TLC

ReqsSymmetry == Permutations(Reqs)

=============================================================================
