------------------------------ MODULE MCStartup ------------------------------
(* Two templates, one of them without models, as zenmux is. *)
EXTENDS Startup

MCBuiltinModels == [t \in Builtin |-> IF t = "zenmux" THEN {} ELSE {"m1", "m2"}]
=============================================================================
