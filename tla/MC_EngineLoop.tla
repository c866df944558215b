---------------------------- MODULE MC_EngineLoop ----------------------------
(* Model-checking instance of EngineLoop: the constants are set in the cfg. *)
EXTENDS EngineLoop
=============================================================================
