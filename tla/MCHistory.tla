----------------------------- MODULE MCHistory -----------------------------
(***************************************************************************)
(* The instances of MCEngine, with the histories the properties need.      *)
(***************************************************************************)
EXTENDS EngineHistory, MCEngine

=============================================================================
