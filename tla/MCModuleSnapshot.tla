-------------------------- MODULE MCModuleSnapshot --------------------------
(***************************************************************************)
(* The module snapshot alone, for the claim that the target is in it.      *)
(***************************************************************************)
EXTENDS ModuleSnapshot

Spec == ModuleInit /\ [][ModuleNext]_moduleVars
=============================================================================
