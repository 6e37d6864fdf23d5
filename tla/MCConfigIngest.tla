-------------------------- MODULE MCConfigIngest --------------------------
(* The instance of ConfigIngest that TLC checks. *)
EXTENDS ConfigIngest
CONSTANTS a, b
===========================================================================
