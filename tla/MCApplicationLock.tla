------------------------ MODULE MCApplicationLock -------------------------
(* The instance of ApplicationLock that TLC checks, with values for        *)
(* everything in its configuration. Liveness is checked in the same run,   *)
(* so nothing is declared symmetric.                                       *)
EXTENDS ApplicationLock
===========================================================================
