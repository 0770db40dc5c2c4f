---------------------------- MODULE MCRouterRestart ----------------------------
(***************************************************************************)
(* Small instances of RouterRestart for TLC.                               *)
(***************************************************************************)
EXTENDS RouterRestart, MCRouter

===============================================================================
