---------------------------- MODULE MCHttpxFetcher ----------------------------
(***************************************************************************)
(* Three tasks over one HttpxFetcher for TLC.                              *)
(***************************************************************************)
EXTENDS HttpxFetcher

CONSTANTS t1, t2, t3

===============================================================================
