---------------------------- MODULE MCPaidAdapters ----------------------------
(* The adapters with the poll limit of the code, for TLC. *)
EXTENDS PaidAdapters

MCMaxPolls == 45

===============================================================================
