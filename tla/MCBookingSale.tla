---------------------------- MODULE MCBookingSale ----------------------------
(* A booking of each kind at a price of four; two tickets at two each.     *)
EXTENDS BookingSale
==============================================================================
