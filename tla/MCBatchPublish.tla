---------------------------- MODULE MCBatchPublish ----------------------------
(* Instance for TLC: the constants are given in MCBatchPublish.cfg. *)
EXTENDS BatchPublish
===============================================================================
