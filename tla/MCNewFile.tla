------------------------------ MODULE MCNewFile ------------------------------
(* Instance for TLC: the constants are given in MCNewFile.cfg. *)
EXTENDS NewFile
===============================================================================
