--------------------------- MODULE MCOverlayPublish ---------------------------
(* Instance for TLC: the output and two leaves, one resource in each. *)
EXTENDS OverlayPublish

Parents == [d \in 1..3 |-> IF d = 1 THEN 0 ELSE 1]
Places == [i \in 1..2 |-> i + 1]
===============================================================================
