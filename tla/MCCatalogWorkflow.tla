-------------------------- MODULE MCCatalogWorkflow --------------------------
(* Instances for TLC: two sources and contents of which two have one size, one
   has another, and one no reader parses.  The limits let one resource through
   or two, and the larger output makes the stated total cross a power of ten. *)
EXTENDS CatalogWorkflow

Contents ==
  {[size |-> 2, out |-> 40, usable |-> TRUE, tag |-> 1],
   [size |-> 2, out |-> 50, usable |-> TRUE, tag |-> 2],
   [size |-> 3, out |-> 83, usable |-> TRUE, tag |-> 3],
   [size |-> 1, out |-> 0, usable |-> FALSE, tag |-> 4]}

\* A root at or above data/: both paths end in the same four components.
Ids == [s \in 1..2 |-> IF s = 1 THEN "0x12345678" ELSE "none"]

\* A root inside data/12: the relative path is too short to name the id.
ShortIds == [s \in 1..2 |-> "none"]
LongIds == [s \in 1..2 |-> IF s = 1 THEN "0x12345678" ELSE "0x12345679"]
=============================================================================
