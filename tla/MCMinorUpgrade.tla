--------------------------- MODULE MCMinorUpgrade ---------------------------
(* Three members in two sites, two upgrades to the same image.           *)
EXTENDS MinorUpgrade

TwoSites == [m \in Members |-> IF m = 1 THEN "a" ELSE "b"]
SameImage == [u \in Upgrades |-> 1]
=============================================================================
