--------------------------- MODULE MCSwUpgradeOrch ---------------------------
(* Model-checking instance of SwUpgradeOrch: three subclouds, so that a     *)
(* parallel strategy of MaxParallel = 2 has a two-subcloud stage followed   *)
(* by a one-subcloud stage, and a serial strategy has three stages.         *)
EXTENDS SwUpgradeOrch

MCSubclouds == {1, 2, 3}
MCMaxParallel == 2
=============================================================================
