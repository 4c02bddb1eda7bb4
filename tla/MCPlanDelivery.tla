--------------------------- MODULE MCPlanDelivery ---------------------------
(* Model checking PlanDelivery: contents are interchangeable.              *)
EXTENDS PlanDelivery, TLC

ContentSymmetry == Permutations(Contents)
=============================================================================
