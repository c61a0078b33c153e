------------------------ MODULE MCRepairCoordinator ------------------------
(* RepairCoordinator with two processes and two runs.                       *)
EXTENDS RepairCoordinator

CONSTANTS p1, p2, r1, r2
=============================================================================
