------------------------ MODULE MCWorkspaceRetention ------------------------
(* WorkspaceRetention with two processes, two workspaces and two runs.       *)
EXTENDS WorkspaceRetention, TLC

CONSTANTS p1, p2, w1, w2, r1, r2

MCSymmetry == Permutations(Process) \cup Permutations(Workspace)
                \cup Permutations(RunId)
=============================================================================
