---------------------------- MODULE MCWorkerRpc ----------------------------
(* WorkerRpc with two supervisors that share a replay file.                  *)
EXTENDS WorkerRpc, TLC

CONSTANTS c1, c2, s1, s2, i1, i2, n1, n2

MCSymmetry == Permutations(Call) \cup Permutations(Supervisor)
                \cup Permutations(RequestId) \cup Permutations(Nonce)
=============================================================================
