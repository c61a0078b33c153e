---------------------------- MODULE MCLocalChallenge ----------------------------
(* LocalChallenge on a small instance.                                     *)
EXTENDS LocalChallenge, TLC
MCSymmetry == Permutations(Process) \cup Permutations(Operator)
=============================================================================
