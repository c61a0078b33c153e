------------------------- MODULE MCVerifierExchange -------------------------
(* VerifierExchange on a small instance: two processes, two requests of      *)
(* which one outlives the other, and a store too small for all their rows.   *)
EXTENDS VerifierExchange, TLC

CONSTANTS p1, p2, r1, r2

MCTime == 0..3
MCExpiry == [r \in Request |-> IF r = r1 THEN 2 ELSE 3]

\* Processes are interchangeable; the requests differ in their expiry.
MCSymmetry == Permutations(Process)
=============================================================================
