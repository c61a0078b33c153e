---------------------------- MODULE MCPolicyStore ----------------------------
(* PolicyStore on small instances: anonymous workspaces and a plain project, *)
(* one text or a text and its amendment, one ambiguity with two options.     *)
EXTENDS PolicyStore, TLC

CONSTANTS p1, p2, w1, w2, plain, t1, t2, a1, o1, o2

MCTime == 0..1
MCMoves == {<<"READY_TO_COMPILE", "COMPILED">>}

\* Projects do not interact, except workspaces through the capacity: one at a
\* time suffices.  What is asked of a plain project is its re-creation under an
\* open call: it needs no third version for that.
MCBound ==
  /\ Cardinality(Stored) <= 1
  /\ \A id \in Stored \ Reserved : projects[id].current <= 2

\* Everything that carries no order is interchangeable.
MCSymmetry == Permutations(Process) \cup Permutations(Reserved)
                \cup Permutations(Text) \cup Permutations(Option)
=============================================================================
