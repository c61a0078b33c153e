-------------------------- MODULE MCRepairRunStore --------------------------
(* RepairRunStore on small instances: one or two processes that share the    *)
(* file, two run identifiers, two requests.                                  *)
EXTENDS RepairRunStore, TLC

CONSTANTS p1, p2, r1, r2, s1, k1, k2, in1, in2, pol1

MCPolicyOf == [i \in Input |-> pol1]
MCTime == 0..1

\* Processes, run identifiers, requests and inputs are interchangeable.
MCSymmetry == Permutations(Process) \cup Permutations(RunId)
                \cup Permutations(ClientRequest) \cup Permutations(Input)

\* Two logs of MCLogBudget entries between them leave a second run room to
\* start while a finished first one is still stored.
MCLogBudget == 7
MCShortLogs ==
  \A r, q \in DOMAIN runs :
    r # q => Len(runs[r].log) + Len(runs[q].log) <= MCLogBudget
=============================================================================
