------------------------------ MODULE CpuBudget ------------------------------
(***************************************************************************)
(* The CPU ledger of one supervised run and the session around it          *)
(* (src/src/codex/cpu-budget-contract.ts).  Every failure of the ledger    *)
(* poisons it.  Each operation is given by what it does when it returns and*)
(* by what it may have done when it throws.                                *)
(***************************************************************************)
EXTENDS Naturals, Sequences, SequencesExt

CONSTANT Budget  \* budgetUsec, in units the model counts

ASSUME BudgetAssumption == Budget \in Nat \ {0}

VARIABLE ledger  \* StaticSupervisorCpuBudgetLedger and the cleanup state of its session

RoleOrder == <<"egress", "worker", "verifier">>
Roles == ToSet(RoleOrder)

\* The usage a role may report: one unit over the budget is as good as any.
Usage == 0..(Budget + 1)

NewLedger ==
  [begun |-> 0, sealed |-> {}, usage |-> [r \in Roles |-> 0],
   failed |-> FALSE, finalized |-> FALSE, cleanup |-> "none"]

Mutable == ~ledger.failed /\ ~ledger.finalized
Begun == ToSet(SubSeq(RoleOrder, 1, ledger.begun))
Aggregate(usage) == usage["egress"] + usage["worker"] + usage["verifier"]

\* Egress, worker, verifier: the worker while the egress role is active, the
\* verifier when both are sealed.
MayBeginRole(r) ==
  /\ Mutable
  /\ ledger.begun < Len(RoleOrder) /\ RoleOrder[ledger.begun + 1] = r
  /\ r = "worker" => "egress" \notin ledger.sealed
  /\ r = "verifier" => {"egress", "worker"} \subseteq ledger.sealed

RoleStarted(r) == MayBeginRole(r) /\ ledger' = [ledger EXCEPT !.begun = @ + 1]

\* A failure poisons the ledger, unless it is finalized.
Poisoned(l) == [l EXCEPT !.failed = ~l.finalized]
Poison == ledger' = Poisoned(ledger)

\* The last sample of a role, which must leave the aggregate within the budget.
MayFinishRole(r, used) ==
  /\ Mutable /\ r \in Begun \ ledger.sealed
  /\ Aggregate([ledger.usage EXCEPT ![r] = used]) <= Budget
  /\ r = "egress" => "worker" \in ledger.sealed

RoleStopped(r, used) ==
  /\ MayFinishRole(r, used)
  /\ ledger' = [ledger EXCEPT !.usage[r] = used, !.sealed = @ \cup {r}]

\* The sample is kept also when it is the one that overdraws the budget.
RoleStoppedThrows(r, used) ==
  ledger' = IF Mutable /\ r \in Begun \ ledger.sealed
            THEN Poisoned([ledger EXCEPT !.usage[r] = used]) ELSE Poisoned(ledger)

MayFinalize == Mutable /\ ledger.sealed = Roles
Finalize == MayFinalize /\ ledger' = [ledger EXCEPT !.finalized = TRUE]

BeginCleanup == ledger.cleanup = "none" /\ ledger' = [ledger EXCEPT !.cleanup = "begun"]
CompleteCleanup == ledger.cleanup = "begun" /\ ledger' = [ledger EXCEPT !.cleanup = "completed"]
=============================================================================
