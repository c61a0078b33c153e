------------------------- MODULE RepairRunLifecycle -------------------------
(***************************************************************************)
(* What the repair-run ledger promises to its callers, without its tables, *)
(* clocks and leases: the status of each run (src/repair-runs/types.ts),   *)
(* who may change it, and that nothing new is admitted while a run is open *)
(* or poisoned.  RepairRunStore implements it; RepairCoordinator uses it.  *)
(*                                                                         *)
(* The holder is the process that admitted the open run.  Each operation   *)
(* of the holder may also be refused, which changes nothing here, and any  *)
(* process may fence the holder off at any time: a lease expires when its  *)
(* holder is slow, and clocks are not to be trusted.                       *)
(***************************************************************************)
EXTENDS Naturals

CONSTANTS Process, RunId, None

ASSUME HolderAssumption == None \notin Process

VARIABLES
  status,     \* the status of every run, "ABSENT" for an unused identifier
  recorded,   \* phase events recorded for a running run, out of PhaseEvents
  holder      \* the process that may change the open run, or None

lifecycleVars == <<status, recorded, holder>>

Running == {"RUNNING", "CLEANUP_PENDING"}
Open == {"QUEUED"} \cup Running
Closing == Open \cup {"POISONED"}
Finished == {"BLOCKED", "SUCCEEDED", "FAILED"}
RunStatus == Closing \cup Finished \cup {"ABSENT"}

\* Start and completion of cartography, repair, verification and review.
PhaseEvents == 8

LifecycleTypeOK ==
  /\ status \in [RunId -> RunStatus]
  /\ recorded \in [RunId -> 0..PhaseEvents]
  /\ holder \in Process \cup {None}

LifecycleInit ==
  /\ status = [r \in RunId |-> "ABSENT"]
  /\ recorded = [r \in RunId |-> 0]
  /\ holder = None

-----------------------------------------------------------------------------
Move(r, from, to) ==
  /\ status[r] \in from
  /\ status' = [status EXCEPT ![r] = to]

AdmissionOpen == \A r \in RunId : status[r] \notin Closing

Admit(p, r) ==
  /\ AdmissionOpen
  /\ Move(r, {"ABSENT"}, "QUEUED")
  /\ holder' = p
  /\ UNCHANGED recorded

Start(p, r) ==
  /\ holder = p
  /\ Move(r, {"QUEUED"}, "RUNNING")
  /\ UNCHANGED <<recorded, holder>>

Record(p, r) ==
  /\ holder = p
  /\ status[r] = "RUNNING"
  /\ recorded[r] < PhaseEvents
  /\ recorded' = [recorded EXCEPT ![r] = @ + 1]
  /\ UNCHANGED <<status, holder>>

AwaitCleanup(p, r) ==
  /\ holder = p
  /\ Move(r, {"RUNNING"}, "CLEANUP_PENDING")
  /\ recorded' = [recorded EXCEPT ![r] = 0]
  /\ UNCHANGED holder

\* The holder closes its run and gives up its authority.
Close(p, r, from, to) ==
  /\ holder = p
  /\ Move(r, from, to)
  /\ recorded' = [recorded EXCEPT ![r] = 0]
  /\ holder' = None

Succeed(p, r) ==
  /\ recorded[r] = PhaseEvents
  /\ Close(p, r, {"RUNNING"}, "SUCCEEDED")
Block(p, r)    == Close(p, r, {"QUEUED"}, "BLOCKED")
Fail(p, r)     == Close(p, r, {"QUEUED"} \cup Running, "FAILED")
Poison(p, r)   == Close(p, r, Running, "POISONED")

FencedStatusAlwaysFailed(st) == "FAILED"                         \* mutant
\* Expiry, or a failed heartbeat: what had not started fails, what had started
\* is poisoned, for nobody can tell whether its worker has stopped.
FencedStatus(st) == IF st = "QUEUED" THEN "FAILED" ELSE "POISONED"
Fence(r) ==
  /\ Move(r, Open, FencedStatus(status[r]))
  /\ recorded' = [recorded EXCEPT ![r] = 0]
  /\ holder' = None

\* Retention deletes finished runs, never an open or a poisoned one.
Forget(gone) ==
  /\ \A r \in gone : status[r] \in Finished
  /\ status' = [r \in RunId |-> IF r \in gone THEN "ABSENT" ELSE status[r]]
  /\ UNCHANGED <<recorded, holder>>

LifecycleNext ==
  \/ \E p \in Process, r \in RunId :
       \/ Admit(p, r) \/ Start(p, r) \/ Record(p, r) \/ AwaitCleanup(p, r)
       \/ Succeed(p, r) \/ Block(p, r) \/ Fail(p, r) \/ Poison(p, r)
  \/ \E r \in RunId : Fence(r)
  \/ \E gone \in SUBSET RunId : Forget(gone)

LifecycleSpec == LifecycleInit /\ [][LifecycleNext]_lifecycleVars
=============================================================================
