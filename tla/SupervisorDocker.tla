--------------------------- MODULE SupervisorDocker ---------------------------
(***************************************************************************)
(* The supervisor's Docker driver                                          *)
(* (src/src/codex/supervisor-docker-driver.ts) over a CLI whose commands   *)
(* may be killed (docker-command-runner.ts), together with what the daemon *)
(* really holds.  A killed "create" or "start" may be applied later; what  *)
(* the driver cannot tell it calls ambiguous and never touches again.      *)
(*                                                                         *)
(* Which endpoints a network has is not kept: a container that is there may*)
(* be on the networks of its plan or already off them.                     *)
(***************************************************************************)
EXTENDS CpuBudget

VARIABLES
  box,     \* what the daemon holds: the state of every container and network
  late,    \* commands whose CLI was killed and that the daemon may still apply
  disk,    \* the workspaces that exist
  stray,   \* a CPU control call that was given up may still be at work
  handle   \* SupervisorDockerHandle

daemonVars == <<box, late>>
driverVars == <<box, late, disk, stray, handle, ledger>>

Networks == {"worker-network", "outbound-network"}
Resources == Roles \cup Networks
Workspaces == {"repair", "verification"}

Attached(x) ==
  CASE x = "worker-network" -> {"egress", "worker"}
    [] x = "outbound-network" -> {"egress"}
    [] OTHER -> {}

Late(cmd, x) == [cmd |-> cmd, on |-> x]

NewHandle ==
  [owned |-> {}, ambiguous |-> {}, removed |-> {}, observed |-> {}, accounted |-> {},
   session |-> FALSE, proof |-> FALSE, breached |-> FALSE]

DriverInit ==
  /\ box = [x \in Resources |-> "absent"] /\ late = {} /\ disk = {} /\ stray = FALSE
  /\ handle = NewHandle /\ ledger = NewLedger

(***************************************************************************)
(* Creation: the identifier that "create" prints is only a candidate until *)
(* an inspection has shown who owns it                                     *)
(***************************************************************************)
Create(x) ==
  /\ box' = [box EXCEPT ![x] = "created"]
  /\ handle' = [handle EXCEPT !.owned = @ \cup {x}]
  /\ UNCHANGED <<late, disk, stray, ledger>>

\* Mutant: a creation that failed is taken for one that did nothing.
CreateForgotten(x) ==
  /\ \/ box' \in {box, [box EXCEPT ![x] = "created"]} /\ UNCHANGED late
     \/ late' = late \cup {Late("create", x)} /\ UNCHANGED box
  /\ UNCHANGED <<handle, disk, stray, ledger>>

\* The command or the inspection failed: the resource is there, is not, or comes later.
CreateAmbiguous(x) ==
  /\ \/ box' \in {box, [box EXCEPT ![x] = "created"]} /\ UNCHANGED late
     \/ late' = late \cup {Late("create", x)} /\ UNCHANGED box
  /\ handle' = [handle EXCEPT !.ambiguous = @ \cup {x}]
  /\ UNCHANGED <<disk, stray, ledger>>

\* Or an observation after the ownership was established did.
CreateFails(x) == CreateAmbiguous(x) \/ Create(x)

\* The runner refuses an aborted command before it runs; the driver cannot tell.
CreateRefused(x) ==
  /\ handle' = [handle EXCEPT !.ambiguous = @ \cup {x}]
  /\ UNCHANGED <<box, late, disk, stray, ledger>>

(***************************************************************************)
(* Start, wait, stop and removal                                           *)
(***************************************************************************)
Start(r) ==
  /\ box[r] = "created"
  /\ box' = [box EXCEPT ![r] = "running"]
  /\ handle' = [handle EXCEPT !.observed = @ \cup {r}]
  /\ UNCHANGED <<late, disk, stray, ledger>>

StartFails(r) ==
  /\ \/ UNCHANGED daemonVars
     \/ box[r] = "created" /\ box' \in {[box EXCEPT ![r] = s] : s \in {"running", "exited"}}
        /\ UNCHANGED late
     \/ late' = late \cup {Late("start", r)} /\ UNCHANGED box
  /\ UNCHANGED <<disk, stray, handle, ledger>>

ObserveRunning(r) == box[r] = "running" /\ UNCHANGED driverVars

WaitAndReadLogs(r) == box[r] = "exited" /\ UNCHANGED driverVars

Stopped(r) == [box EXCEPT ![r] = IF @ = "running" THEN "exited" ELSE @]

Stop(r) == box' = Stopped(r) /\ UNCHANGED <<late, disk, stray, handle, ledger>>
StopFails(r) == box' \in {box, Stopped(r)} /\ UNCHANGED <<late, disk, stray, handle, ledger>>

\* A removed container takes the commands for it with it.
Gone(x) == late \ {Late("start", x)}

RemoveRole(r) ==
  /\ box' = [box EXCEPT ![r] = "absent"] /\ late' = Gone(r)
  /\ handle' = [handle EXCEPT !.removed = @ \cup {r}]
  /\ UNCHANGED <<disk, stray, ledger>>

RemoveRoleFails(r) ==
  /\ \/ UNCHANGED daemonVars
     \/ box' = [box EXCEPT ![r] = "absent"] /\ late' = Gone(r)
  /\ UNCHANGED <<disk, stray, handle, ledger>>

DaemonApplies(c) ==
  /\ c \in late
  /\ late' = late \ {c}
  /\ box' = [box EXCEPT ![c.on] = IF c.cmd = "create" THEN "created"
                                  ELSE IF @ = "created" THEN "running" ELSE @]
  /\ UNCHANGED <<disk, stray, handle, ledger>>

(***************************************************************************)
(* CPU control calls, each bounded in time and by the signal               *)
(***************************************************************************)
\* The call was given up: whether it happens, the driver will not know.
Breached(call, other) ==
  /\ call \/ other
  /\ stray' = TRUE
  /\ handle' = [handle EXCEPT !.breached = TRUE]
  /\ UNCHANGED <<box, late, disk>>

BeginSession ==
  /\ handle' = [handle EXCEPT !.session = TRUE]
  /\ UNCHANGED <<box, late, disk, stray, ledger>>

AccountStart(r) ==
  /\ handle.session /\ r \notin handle.accounted
  /\ RoleStarted(r)
  /\ handle' = [handle EXCEPT !.accounted = @ \cup {r}]
  /\ UNCHANGED <<box, late, disk, stray>>

AccountStop(r, used) ==
  /\ handle.session /\ r \in handle.accounted
  /\ RoleStopped(r, used)
  /\ UNCHANGED <<box, late, disk, stray, handle>>

FinalizeProof ==
  /\ handle.session /\ ~handle.proof /\ handle.accounted = Roles
  /\ Finalize
  /\ handle' = [handle EXCEPT !.proof = TRUE]
  /\ UNCHANGED <<box, late, disk, stray>>

StraySettles == stray /\ stray' = FALSE /\ UNCHANGED <<box, late, disk, handle, ledger>>

(***************************************************************************)
(* Cleanup of one resource: what it leaves, and whether its absence was    *)
(* observed                                                                *)
(***************************************************************************)
Untouched(x) == x \in handle.ambiguous \/ x \notin handle.owned

CleanUp(x) ==
  /\ ~Untouched(x)
  /\ box' = [box EXCEPT ![x] = "absent"] /\ late' = Gone(x)
  /\ UNCHANGED <<disk, stray, handle, ledger>>

\* A command failed, or an observation; a network still had a container on it.
CleanUpFails(x) ==
  /\ ~Untouched(x)
  /\ \/ box' \in {box, Stopped(x)} /\ UNCHANGED late
     \/ box' = [box EXCEPT ![x] = "absent"] /\ late' = Gone(x)
  /\ UNCHANGED <<disk, stray, handle, ledger>>

InUse(x) == \E r \in Attached(x) : box[r] # "absent"
=============================================================================
