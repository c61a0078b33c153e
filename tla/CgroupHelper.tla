---------------------------- MODULE CgroupHelper ----------------------------
(***************************************************************************)
(* The client of the native cgroup helper                                  *)
(* (src/src/codex/linux-cgroup-helper-client.ts) and the CPU the cgroups of*)
(* the roles really use.  The client sends one request at a time; a time-  *)
(* out, an abort, an error response or a response that does not check out  *)
(* poisons the session, and nothing more is sent in it.                    *)
(***************************************************************************)
EXTENDS StartBarrier

CONSTANT MaxCpu  \* bound: the CPU a role can use, in units the model counts

ASSUME MaxCpuAssumption == MaxCpu \in Nat \ {0}

VARIABLES
  cpu,     \* usage_usec of the cgroup of each role
  helper   \* the session, the status of each bound role and its baseline

helperVars == <<cpu, helper>>

\* The states of a role: "NONE", "BOUND", "ACTIVE", "FROZEN", "KILL_SENT", "QUIESCENT", "RELEASED".

HelperInit ==
  /\ cpu = [r \in Roles |-> 0]
  /\ helper = [session |-> "open", status |-> [r \in Roles |-> "NONE"],
               baseline |-> [r \in Roles |-> 0]]

\* A process of the role uses CPU, before the barrier as after it.
RoleUsesCpu(r) ==
  /\ box[r] \in {"held", "executing"}
  /\ helper.status[r] \notin {"FROZEN", "KILL_SENT"}
  /\ cpu[r] < MaxCpu
  /\ cpu' = [cpu EXCEPT ![r] = @ + 1]
  /\ UNCHANGED helper

(***************************************************************************)
(* Requests.  Each needs an open session and a status of the role.         *)
(***************************************************************************)
Request(r, from, to) ==
  /\ helper.session = "open" /\ helper.status[r] \in from
  /\ helper' = [helper EXCEPT !.status[r] = to]
  /\ UNCHANGED cpu

\* A request that fails poisons the session, whatever the helper did; one that
\* is refused before it is sent changes nothing.
Poison ==
  /\ helper' = [helper EXCEPT !.session = IF @ = "open" THEN "poisoned" ELSE @]
  /\ UNCHANGED cpu

RequestFails == UNCHANGED helperVars \/ Poison

Bind(r) ==
  /\ helper.session = "open" /\ helper.status[r] = "NONE"
  /\ helper' = [helper EXCEPT !.status[r] = "BOUND", !.baseline[r] = cpu[r]]
  /\ UNCHANGED cpu

Activate(r) == Request(r, {"BOUND"}, "ACTIVE")
Sample(r) == Request(r, {"ACTIVE"}, "ACTIVE")
ReadQuiescent(r) == ~Running(r) /\ Request(r, {"ACTIVE", "KILL_SENT"}, "QUIESCENT")
Release(r) == r \in owner.removed /\ Request(r, {"QUIESCENT"}, "RELEASED")

\* Freeze, then kill every process of the cgroup.
Contain(r) ==
  /\ Request(r, {"BOUND", "ACTIVE"}, "KILL_SENT")
  /\ box' = [box EXCEPT ![r] = IF Running(r) THEN "failed" ELSE @]
  /\ UNCHANGED <<late, owner>>

ContainFails(r) ==
  \/ UNCHANGED dockerVars /\ RequestFails
  \/ \* frozen, and perhaps killed, when the session broke
     /\ helper.session = "open" /\ helper.status[r] \in {"BOUND", "ACTIVE"}
     /\ helper' = [helper EXCEPT !.session = "poisoned", !.status[r] = "FROZEN"]
     /\ box' \in {box, [box EXCEPT ![r] = IF Running(r) THEN "failed" ELSE @]}
     /\ UNCHANGED <<cpu, late, owner>>
  \/ Contain(r)

\* The helper stops only when no role is bound.
BoundRoles == {r \in Roles : helper.status[r] \notin {"NONE", "RELEASED"}}

StopHelper ==
  /\ \/ helper.session = "open" /\ BoundRoles = {}
     \/ helper.session = "stopped"  \* the first call's promise is returned again
  /\ helper' = [helper EXCEPT !.session = "stopped"]
  /\ UNCHANGED cpu

StopHelperFails ==
  \/ UNCHANGED helperVars
  \/ /\ helper.session = "open" /\ BoundRoles = {}
     /\ Poison

\* Ending the helper process, behind a receipt that every role and network is
\* absent.
TerminateHelper ==
  /\ Resources \subseteq owner'.removed
  /\ helper' = [helper EXCEPT !.session = "terminated"]
  /\ UNCHANGED cpu
=============================================================================
