------------------------- MODULE DedicatedLifecycle -------------------------
(***************************************************************************)
(* One live run of the three roles under the cgroup helper:                *)
(* runDedicatedLifecycleCore (live-linux-cgroup-cpu-dedicated-lifecycle.ts)*)
(* calling the operations of live-linux-docker-cgroup-system-adapter.ts,   *)
(* which drive the Docker owner, the start barrier and the cgroup helper.  *)
(*                                                                         *)
(* "todo" is what the core has still to do, as a list of operations: the   *)
(* success path at first, the cleanup of whatever was started after a      *)
(* failure.  An operation is one step; when it throws it may leave behind  *)
(* any prefix of its effects.  Between two steps the containers run, late  *)
(* commands are applied and the execution signal may be aborted.           *)
(***************************************************************************)
EXTENDS CgroupHelper, Integers

CONSTANTS
  Budget,    \* maximumCumulativeCpuUsec
  MaxFaults  \* bound: the operations and containers of a run that fail of themselves

ASSUME BudgetAssumption == Budget \in Nat
ASSUME MaxFaultsAssumption == MaxFaults \in Nat

VARIABLES
  adapter,  \* AdapterState, with its flags per role as sets of roles
  core,     \* the variables of runDedicatedLifecycleCore
  todo,     \* the operations still to be done
  aborted,  \* the execution signal
  faults    \* how many operations and containers have failed of themselves

coreVars == <<core, todo, aborted, faults>>
vars == <<dockerVars, barrierVars, helperVars, adapter, coreVars>>

None == -1  \* no baseline read yet

FailureCodes == {"none", "CPU_BUDGET_EXCEEDED", "EXECUTION_ABORTED",
                 "ROLE_IDENTITY_REVALIDATION_FAILED", "ROLE_EXECUTION_FAILED",
                 "LIFECYCLE_OPERATION_FAILED"}

(***************************************************************************)
(* The program                                                             *)
(***************************************************************************)
Do(op, r) == <<[op |-> op, role |-> r]>>

\* Mutant: the role executes before its baseline is read.
SetupRoleReadingLate(r) ==
  Do("startRoleHeld", r) \o Do("waitRoleBarrierHeld", r) \o Do("bindRoleIdentityAndCgroup", r)
    \o Do("releaseRoleBarrier", r) \o Do("readRoleBaseline", r)

SetupRole(r) ==
  Do("startRoleHeld", r) \o Do("waitRoleBarrierHeld", r) \o Do("bindRoleIdentityAndCgroup", r)
    \o Do("readRoleBaseline", r) \o Do("releaseRoleBarrier", r)

CleanupRole(r) ==
  Do("stopOrContainRole", r) \o Do("readQuiescentSample", r) \o Do("releaseRoleDocker", r)
    \o Do("releaseRoleCgroup", r) \o Do("finishRoleCleanup", r)

Observe(r) == Do("observeUntilRoleExit", r) \o Do("executionObserved", r)

SuccessProgram ==
  Do("createOwnedContainers", "all") \o SetupRole("egress") \o SetupRole("worker")
    \o Observe("worker") \o CleanupRole("worker") \o CleanupRole("egress")
    \o Do("requireCleanup", "all")
    \o SetupRole("verifier") \o Observe("verifier") \o CleanupRole("verifier")
    \o Do("requireCleanup", "all") \o Do("stopController", "all") \o Do("return", "all")

TerminalProgram ==
  CleanupRole("verifier") \o CleanupRole("worker") \o CleanupRole("egress")
    \o Do("stopController", "all") \o Do("return", "all")

\* LIVE_LINUX_CGROUP_CPU_DEDICATED_SUCCESS_STAGES, each named by the operation
\* after which the core marks it; the last one is never marked.
BarrierStages(r) ==
  Do("waitRoleBarrierHeld", r) \o Do("bindRoleIdentityAndCgroup", r)
    \o Do("readRoleBaseline", r) \o Do("releaseRoleBarrier", r)
ReleaseStages(r) ==
  Do("readQuiescentSample", r) \o Do("releaseRoleDocker", r) \o Do("releaseRoleCgroup", r)
SuccessStages ==
  Do("createOwnedContainers", "all") \o BarrierStages("egress") \o BarrierStages("worker")
    \o Do("executionObserved", "worker") \o ReleaseStages("worker") \o ReleaseStages("egress")
    \o BarrierStages("verifier") \o Do("executionObserved", "verifier")
    \o ReleaseStages("verifier") \o Do("stopController", "all") \o Do("evidenceFinalized", "all")

Init ==
  /\ OwnerInit /\ BarrierInit /\ HelperInit
  /\ adapter = [owned |-> {}, bound |-> {}, reobserved |-> {}, released |-> {}, receipt |-> {},
                cgroup |-> {}, stopped |-> FALSE]
  /\ core = [phase |-> "running", result |-> "none", failure |-> "none", stages |-> 0,
             started |-> {}, active |-> {}, docker |-> {}, cgroup |-> {},
             baseline |-> [r \in Roles |-> None], latest |-> [r \in Roles |-> None],
             record |-> FALSE, thrown |-> FALSE, sticky |-> FALSE, stopped |-> FALSE,
             forced |-> FALSE, hung |-> FALSE]
  /\ todo = SuccessProgram
  /\ aborted = FALSE
  /\ faults = 0

(***************************************************************************)
(* Control of the core                                                     *)
(***************************************************************************)
Current == todo[1]
At(op, r) ==
  core.phase # "done" /\ ~core.hung /\ todo # <<>> /\ Current = [op |-> op, role |-> r]

\* Mutant: an operation, and so the next poll, begins although the signal is aborted.
BeginsThoughAborted(op, r) == At(op, r)

\* An execution operation begins only when the signal is not aborted.
Begins(op, r) == At(op, r) /\ ~aborted

\* A stopped adapter refuses every operation.
Live == ~adapter.stopped

CleanupComplete(c, r) == r \notin c.active /\ r \in c.docker \cap c.cgroup

\* What the cleanup of a role, and the stop of the controller, leave out.
Due(e, c) ==
  CASE e.op \in {"stopOrContainRole", "readQuiescentSample"} ->
         e.role \in c.started /\ ~CleanupComplete(c, e.role)
    [] e.op = "releaseRoleDocker" -> e.role \notin c.docker
    [] e.op = "releaseRoleCgroup" -> e.role \in c.started \ c.cgroup
    [] e.op = "finishRoleCleanup" -> c.thrown
    [] e.op = "stopController" -> ~c.stopped
    [] OTHER -> TRUE

\* The core goes on with the first operation that is due.
FirstDue(i, rest, c) == Due(rest[i], c) /\ \A j \in 1..(i - 1) : ~Due(rest[j], c)

GoTo(c, rest) ==
  /\ core' = c
  /\ \E i \in DOMAIN rest : FirstDue(i, rest, c) /\ todo' = SubSeq(rest, i, Len(rest))

\* A failure of the success path: record it and clean up.
Raise(c, code) ==
  LET failed == [c EXCEPT !.phase = "terminal", !.failure = code,
                          !.record = FALSE, !.thrown = FALSE]
  IN GoTo(failed, TerminalProgram)

\* mark(stage): a stage out of order is a failure.
Proceed(c) ==
  IF Current = SuccessStages[c.stages + 1]
    THEN GoTo([c EXCEPT !.stages = @ + 1], Tail(todo))
    ELSE Raise(c, "LIFECYCLE_OPERATION_FAILED")

Returns(c) == Proceed(c) /\ UNCHANGED <<aborted, faults>>
Goes(c) == GoTo(c, Tail(todo)) /\ UNCHANGED <<aborted, faults>>

\* A fault is a failure that the state does not force: it is what MaxFaults
\* bounds.  A refusal is one that it does.
Fault == faults < MaxFaults /\ faults' = faults + 1

\* An execution operation throws, or the signal is aborted while it runs.
Throws(code) ==
  /\ Fault
  /\ aborted' \in {aborted, TRUE}
  /\ Raise(core, IF aborted' THEN "EXECUTION_ABORTED" ELSE code)

ExecutionFaults == Throws("LIFECYCLE_OPERATION_FAILED")
ExecutionRefused == Raise(core, "LIFECYCLE_OPERATION_FAILED") /\ UNCHANGED <<aborted, faults>>

RaisesWhenAborted ==
  /\ core.phase = "running" /\ aborted /\ ~core.hung
  /\ Current.op \in {"createOwnedContainers", "startRoleHeld", "waitRoleBarrierHeld",
                     "bindRoleIdentityAndCgroup", "readRoleBaseline", "releaseRoleBarrier",
                     "observeUntilRoleExit", "sampleRole"}
  /\ Raise(core, "EXECUTION_ABORTED")
  /\ UNCHANGED <<dockerVars, barrierVars, helperVars, adapter, aborted, faults>>

(***************************************************************************)
(* The success path                                                        *)
(***************************************************************************)
CreateOwnedContainers ==
  /\ Begins("createOwnedContainers", "all")
  /\ \/ CreateAll /\ Returns(core)
     \/ CreateFails /\ ExecutionFaults
  /\ UNCHANGED <<barrierVars, helperVars, adapter>>

\* The role counts as started only once the operation has returned.
StartRoleHeld(r) ==
  LET mayStart == Live /\ box[r] = "created" /\ r \in owner.known /\ owner.created IN
  /\ Begins("startRoleHeld", r)
  /\ \/ /\ mayStart /\ StartHeld(r)
        /\ Goes([core EXCEPT !.started = @ \cup {r}, !.active = @ \cup {r}])
     \/ mayStart /\ StartFails(r) /\ ExecutionFaults
     \/ ~mayStart /\ UNCHANGED dockerVars /\ ExecutionRefused
  /\ UNCHANGED <<barrierVars, helperVars, adapter>>

WaitRoleBarrierHeld(r) ==
  /\ Begins("waitRoleBarrierHeld", r)
  /\ \/ Live /\ AwaitHeld(r) /\ Returns(core)
     \/ Live /\ AwaitHeldFails(r) /\ ExecutionFaults
     \/ r \notin frames.held /\ AwaitHeldFails(r) /\ ExecutionRefused
  /\ UNCHANGED <<dockerVars, helperVars, adapter>>

\* Observe the running container, bind its cgroup, observe it again: a failure
\* after the bind leaves the role bound but not reobserved.
BindRoleIdentityAndCgroup(r) ==
  LET bound == [adapter EXCEPT !.owned = @ \cup {r}, !.bound = @ \cup {r}]
      reobserved == [bound EXCEPT !.reobserved = @ \cup {r}]
      mayBind == /\ Live /\ r \notin adapter.owned /\ barrier.status[r] = "HELD"
                 /\ Running(r) /\ helper.session = "open"
  IN
  /\ Begins("bindRoleIdentityAndCgroup", r)
  /\ \/ mayBind /\ Bind(r) /\ adapter' = reobserved /\ Returns(core)
     \/ mayBind /\ Bind(r) /\ adapter' \in {bound, reobserved} /\ ExecutionFaults
     \/ mayBind /\ RequestFails /\ UNCHANGED adapter /\ ExecutionFaults
     \/ ~mayBind /\ UNCHANGED <<helperVars, adapter>> /\ ExecutionRefused
  /\ UNCHANGED <<dockerVars, barrierVars>>

ReadRoleBaseline(r) ==
  LET read == helper.baseline[r] IN
  /\ Begins("readRoleBaseline", r)
  /\ IF Live /\ r \in adapter.bound \cap adapter.reobserved
       THEN Returns([core EXCEPT !.baseline[r] = read, !.latest[r] = read])
       ELSE ExecutionRefused
  /\ UNCHANGED <<dockerVars, barrierVars, helperVars, adapter>>

\* The barrier is released before the helper role is activated; an abort in
\* between leaves a released role that the adapter does not call released.
ReleaseRoleBarrier(r) ==
  LET mayRelease ==
        /\ Live
        /\ r \in (adapter.owned \cap adapter.bound \cap adapter.reobserved) \ adapter.released
        /\ barrier.status[r] = "HELD"
  IN
  /\ Begins("releaseRoleBarrier", r)
  /\ \/ /\ mayRelease /\ ReleaseBarrier(r) /\ Activate(r)
        /\ adapter' = [adapter EXCEPT !.released = @ \cup {r}]
        /\ Returns(core) \/ ExecutionFaults
     \/ /\ mayRelease /\ ReleaseBarrier(r)
        /\ UNCHANGED <<helperVars, adapter>> /\ ExecutionFaults
     \/ /\ mayRelease /\ ReleaseBarrierFails(r)
        /\ UNCHANGED <<helperVars, adapter>> /\ ExecutionFaults
     \/ /\ ~mayRelease /\ UNCHANGED <<barrierVars, helperVars, adapter>> /\ ExecutionRefused
  /\ UNCHANGED dockerVars

(***************************************************************************)
(* Observation                                                             *)
(***************************************************************************)
CumulativeCpu(latest) ==
  LET used(r) == IF core.baseline[r] = None THEN 0 ELSE latest[r] - core.baseline[r]
  IN used("egress") + used("worker") + used("verifier")

SampleIfActive(r) == IF r \in core.active THEN Do("sampleRole", r) ELSE <<>>
SampleActiveRoles ==
  SampleIfActive("egress") \o SampleIfActive("worker") \o SampleIfActive("verifier")

\* Each poll samples every active role, and the exit of the role is followed by
\* one more round before the loop is left.
ObserveUntilRoleExit(r) ==
  LET mayWait == Live /\ r \in adapter.owned \cap adapter.released IN
  /\ Begins("observeUntilRoleExit", r)
  /\ \/ /\ mayWait
        /\ \/ todo' = SampleActiveRoles \o todo
           \/ box[r] = "exited" /\ todo' = SampleActiveRoles \o Tail(todo)
        /\ UNCHANGED <<core, aborted, faults>>
     \/ /\ ~mayWait \/ box[r] \notin RunningStates \cup {"exited"}
        /\ Raise(core, "ROLE_EXECUTION_FAILED") /\ UNCHANGED <<aborted, faults>>
     \/ Throws("ROLE_EXECUTION_FAILED")
  /\ UNCHANGED <<dockerVars, barrierVars, helperVars, adapter>>

SampleRole(r) ==
  LET latest == [core.latest EXCEPT ![r] = cpu[r]]
      sampled == [core EXCEPT !.latest = latest]
      maySample == /\ Live /\ r \in adapter.bound \cap adapter.released
                   /\ helper.session = "open" /\ helper.status[r] = "ACTIVE"
  IN
  /\ Begins("sampleRole", r)
  /\ \/ /\ maySample /\ Sample(r) /\ UNCHANGED <<aborted, faults>>
        /\ IF CumulativeCpu(latest) > Budget THEN Raise(sampled, "CPU_BUDGET_EXCEEDED")
                                             ELSE GoTo(sampled, Tail(todo))
     \/ maySample /\ RequestFails /\ Throws("ROLE_IDENTITY_REVALIDATION_FAILED")
     \/ /\ ~maySample /\ UNCHANGED <<helperVars, aborted, faults>>
        /\ Raise(core, "ROLE_IDENTITY_REVALIDATION_FAILED")
  /\ UNCHANGED <<dockerVars, barrierVars, adapter>>

ExecutionObserved(r) ==
  /\ At("executionObserved", r)
  /\ Returns(core)
  /\ UNCHANGED <<dockerVars, barrierVars, helperVars, adapter>>

(***************************************************************************)
(* Cleanup.  Every operation has a signal of its own and a time limit.     *)
(***************************************************************************)
\* After a role that could not be stopped there is no final sample.
AfterFailure == IF Current.op = "stopOrContainRole" THEN Tail(Tail(todo)) ELSE Tail(todo)

\* Mutant: the cleanup goes on and forgets the failure.
GoesOn(c) ==
  LET sampling == Current.op \in {"stopOrContainRole", "readQuiescentSample"}
  IN GoTo([c EXCEPT !.record = @ /\ ~sampling], AfterFailure)

\* The failure of a cleanup operation sticks, and the cleanup goes on.
Sticks(c) ==
  LET sampling == Current.op \in {"stopOrContainRole", "readQuiescentSample"}
  IN GoTo([c EXCEPT !.sticky = TRUE, !.record = @ /\ ~sampling], AfterFailure)

CleanupRefused == Sticks(core) /\ UNCHANGED <<aborted, faults>>

\* A fault, or an operation that does not come back in its time.
CleanupFaults ==
  /\ Fault /\ UNCHANGED aborted
  /\ \/ Sticks(core)
     \/ core' = [core EXCEPT !.hung = TRUE] /\ UNCHANGED todo

\* Stages are recorded only on the success path, and only after a final sample.
CleanupReturns(c) ==
  (IF c.record THEN Proceed(c) ELSE GoTo(c, Tail(todo))) /\ UNCHANGED <<aborted, faults>>

\* A normal stop goes through Docker, containment through the helper.
StopOrContainRole(r) ==
  LET normal == core.phase = "running"
      rest == IF core.baseline[r] = None THEN Tail(Tail(todo)) ELSE Tail(todo)
      mayStop == Live /\ normal /\ r \in adapter.owned
      mayContain == /\ Live /\ ~normal /\ r \in adapter.owned \cap adapter.bound
                    /\ helper.session = "open" /\ helper.status[r] \in {"BOUND", "ACTIVE"}
  IN
  /\ At("stopOrContainRole", r)
  /\ \/ /\ \/ mayStop /\ StopRole(r) /\ UNCHANGED helperVars
           \/ mayContain /\ Contain(r)
        /\ GoTo([core EXCEPT !.record = FALSE, !.thrown = FALSE], rest) /\ UNCHANGED <<aborted, faults>>
     \/ mayStop /\ (StopRole(r) \/ UNCHANGED dockerVars) /\ UNCHANGED helperVars /\ CleanupFaults
     \/ mayContain /\ ContainFails(r) /\ CleanupFaults
     \/ ~mayStop /\ ~mayContain /\ UNCHANGED <<dockerVars, helperVars>> /\ CleanupRefused
  /\ UNCHANGED <<barrierVars, adapter>>

\* The final sample counts against the budget; what it throws is kept until the
\* role has been released.
ReadQuiescentSample(r) ==
  LET latest == [core.latest EXCEPT ![r] = cpu[r]]
      over == CumulativeCpu(latest) > Budget
      sampled == [core EXCEPT !.latest = latest, !.thrown = over,
                              !.record = core.phase = "running" /\ ~over]
      mayRead == /\ Live /\ r \in adapter.bound /\ helper.session = "open"
                 /\ helper.status[r] \in {"ACTIVE", "KILL_SENT"} /\ ~Running(r)
  IN
  /\ At("readQuiescentSample", r)
  /\ \/ mayRead /\ ReadQuiescent(r) /\ CleanupReturns(sampled)
     \/ mayRead /\ (RequestFails \/ ReadQuiescent(r)) /\ CleanupFaults
     \/ ~mayRead /\ RequestFails /\ CleanupRefused
  /\ UNCHANGED <<dockerVars, barrierVars, adapter>>

ReleaseRoleDocker(r) ==
  LET receipt == [adapter EXCEPT !.receipt = @ \cup {r}] IN
  /\ At("releaseRoleDocker", r)
  /\ \/ /\ Live /\ RemoveRole(r)
        /\ adapter' = receipt
        /\ CleanupReturns([core EXCEPT !.docker = @ \cup {r}])
     \/ /\ Live /\ Removable(r) /\ RemoveRoleFails(r)
        /\ adapter' = IF r \in owner'.removed THEN receipt ELSE adapter
        /\ CleanupFaults
     \/ (~Live \/ ~Removable(r)) /\ UNCHANGED <<dockerVars, adapter>> /\ CleanupRefused
  /\ UNCHANGED <<barrierVars, helperVars>>

\* A role that was never bound needs its removal receipt and nothing more.
ReleaseRoleCgroup(r) ==
  LET unbound == Live /\ r \in adapter.receipt \ (adapter.bound \cup adapter.cgroup)
      bound == /\ Live /\ r \in (adapter.owned \cap adapter.bound \cap adapter.receipt) \ adapter.cgroup
               /\ helper.session = "open" /\ helper.status[r] = "QUIESCENT"
      released == [adapter EXCEPT !.cgroup = @ \cup {r}]
  IN
  /\ At("releaseRoleCgroup", r)
  /\ \/ /\ \/ unbound /\ UNCHANGED helperVars
           \/ bound /\ Release(r)
        /\ adapter' = released
        /\ CleanupReturns([core EXCEPT !.cgroup = @ \cup {r}, !.active = @ \ {r}])
     \/ bound /\ Poison /\ UNCHANGED adapter /\ CleanupFaults
     \/ bound /\ Release(r) /\ adapter' = released /\ CleanupFaults
     \/ ~unbound /\ ~bound /\ UNCHANGED <<helperVars, adapter>> /\ CleanupRefused
  /\ UNCHANGED <<dockerVars, barrierVars>>

\* A final sample over budget is a failure of the run.  In the cleanup after
\* another failure it replaces that failure only when that one was generic.
FinishRoleCleanup(r) ==
  LET code == IF core.failure = "LIFECYCLE_OPERATION_FAILED" THEN "CPU_BUDGET_EXCEEDED"
                                                            ELSE core.failure
  IN
  /\ At("finishRoleCleanup", r)
  /\ IF core.phase = "running"
       THEN Raise(core, "CPU_BUDGET_EXCEEDED")
       ELSE GoTo([core EXCEPT !.thrown = FALSE, !.failure = code], Tail(todo))
  /\ UNCHANGED <<dockerVars, barrierVars, helperVars, adapter, aborted, faults>>

\* Mutant: the run goes on after a failed cleanup.
RequireNothing ==
  /\ At("requireCleanup", "all")
  /\ GoTo(core, Tail(todo))
  /\ UNCHANGED <<dockerVars, barrierVars, helperVars, adapter, aborted, faults>>

RequireCleanup ==
  /\ At("requireCleanup", "all")
  /\ IF core.sticky THEN Raise(core, "LIFECYCLE_OPERATION_FAILED")
                    ELSE GoTo(core, Tail(todo))
  /\ UNCHANGED <<dockerVars, barrierVars, helperVars, adapter, aborted, faults>>

(***************************************************************************)
(* The controller                                                          *)
(***************************************************************************)
\* Stop the helper (or, once everything is seen to be absent, terminate it),
\* remove the networks, destroy the barrier and the owner.  Each part is tried
\* even when an earlier one failed.
StopController ==
  LET mayTry == Live /\ \A r \in adapter.bound : r \in adapter.cgroup
      mayStop == mayTry /\ helper.session = "open" /\ AllRolesRemoved /\ ~barrier.destroyed
                 /\ \A x \in Networks : Removable(x)
  IN
  /\ At("stopController", "all")
  /\ \/ /\ mayStop /\ StopHelper /\ RemoveNetworks /\ DestroyBarrier
        /\ adapter' = [adapter EXCEPT !.stopped = TRUE]
        /\ CleanupReturns([core EXCEPT !.stopped = TRUE, !.record = core.phase = "running"])
     \/ /\ mayStop /\ UNCHANGED adapter /\ CleanupFaults
        /\ \/ StopHelper \/ StopHelperFails
        /\ RemoveNetworksFails /\ DestroyBarrierFails
     \/ /\ mayTry /\ ~mayStop /\ UNCHANGED adapter /\ CleanupRefused
        /\ IF helper.session = "open" THEN StopHelper ELSE StopHelperFails
        /\ RemoveNetworksFails /\ DestroyBarrierFails
     \/ \* the helper did not stop: it is terminated behind a cleanup receipt
        /\ mayTry /\ RemoveNetworks /\ DestroyBarrierFails /\ TerminateHelper
        /\ UNCHANGED adapter
        /\ IF mayStop THEN CleanupFaults ELSE CleanupRefused
     \/ /\ ~mayTry /\ UNCHANGED <<dockerVars, barrierVars, helperVars, adapter>>
        /\ CleanupRefused

\* A cleanup operation ran out of its time: once per run the controller is
\* terminated by force.  Every role and network is removed first, in order, and
\* only when all are seen to be absent is the helper terminated.
ForceTerminate ==
  LET order == RoleOrder \o NetworkRemovalOrder
      forced == [core EXCEPT !.forced = TRUE]
  IN
  /\ core.hung /\ ~core.forced
  /\ \/ /\ Live /\ RemoveUpTo(order, Len(order)) /\ TerminateHelper /\ DestroyBarrier
        /\ adapter' = [adapter EXCEPT !.receipt = Roles, !.stopped = TRUE]
        /\ core' = forced
     \/ /\ Live /\ \E k \in 0..Len(order) :
             /\ RemoveUpTo(order, k)
             /\ adapter' = [adapter EXCEPT !.receipt = @ \cup (Roles \cap ToSet(SubSeq(order, 1, k)))]
        /\ UNCHANGED <<barrierVars, helperVars>>
        /\ core' = [forced EXCEPT !.sticky = TRUE]
     \/ /\ Live /\ RemoveUpTo(order, Len(order)) /\ TerminateHelper /\ DestroyBarrierFails
        /\ adapter' = [adapter EXCEPT !.receipt = Roles]
        /\ core' = [forced EXCEPT !.sticky = TRUE]
  /\ UNCHANGED <<todo, aborted, faults>>

\* Then the operation that ran out of time settles, as a failure.
SettleAfterForce ==
  /\ core.hung /\ core.forced
  /\ Sticks([core EXCEPT !.hung = FALSE])
  /\ UNCHANGED <<dockerVars, barrierVars, helperVars, adapter, aborted, faults>>

\* Or it does not: the run throws and returns no result.
Unsettled ==
  /\ core.hung /\ core.forced
  /\ core' = [core EXCEPT !.hung = FALSE, !.phase = "done", !.result = "FATAL"]
  /\ todo' = <<>>
  /\ UNCHANGED <<dockerVars, barrierVars, helperVars, adapter, aborted, faults>>

Return ==
  /\ At("return", "all")
  /\ IF core.phase = "running" /\ (core.sticky \/ ~core.stopped)
       THEN Raise(core, "LIFECYCLE_OPERATION_FAILED")
       ELSE /\ core' = [core EXCEPT !.phase = "done",
                          !.result = IF core.phase = "running" THEN "COMPLETED" ELSE "FAILED"]
            /\ todo' = <<>>
  /\ UNCHANGED <<dockerVars, barrierVars, helperVars, adapter, aborted, faults>>

(***************************************************************************)
(* The environment and the specification                                   *)
(***************************************************************************)
Abort ==
  /\ ~aborted /\ core.phase = "running"  \* the cleanup does not read the signal
  /\ aborted' = TRUE
  /\ UNCHANGED <<dockerVars, barrierVars, helperVars, adapter, core, todo, faults>>

Containers ==
  \/ /\ \E r \in Roles : RoleReportsHeld(r) \/ RoleExecutes(r) \/ RoleExits(r)
     /\ UNCHANGED <<helperVars, adapter, coreVars>>
  \/ /\ Fault /\ \E r \in Roles : RoleFails(r)
     /\ UNCHANGED <<helperVars, adapter, core, todo, aborted>>
  \/ /\ \E r \in Roles : RoleUsesCpu(r)
     /\ UNCHANGED <<dockerVars, barrierVars, adapter, coreVars>>
  \/ /\ \E x \in Resources : DaemonCreates(x)
     /\ UNCHANGED <<barrierVars, helperVars, adapter, coreVars>>

CoreStep ==
  \/ CreateOwnedContainers
  \/ \E r \in Roles :
       \/ StartRoleHeld(r) \/ WaitRoleBarrierHeld(r) \/ BindRoleIdentityAndCgroup(r)
       \/ ReadRoleBaseline(r) \/ ReleaseRoleBarrier(r)
       \/ ObserveUntilRoleExit(r) \/ SampleRole(r) \/ ExecutionObserved(r)
       \/ StopOrContainRole(r) \/ ReadQuiescentSample(r) \/ ReleaseRoleDocker(r)
       \/ ReleaseRoleCgroup(r) \/ FinishRoleCleanup(r)
  \/ RequireCleanup \/ StopController \/ ForceTerminate \/ SettleAfterForce \/ Unsettled
  \/ RaisesWhenAborted \/ Return

Done == core.phase = "done" /\ UNCHANGED vars

Next == CoreStep \/ Containers \/ Abort \/ Done

\* Every operation of the core settles: Docker commands, helper requests and the
\* hold of a barrier have time limits, and so has each cleanup operation.
Spec == Init /\ [][Next]_vars /\ WF_vars(CoreStep)

(***************************************************************************)
(* Properties                                                              *)
(***************************************************************************)
\* No role executes before its cgroup is bound and its baseline is in the core:
\* all the CPU it uses is in what the run is billed for.
AccountedExecution ==
  \A r \in Roles :
    box[r] = "executing" =>
      /\ r \in core.started /\ helper.status[r] \notin {"NONE", "RELEASED"}
      /\ core.baseline[r] = helper.baseline[r]

\* The verifier runs alone: the worker and the egress proxy, whose networks and
\* credentials it must not share, are gone and released before it starts.
VerifierAlone ==
  Running("verifier") =>
    \A r \in {"worker", "egress"} : box[r] = "absent" /\ helper.status[r] = "RELEASED"

\* The helper lets go of a cgroup, and is terminated, only when the daemon holds
\* no container of it and cannot create one any more.
ReleasedOnlyWhenAbsent ==
  /\ \A r \in Roles : helper.status[r] = "RELEASED" => box[r] = "absent" /\ r \notin late
  /\ helper.session = "terminated" => late = {} /\ \A x \in Resources : box[x] = "absent"

\* What a result says is true.  A completed run, and a failed one that reports no
\* cleanup failure, leave nothing behind and nothing still to arrive, with the
\* helper stopped and the barrier gone; a completed run counted every unit of CPU
\* its roles used, within the budget.
ResultIsTrue ==
  /\ (core.result = "COMPLETED" \/ (core.result = "FAILED" /\ ~core.sticky)) =>
       /\ late = {} /\ \A x \in Resources : box[x] = "absent"
       /\ helper.session = "stopped" /\ BoundRoles = {} /\ barrier.destroyed
  /\ core.result = "COMPLETED" =>
       /\ CumulativeCpu(cpu) <= Budget
       /\ \A r \in Roles : core.latest[r] = cpu[r] /\ core.baseline[r] = helper.baseline[r]

\* What is left to do: the phases, the operations, and of an operation that does
\* not come back whether the controller has been terminated by force.
Left ==
  LET phase == CASE core.phase = "running" -> 2 [] core.phase = "terminal" -> 1 [] OTHER -> 0
      operation == IF ~core.hung THEN 2 ELSE IF ~core.forced THEN 1 ELSE 0
      longest == 3 * (Len(SuccessProgram) + Len(TerminalProgram))
  IN longest * phase + 3 * Len(todo) + operation

\* Once the execution signal is aborted the run ends: until it is done the core
\* can take a step, and every step it takes leaves less to do.
AbortEnds ==
  /\ [](aborted /\ core.phase # "done" => ENABLED CoreStep)
  /\ [][aborted /\ <<core, todo>>' # <<core, todo>> => Left' < Left]_vars
=============================================================================
