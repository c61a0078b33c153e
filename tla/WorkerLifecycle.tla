--------------------------- MODULE WorkerLifecycle ---------------------------
(***************************************************************************)
(* execute() of the supervised worker lifecycle                            *)
(* (src/src/codex/worker-os-lifecycle.ts) over the Docker driver: one run  *)
(* at a time, each followed by a cleanup that must prove a complete        *)
(* teardown in its time, or the lifecycle is poisoned for good.            *)
(*                                                                         *)
(* life.step is a position in Program while the run goes on, in            *)
(* CleanupProgram afterwards.  Between two steps the containers run, late  *)
(* commands are applied and the execution signal may be aborted.           *)
(***************************************************************************)
EXTENDS SupervisorDocker

CONSTANTS
  MaxRuns,   \* bound: calls of execute that are admitted
  MaxFaults  \* bound: what fails of itself, over all runs

ASSUME BoundsAssumption == MaxRuns \in Nat \ {0} /\ MaxFaults \in Nat

VARIABLES
  life,     \* the latches of the lifecycle and the locals of execute
  aborted,  \* the execution signal: the caller's, or the wall-time limit
  faults,   \* how much has failed of itself
  runs,     \* how many calls were admitted
  gap       \* history: the worker of this run ran while the egress proxy did not

vars == <<driverVars, life, aborted, faults, runs, gap>>

(***************************************************************************)
(* The programs                                                            *)
(***************************************************************************)
Do(op, x) == <<[op |-> op, on |-> x]>>

RunContainer(r) == Do("start", r) \o Do("accountStart", r)
SealContainer(r) == Do("wait", r) \o Do("accountStop", r)

Prepare ==
  Do("prepareWorkspace", "repair") \o Do("beginSession", "all") \o Do("namesAbsent", "all")
    \o Do("create", "worker-network") \o Do("create", "outbound-network")
    \o Do("create", "egress") \o Do("connect", "egress") \o RunContainer("egress")
    \o Do("create", "worker")

\* Mutant: the proxy stays until the cleanup.
RunWorkerBesideProxy ==
  Do("observeRunning", "egress") \o RunContainer("worker") \o SealContainer("worker")
    \o Do("observeRunning", "egress") \o Do("remove", "worker")
    \o Do("observeRunning", "egress") \o Do("stop", "egress") \o SealContainer("egress")
    \o Do("checkOutput", "worker")

RunWorker ==
  Do("observeRunning", "egress") \o RunContainer("worker") \o SealContainer("worker")
    \o Do("observeRunning", "egress") \o Do("remove", "worker")
    \o Do("observeRunning", "egress") \o Do("stop", "egress") \o SealContainer("egress")
    \o Do("remove", "egress") \o Do("checkOutput", "worker")

RunVerifier ==
  Do("prepareWorkspace", "verification") \o Do("create", "verifier") \o RunContainer("verifier")
    \o SealContainer("verifier") \o Do("remove", "verifier") \o Do("checkOutput", "verifier")

Program ==
  Prepare \o RunWorker \o RunVerifier \o Do("finalize", "all") \o Do("validate", "all")

CleanupProgram ==
  Do("beginCleanup", "all") \o Do("cleanUp", "verifier") \o Do("cleanUp", "worker")
    \o Do("cleanUp", "egress") \o Do("cleanUp", "outbound-network")
    \o Do("cleanUp", "worker-network") \o Do("cleanWorkspace", "all")
    \o Do("observeProcesses", "all") \o Do("completeCleanup", "all") \o Do("assertCleanup", "all")

NewLife == [phase |-> "idle", poisoned |-> FALSE, step |-> 1, failed |-> FALSE,
            proved |-> TRUE, cpuStarted |-> FALSE, result |-> "none"]

Init ==
  /\ DriverInit
  /\ life = NewLife
  /\ aborted = FALSE /\ faults = 0 /\ runs = 0 /\ gap = FALSE

At(op, x) == life.phase = "running" /\ Program[life.step] = [op |-> op, on |-> x]
AtCleanup(op, x) == life.phase = "cleanup" /\ CleanupProgram[life.step] = [op |-> op, on |-> x]

Fault == faults < MaxFaults /\ faults' = faults + 1

\* A handle, a ledger and a signal of its own for every admitted call.  A second
\* call while one is active, and every call after poisoning, throws at once.
Execute ==
  /\ life.phase = "idle" /\ ~life.poisoned /\ runs < MaxRuns
  /\ life' = [NewLife EXCEPT !.phase = "running"]
  /\ runs' = runs + 1
  /\ aborted' = FALSE /\ gap' = FALSE
  /\ handle' = NewHandle /\ ledger' = NewLedger
  /\ UNCHANGED <<box, late, disk, stray, faults>>

(***************************************************************************)
(* The run: a step returns, throws of itself, or is refused                *)
(***************************************************************************)
ToCleanup(failed) ==
  life' = [life EXCEPT !.phase = "cleanup", !.step = 1, !.failed = failed]

Returns ==
  /\ ~aborted
  /\ IF life.step < Len(Program) THEN life' = [life EXCEPT !.step = @ + 1] ELSE ToCleanup(FALSE)
  /\ UNCHANGED <<aborted, faults, runs>>

\* It throws, or the signal is aborted while it is under way.
Throws ==
  /\ ~aborted /\ aborted' \in BOOLEAN
  /\ Fault /\ ToCleanup(TRUE)
  /\ UNCHANGED runs

Refused == ToCleanup(TRUE) /\ UNCHANGED <<aborted, faults, runs>>

PrepareWorkspace(w) ==
  /\ At("prepareWorkspace", w)
  /\ \/ disk' = disk \cup {w} /\ Returns
     \/ disk' \in {disk, disk \cup {w}} /\ Throws
     \/ aborted /\ UNCHANGED disk /\ Refused
  /\ UNCHANGED <<box, late, stray, handle, ledger>>

BeginCpuSession ==
  /\ At("beginSession", "all")
  /\ \/ BeginSession /\ Returns
     \/ UNCHANGED driverVars /\ Throws
     \/ Breached(UNCHANGED ledger, FALSE) /\ Throws
     \/ aborted /\ UNCHANGED driverVars /\ Refused

CreateResource(x) ==
  /\ At("create", x)
  /\ \/ Create(x) /\ Returns
     \/ CreateFails(x) /\ Throws
     \/ aborted /\ CreateRefused(x) /\ Refused

\* What the driver only looks at, and connections, which the model does not keep.
Check(op, x) ==
  /\ At(op, x)
  /\ \/ Returns \/ Throws
     \/ aborted /\ Refused
  /\ UNCHANGED driverVars

StartContainer(r) ==
  /\ At("start", r)
  /\ \/ Start(r) /\ Returns
     \/ StartFails(r) /\ Throws
     \/ aborted /\ UNCHANGED driverVars /\ Refused

AccountContainerStart(r) ==
  LET none == UNCHANGED ledger IN
  /\ At("accountStart", r)
  /\ \/ AccountStart(r) /\ Returns
     \/ (none \/ Poison \/ RoleStarted(r)) /\ UNCHANGED <<box, late, disk, stray, handle>> /\ Throws
     \/ Breached(none, RoleStarted(r)) /\ Throws
     \/ aborted /\ UNCHANGED driverVars /\ Refused

\* Mutant: the wait goes on although the signal is aborted.
WaitWhateverHappens(r) ==
  /\ At("wait", r)
  /\ \/ WaitAndReadLogs(r) /\ Returns
     \/ aborted /\ UNCHANGED <<driverVars, life, aborted, faults, runs>>

\* "docker wait" ends when the container exits, or when its time is up.
WaitForExit(r) ==
  /\ At("wait", r)
  /\ \/ WaitAndReadLogs(r) /\ Returns
     \/ UNCHANGED driverVars /\ Throws
     \/ aborted /\ UNCHANGED driverVars /\ Refused

AccountContainerStop(r) ==
  LET none == UNCHANGED ledger IN
  /\ At("accountStop", r)
  /\ \E used \in Usage :
       \/ AccountStop(r, used) /\ Returns
       \/ (none \/ RoleStopped(r, used)) /\ UNCHANGED <<box, late, disk, stray, handle>> /\ Throws
       \/ Breached(none, RoleStopped(r, used)) /\ Throws
       \/ ~aborted /\ ~MayFinishRole(r, used) /\ RoleStoppedThrows(r, used)
          /\ UNCHANGED <<box, late, disk, stray, handle>> /\ Refused
       \/ aborted /\ UNCHANGED driverVars /\ Refused

ObserveEgress ==
  /\ At("observeRunning", "egress")
  /\ \/ ObserveRunning("egress") /\ Returns
     \/ UNCHANGED driverVars /\ Throws
     \/ (aborted \/ box["egress"] # "running") /\ UNCHANGED driverVars /\ Refused

StopEgress ==
  /\ At("stop", "egress")
  /\ \/ Stop("egress") /\ Returns
     \/ StopFails("egress") /\ Throws
     \/ aborted /\ UNCHANGED driverVars /\ Refused

RemoveContainer(r) ==
  /\ At("remove", r)
  /\ \/ RemoveRole(r) /\ Returns
     \/ RemoveRoleFails(r) /\ Throws
     \/ aborted /\ UNCHANGED driverVars /\ Refused

FinalizeExecutionBudget ==
  /\ At("finalize", "all")
  /\ \/ FinalizeProof /\ Returns
     \/ (UNCHANGED ledger \/ Poison) /\ UNCHANGED <<box, late, disk, stray, handle>> /\ Throws
     \/ Breached(UNCHANGED ledger, Finalize) /\ Throws
     \/ aborted /\ UNCHANGED driverVars /\ Refused

\* The outputs are read only behind the last look at the signal.
ValidateOutputs ==
  /\ At("validate", "all")
  /\ \/ ToCleanup(FALSE) /\ UNCHANGED faults
     \/ ToCleanup(TRUE) /\ Fault
  /\ UNCHANGED <<driverVars, aborted, runs>>

(***************************************************************************)
(* The cleanup: every step is tried whatever the others did                *)
(***************************************************************************)
Continues(l) == life' = [l EXCEPT !.step = @ + 1]
Proves == Continues(life) /\ UNCHANGED faults
Disproves == Continues([life EXCEPT !.proved = FALSE]) /\ UNCHANGED faults
CleanupFaults == Continues([life EXCEPT !.proved = FALSE]) /\ Fault

\* Without a session there is nothing to begin, and nothing to complete unless
\* the call for one was given up.
BeginCpuCleanup ==
  LET started == [life EXCEPT !.cpuStarted = TRUE] IN
  /\ AtCleanup("beginCleanup", "all")
  /\ \/ /\ handle.session /\ BeginCleanup /\ Continues(started)
        /\ UNCHANGED <<box, late, disk, stray, handle, faults>>
     \/ /\ handle.session /\ (BeginCleanup \/ UNCHANGED ledger) /\ Continues(life) /\ Fault
        /\ UNCHANGED <<box, late, disk, stray, handle>>
     \/ handle.session /\ Breached(UNCHANGED ledger, BeginCleanup) /\ Continues(life) /\ Fault
     \/ ~handle.session /\ Continues(life) /\ UNCHANGED <<driverVars, faults>>
  /\ UNCHANGED <<aborted, runs>>

CleanUpResource(x) ==
  /\ AtCleanup("cleanUp", x)
  /\ \/ CleanUp(x) /\ Proves
     \/ CleanUpFails(x) /\ (IF InUse(x) THEN Disproves ELSE CleanupFaults)
     \/ x \in handle.ambiguous /\ UNCHANGED driverVars /\ Disproves
     \/ x \notin handle.ambiguous \cup handle.owned /\ UNCHANGED driverVars /\ Proves
  /\ UNCHANGED <<aborted, runs>>

CleanWorkspace ==
  /\ AtCleanup("cleanWorkspace", "all")
  /\ \/ disk' = {} /\ Proves
     \/ disk' \in SUBSET disk /\ CleanupFaults
  /\ UNCHANGED <<box, late, stray, handle, ledger, aborted, runs>>

\* The processes of the containers that were seen running.
ObserveProcesses ==
  /\ AtCleanup("observeProcesses", "all")
  /\ \/ Proves
     \/ handle.observed # {} /\ CleanupFaults
  /\ UNCHANGED <<driverVars, aborted, runs>>

\* The controller has stopped: nothing of it is left to change the ledger.
CpuControllerStopped ==
  ~handle.breached /\ (IF handle.session THEN life.cpuStarted ELSE TRUE)

CompleteCpuCleanup ==
  /\ AtCleanup("completeCleanup", "all")
  /\ \/ /\ handle.session /\ life.cpuStarted
        /\ \/ CompleteCleanup /\ UNCHANGED <<box, late, disk, stray, handle>>
              /\ (IF CpuControllerStopped THEN Proves ELSE Disproves)
           \/ (CompleteCleanup \/ UNCHANGED ledger)
              /\ UNCHANGED <<box, late, disk, stray, handle>> /\ CleanupFaults
           \/ Breached(UNCHANGED ledger, CompleteCleanup) /\ CleanupFaults
     \/ /\ ~(handle.session /\ life.cpuStarted) /\ UNCHANGED driverVars
        /\ IF CpuControllerStopped THEN Proves ELSE Disproves
  /\ UNCHANGED <<aborted, runs>>

Finish(result, poisoned) ==
  life' = [NewLife EXCEPT !.result = result, !.poisoned = poisoned]

AssertCleanup ==
  /\ AtCleanup("assertCleanup", "all")
  /\ IF ~life.proved THEN Finish("POISONED", TRUE)
     ELSE Finish(IF life.failed THEN "FAILED" ELSE "COMPLETED", FALSE)
  /\ UNCHANGED <<driverVars, aborted, faults, runs>>

\* The cleanup is out of time: its signal is aborted, the command under way may
\* still be applied and no further one runs.
CleanupTimesOut ==
  /\ life.phase = "cleanup" /\ Fault
  /\ Finish("POISONED", TRUE)
  /\ LET current == CleanupProgram[life.step] IN
     \/ UNCHANGED driverVars
     \/ current.op = "cleanUp" /\ CleanUpFails(current.on)
     \/ current.op = "cleanWorkspace" /\ disk' \in SUBSET disk
        /\ UNCHANGED <<box, late, stray, handle, ledger>>
  /\ UNCHANGED <<aborted, runs>>

(***************************************************************************)
(* The environment and the specification                                   *)
(***************************************************************************)
\* The caller aborts, or the wall time of the run is up.
Abort ==
  /\ life.phase = "running" /\ ~aborted
  /\ aborted' = TRUE
  /\ UNCHANGED <<driverVars, life, faults, runs, gap>>

ContainerExits(r) ==
  /\ box[r] = "running"
  /\ box' = [box EXCEPT ![r] = "exited"]
  /\ UNCHANGED <<late, disk, stray, handle, ledger, life, aborted, faults, runs>>

Daemon ==
  /\ \/ \E c \in late : DaemonApplies(c)
     \/ StraySettles
  /\ UNCHANGED <<life, aborted, faults, runs>>

\* History: the worker runs and the proxy does not.
ObserveGap == gap' = (gap \/ (box'["worker"] = "running" /\ box'["egress"] # "running"))

LifecycleOperation ==
  \/ \E w \in Workspaces : PrepareWorkspace(w)
  \/ BeginCpuSession \/ Check("namesAbsent", "all") \/ Check("connect", "egress")
  \/ \E x \in Resources : CreateResource(x) \/ CleanUpResource(x)
  \/ \E r \in Roles :
       \/ StartContainer(r) \/ AccountContainerStart(r) \/ WaitForExit(r)
       \/ AccountContainerStop(r) \/ RemoveContainer(r) \/ Check("checkOutput", r)
  \/ ObserveEgress \/ StopEgress \/ FinalizeExecutionBudget \/ ValidateOutputs
  \/ BeginCpuCleanup \/ CleanWorkspace \/ ObserveProcesses \/ CompleteCpuCleanup
  \/ AssertCleanup \/ CleanupTimesOut

LifecycleStep == LifecycleOperation /\ ObserveGap

Done ==
  /\ life.phase = "idle" /\ (life.poisoned \/ runs = MaxRuns)
  /\ UNCHANGED vars

Next ==
  \/ Execute \/ LifecycleStep \/ Abort
  \/ (Daemon \/ \E r \in Roles : ContainerExits(r)) /\ ObserveGap
  \/ Done

\* Docker commands and control calls have time limits of their own, and the
\* cleanup has one as a whole.  configure, prepare and reconstructVerification
\* have none: they must settle only once their signal is aborted.
MustSettle == aborted \/ \A w \in Workspaces : ~At("prepareWorkspace", w)

\* The timer of the wall time fires; nothing is assumed of the containers or of
\* the daemon.
Spec == Init /\ [][Next]_vars /\ WF_vars(MustSettle /\ LifecycleStep) /\ WF_vars(Abort)

(***************************************************************************)
(* Properties                                                              *)
(***************************************************************************)
\* What a call of execute leaves behind.  When the lifecycle may be used again,
\* nothing of the last run is there, nothing can still arrive and no CPU control
\* call is at work; a completed run has one proof of all three roles within the
\* budget, of containers it saw running and removed.
ReusedOnlyWhenClean ==
  life.phase = "idle" /\ ~life.poisoned =>
    /\ \A x \in Resources : box[x] = "absent"
    /\ late = {} /\ disk = {} /\ ~stray
    /\ life.result = "COMPLETED" =>
         /\ ledger.finalized /\ ledger.sealed = Roles /\ Aggregate(ledger.usage) <= Budget
         /\ handle.proof /\ handle.accounted = Roles /\ handle.removed = Roles

\* The verifier runs when the worker and the proxy with its secrets are gone,
\* and no run completes whose worker was ever without the proxy.
Isolated ==
  /\ box["verifier"] = "running" => box["worker"] = "absent" /\ box["egress"] = "absent"
  /\ life.result = "COMPLETED" => ~gap

\* Every admitted call of execute settles, whatever the containers do.
CallsSettle == life.phase = "running" ~> life.phase = "idle"
=============================================================================
