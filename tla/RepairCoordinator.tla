------------------------- MODULE RepairCoordinator -------------------------
(***************************************************************************)
(* RepairRunCoordinator, src/repair-runs/coordinator.ts, over the promise  *)
(* of the ledger (RepairRunLifecycle): one asynchronous #execute per run   *)
(* that races the execution port, the wall-time limit and the heartbeat,   *)
(* and its catch block; several processes that may die; and the external   *)
(* work itself, which neither of them can see.                             *)
(*                                                                         *)
(* exec[r] is what the coordinator holds in memory for run r: pc says      *)
(* which repository call or await comes next.  Each repository call is a   *)
(* step of its own, because other processes reach the ledger in between.   *)
(* Timers run only while #execute waits.  Every call may be refused: the   *)
(* lease may be fenced or expired, a clock may have moved back, and the    *)
(* file may be locked or full.                                             *)
(***************************************************************************)
EXTENDS RepairRunLifecycle, FiniteSets

VARIABLES
  exec,   \* the coordinator's execution of each run
  work    \* external work for each run: "NONE", "BUSY" or "CLEAN"

vars == <<status, recorded, holder, exec, work>>

PC == {"NONE", "ADMITTED", "RACING", "SUCCEEDING", "CATCHING", "CLOSING",
       "SETTLING", "POISONING", "DONE"}
Port == {"NONE", "BEGIN", "READY", "CALLING", "RECORDING", "RESOLVED",
         "REJECTED"}
Race == {"OPEN", "RESOLVED", "REJECTED"}

\* "STORED" and "UNSTORED": the heartbeat failed and the fail-stop record was,
\* or could not be, written; "LOST": it failed for a reason that has none.
Beat == {"OFF", "ON", "LOST", "STORED", "UNSTORED"}
Execution == [process: Process \cup {None}, pc: PC, port: Port, race: Race,
              beat: Beat, aborted: BOOLEAN, evidence: BOOLEAN,
              verified: BOOLEAN]
FreshExecution(p, pc) ==
  [process |-> p, pc |-> pc, port |-> "NONE", race |-> "OPEN", beat |-> "OFF",
   aborted |-> FALSE, evidence |-> FALSE, verified |-> FALSE]

CoordinatorTypeOK ==
  /\ LifecycleTypeOK
  /\ exec \in [RunId -> Execution]
  /\ work \in [RunId -> {"NONE", "BUSY", "CLEAN"}]

Init ==
  /\ LifecycleInit
  /\ exec = [r \in RunId |-> FreshExecution(None, "NONE")]
  /\ work = [r \in RunId |-> "NONE"]

Waiting(r) == exec[r].pc \in {"RACING", "SETTLING"}
Goto(r, pc) == exec' = [exec EXCEPT ![r].pc = pc]

\* #execute begins: the heartbeat is set and the port called.
Racing(e) == [e EXCEPT !.pc = "RACING", !.port = "BEGIN", !.beat = "ON"]

ReturnedBeating(e) == [e EXCEPT !.pc = "DONE"]                   \* mutant
\* finally: the timers stop.
Returned(e) == [e EXCEPT !.pc = "DONE", !.beat = IF @ = "ON" THEN "OFF" ELSE @]
Finish(r) == exec' = [exec EXCEPT ![r] = Returned(@)]

\* The port's promise settles, and the race with it if it was still open.
PortSettles(e, outcome) ==
  [e EXCEPT !.port = outcome,
            !.race = IF e.pc = "RACING" /\ @ = "OPEN" THEN outcome ELSE @]

\* The port has the worker's authenticated settlement.  After an abort, which
\* has decided the race, it returns it at once; otherwise it records the phases
\* first.
PortHasEvidence(e) ==
  [e EXCEPT !.evidence = TRUE,
            !.port = IF e.aborted THEN "RESOLVED" ELSE "RECORDING"]

RejectedWithoutAbort(e) ==                                       \* mutant
  [e EXCEPT !.race = IF @ = "OPEN" THEN "REJECTED" ELSE @]
\* controller.abort and the rejection that follows it.  The abort may find the
\* race already resolved, by a port that settles from its abort listener.
Aborted(e) ==
  [e EXCEPT !.aborted = TRUE, !.race = IF @ = "OPEN" THEN "REJECTED" ELSE @]

-----------------------------------------------------------------------------
(* start                                                                   *)

\* createOrGetRun answered with a new run and its lease.
Create(p, r) ==
  /\ exec[r].pc = "NONE"
  /\ Admit(p, r)
  /\ exec' = [exec EXCEPT ![r] = FreshExecution(p, "ADMITTED")]
  /\ UNCHANGED work

MarkBlocked(r) ==
  /\ exec[r].pc = "ADMITTED"
  /\ Block(exec[r].process, r)
  /\ Finish(r)
  /\ UNCHANGED work

MarkRunning(r) ==
  /\ exec[r].pc = "ADMITTED"
  /\ Start(exec[r].process, r)
  /\ exec' = [exec EXCEPT ![r] = Racing(@)]
  /\ UNCHANGED work

\* The call throws and start with it; the run stays as it is.
StartRefused(r) ==
  /\ exec[r].pc = "ADMITTED"
  /\ Finish(r)
  /\ UNCHANGED <<lifecycleVars, work>>

-----------------------------------------------------------------------------
(* The execution port and onProgress                                       *)

\* onProgress throws once the controller is aborted; otherwise the event is
\* recorded, unless the repository refuses it.  The port's next await follows.
ProgressRecorded(r, next) ==
  /\ ~exec[r].aborted
  /\ Record(exec[r].process, r)
  /\ exec' = [exec EXCEPT ![r] = next]
  /\ UNCHANGED work
ProgressRefused(r) ==
  /\ exec' = [exec EXCEPT ![r] = PortSettles(@, "REJECTED")]
  /\ UNCHANGED <<lifecycleVars, work>>

PortMayRun(r) == Waiting(r) \/ exec[r].pc = "DONE"

AnnounceWork(r) ==
  /\ PortMayRun(r)
  /\ exec[r].port = "BEGIN"
  /\ \/ ProgressRecorded(r, [exec[r] EXCEPT !.port = "READY"])
     \/ ProgressRefused(r)

\* The worker request leaves the process.
CallWorker(r) ==
  /\ PortMayRun(r)
  /\ exec[r].port = "READY"
  /\ exec' = [exec EXCEPT ![r].port = "CALLING"]
  /\ work' = [work EXCEPT ![r] = "BUSY"]
  /\ UNCHANGED lifecycleVars

\* An authenticated settlement says that the worker was torn down.
WorkerSettles(r) ==
  /\ PortMayRun(r)
  /\ exec[r].port = "CALLING"
  /\ work' = [work EXCEPT ![r] = "CLEAN"]
  /\ exec' = [exec EXCEPT ![r] = PortHasEvidence(@)]
  /\ UNCHANGED lifecycleVars

\* A lost transport, a rejected response, or an object that only looks like a
\* settlement: the worker may still run.
CallEndsWithoutEvidence(r) ==
  /\ PortMayRun(r)
  /\ exec[r].port \in {"READY", "CALLING"}
  /\ \E outcome \in {"RESOLVED", "REJECTED"} :
       exec' = [exec EXCEPT ![r] = PortSettles(@, outcome)]
  /\ UNCHANGED <<lifecycleVars, work>>

RecordPhases(r) ==
  /\ PortMayRun(r)
  /\ exec[r].port = "RECORDING"
  /\ \/ ProgressRecorded(r, IF recorded[r] + 1 < PhaseEvents THEN exec[r]
                            ELSE PortSettles(exec[r], "RESOLVED"))
     \/ ProgressRefused(r)

\* The worker stops on its own; nobody is told.
WorkerStops(r) ==
  /\ work[r] = "BUSY"
  /\ work' = [work EXCEPT ![r] = "CLEAN"]
  /\ UNCHANGED <<lifecycleVars, exec>>

-----------------------------------------------------------------------------
(* Timers                                                                  *)

TimeoutBeforeCall(r) ==                                          \* mutant
  /\ exec[r].pc = "RACING"
  /\ exec[r].port = "BEGIN"
  /\ exec' = [exec EXCEPT ![r] = Aborted(@)]
  /\ UNCHANGED <<lifecycleVars, work>>
Timeout(r) ==
  /\ exec[r].pc = "RACING"
  /\ ~exec[r].aborted
  /\ exec' = [exec EXCEPT ![r] = Aborted(@)]
  /\ UNCHANGED <<lifecycleVars, work>>

\* A heartbeat that fails stops the timer.  When the lease is gone or the clock
\* moved back, failStopAfterExecutorHeartbeatFailure closes the run.
HeartbeatLost(r, beat) ==
  /\ Waiting(r)
  /\ exec[r].beat = "ON"
  /\ exec' = [exec EXCEPT ![r] = [Aborted(@) EXCEPT !.beat = beat]]
  /\ UNCHANGED work
HeartbeatFailStop(r) ==
  /\ HeartbeatLost(r, "STORED")
  /\ IF status[r] \in Open THEN Fence(r) ELSE UNCHANGED lifecycleVars
HeartbeatFails(r) ==
  /\ \E beat \in {"LOST", "UNSTORED"} : HeartbeatLost(r, beat)
  /\ UNCHANGED lifecycleVars

-----------------------------------------------------------------------------
(* After the race                                                          *)

ClaimedByAnyObject(e, bound, complete) ==                        \* mutant
  [e EXCEPT !.verified = TRUE,
            !.pc = IF ~e.aborted /\ complete THEN "SUCCEEDING" ELSE "CATCHING"]
\* claimRepairRunSettlement and assertVerifiedSettlementBinding: the object is
\* authentic and bound to the run, or the catch block gets no verified
\* settlement.  Even a verified one goes to the catch block after an abort, or
\* when its corpus is not complete.
\* A settlement is claimed once: it is not evidence a second time.
Claimed(e, bound, complete) ==
  LET verified == bound /\ e.evidence IN
  [e EXCEPT !.verified = verified, !.evidence = FALSE,
            !.pc = IF verified /\ ~e.aborted /\ complete
                     THEN "SUCCEEDING" ELSE "CATCHING"]
RaceWon(r) ==
  /\ exec[r].pc = "RACING"
  /\ exec[r].race = "RESOLVED"
  /\ \E bound \in BOOLEAN, complete \in BOOLEAN :
       exec' = [exec EXCEPT ![r] = Claimed(@, bound, complete)]
  /\ UNCHANGED <<lifecycleVars, work>>

RaceLost(r) ==
  /\ exec[r].pc = "RACING"
  /\ exec[r].race = "REJECTED"
  /\ Goto(r, "CATCHING")
  /\ UNCHANGED <<lifecycleVars, work>>

MarkSucceeded(r) ==
  /\ exec[r].pc = "SUCCEEDING"
  /\ \/ Succeed(exec[r].process, r) /\ Finish(r)
     \/ Goto(r, "CATCHING") /\ UNCHANGED lifecycleVars
  /\ UNCHANGED work

\* The catch block leaves the run alone when the heartbeat has dealt with it.
HeartbeatDealtWithRun(r) ==
  /\ exec[r].pc = "CATCHING"
  /\ exec[r].beat \in {"STORED", "UNSTORED"}
  /\ Finish(r)
  /\ UNCHANGED <<lifecycleVars, work>>

MayCatch(r) ==
  exec[r].pc = "CATCHING" /\ exec[r].beat \notin {"STORED", "UNSTORED"}

MarkCleanupPending(r) ==
  /\ MayCatch(r)
  /\ exec[r].aborted
  /\ AwaitCleanup(exec[r].process, r)
  /\ Goto(r, IF exec[r].verified THEN "CLOSING" ELSE "SETTLING")
  /\ UNCHANGED work

FailsWithoutSettlement(r) ==                                     \* mutant
  \/ exec[r].pc = "CLOSING"
  \/ MayCatch(r) /\ ~exec[r].aborted

\* markFailedAfterVerifiedSettlement, after an abort or a rejected result.
FailsWithSettlement(r) ==
  \/ exec[r].pc = "CLOSING"
  \/ MayCatch(r) /\ ~exec[r].aborted /\ exec[r].verified
MarkFailedAfterVerifiedSettlement(r) ==
  /\ FailsWithSettlement(r)
  /\ Fail(exec[r].process, r)
  /\ Finish(r)
  /\ UNCHANGED work

\* The interrupted port settles after all, or the settlement timer fires.
SettlementArrives(r) ==
  /\ exec[r].pc = "SETTLING"
  /\ exec[r].port = "RESOLVED"
  /\ \/ exec[r].evidence /\ Fail(exec[r].process, r) /\ Finish(r)
     \/ Goto(r, "POISONING") /\ UNCHANGED lifecycleVars
  /\ UNCHANGED work
NoSettlement(r) ==
  /\ exec[r].pc = "SETTLING"
  /\ exec[r].port # "RESOLVED"
  /\ Goto(r, "POISONING")
  /\ UNCHANGED <<lifecycleVars, work>>

PoisonsRun(r) ==
  \/ exec[r].pc = "POISONING"
  \/ MayCatch(r) /\ ~exec[r].aborted /\ ~exec[r].verified
MarkPoisoned(r) ==
  /\ PoisonsRun(r)
  /\ Poison(exec[r].process, r)
  /\ Finish(r)
  /\ UNCHANGED work

\* The last call of the catch block is refused: the run stays open.
CatchRefused(r) ==
  /\ \/ PoisonsRun(r) \/ FailsWithSettlement(r)
     \/ MayCatch(r) /\ exec[r].aborted
  /\ Finish(r)
  /\ UNCHANGED <<lifecycleVars, work>>

-----------------------------------------------------------------------------
(* The rest of the system                                                  *)

\* reconcileExpiredExecutorLease, called by the GET, POST and event-stream
\* handlers of any process.  Without a heartbeat the lease does expire; with
\* one it may, when the process is slow.
ExpireLease(r) ==
  /\ exec[r].beat # "ON"
  /\ Fence(r)
  /\ UNCHANGED <<exec, work>>
ExpireLeaseOfSlowProcess(r) ==
  /\ exec[r].beat = "ON"
  /\ Fence(r)
  /\ UNCHANGED <<exec, work>>

\* A process dies with what it had in memory.  The worker does not notice.
Crash(p) ==
  /\ exec' = [r \in RunId |-> IF exec[r].process # p THEN exec[r]
                              ELSE FreshExecution(None, "DONE")]
  /\ UNCHANGED <<lifecycleVars, work>>

CoordinatorStep(r) ==
  \/ MarkBlocked(r) \/ MarkRunning(r) \/ StartRefused(r)
  \/ RaceWon(r) \/ RaceLost(r) \/ MarkSucceeded(r)
  \/ HeartbeatDealtWithRun(r) \/ MarkCleanupPending(r)
  \/ MarkFailedAfterVerifiedSettlement(r) \/ SettlementArrives(r)
  \/ NoSettlement(r) \/ MarkPoisoned(r) \/ CatchRefused(r)

PortStep(r) ==
  \/ AnnounceWork(r) \/ CallWorker(r) \/ WorkerSettles(r)
  \/ CallEndsWithoutEvidence(r) \/ RecordPhases(r)

Next ==
  \/ \E p \in Process : Crash(p) \/ \E r \in RunId : Create(p, r)
  \/ \E r \in RunId :
       \/ CoordinatorStep(r) \/ PortStep(r) \/ WorkerStops(r)
       \/ Timeout(r) \/ HeartbeatFailStop(r) \/ HeartbeatFails(r)
       \/ ExpireLease(r) \/ ExpireLeaseOfSlowProcess(r)

Spec == Init /\ [][Next]_vars

\* Promise reactions and timers do run; the port and the worker need never
\* answer.  An expired lease is noticed because clients keep asking: nothing in
\* the server looks for it on its own.
Fairness ==
  \A r \in RunId : /\ WF_vars(CoordinatorStep(r))
                   /\ WF_vars(Timeout(r))
                   /\ WF_vars(ExpireLease(r))
FairSpec == Spec /\ Fairness

-----------------------------------------------------------------------------
(* Properties                                                              *)

\* While a worker may still be busy with a run, that run holds admission
\* closed.  A timeout, a lost lease, a late answer, a crash or a settlement
\* that is not authentic never opens it.
BusyWorkHoldsLatch ==
  \A r \in RunId : work[r] = "BUSY" => status[r] \in Running \cup {"POISONED"}

\* No two runs ever have work outside at the same time, in any process.
NoOverlappingWork ==
  \A r, q \in RunId : work[r] = "BUSY" /\ work[q] = "BUSY" => r = q

\* A success needs a worker that was torn down and all phases recorded by this
\* execution; and once a worker was asked, only its teardown lets a run fail.
ClosedRunsWereTornDown ==
  \A r \in RunId :
    /\ status[r] = "SUCCEEDED" => work[r] = "CLEAN"
    /\ status[r] \in {"FAILED", "BLOCKED"} => work[r] # "BUSY"

\* After #execute has returned, its port records nothing more: it is finished
\* or will find the controller aborted.
NoProgressAfterReturn ==
  \A r \in RunId : exec[r].pc = "DONE" /\ ~exec[r].aborted =>
                     exec[r].port \in {"NONE", "RESOLVED", "REJECTED"}

\* Every admitted run comes to a final status, whether its worker, its process
\* or its storage fails: none stays queued, running or awaiting cleanup.
AdmittedRunsEnd ==
  \A r \in RunId : (status[r] \in Open) ~> (status[r] \notin Open)

\* Every execution returns, and its heartbeat with it, even when the port never
\* settles: no lease is kept alive for an execution that has stopped.
ExecutionsReturn ==
  \A r \in RunId : (exec[r].pc = "RACING") ~> (exec[r].pc = "DONE")
=============================================================================
