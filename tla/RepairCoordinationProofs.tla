----------------------- MODULE RepairCoordinationProofs -----------------------
(***************************************************************************)
(* Proofs about the two components that use the ledger through its promise *)
(* (RepairRunLifecycle) and share no other state: the coordinator, for any *)
(* processes and runs, and the retention of workspaces, for any processes, *)
(* workspaces and runs.                                                    *)
(*                                                                         *)
(* A busy worker holds admission closed because a run with a worker leaves *)
(* {RUNNING, CLEANUP_PENDING, POISONED} only on evidence of its teardown.  *)
(* So the inductive invariant follows the evidence: it exists only once    *)
(* the worker is CLEAN (EvidenceIsTeardown), never while the worker can    *)
(* still be called (CallsPrecedeEvidence), and the two program points that *)
(* close a run with it have it (ClosersHaveEvidence); while the worker can *)
(* be called or answers, the run holds the latch (CallsHoldLatch).         *)
(*                                                                         *)
(* No run is without its workspace because the policy file's writer lock   *)
(* makes two databases agree: at most one request is inside a policy       *)
(* transaction (OneWriter), and so what a request has established when its *)
(* transaction began, or when the ledger answered it, still holds at its   *)
(* later steps (RequestFits).                                              *)
(***************************************************************************)
EXTENDS RepairCoordinator, WorkspaceRetention, TLAPS

-----------------------------------------------------------------------------
(***************************************************************************)
(* The promise of the ledger                                               *)
(***************************************************************************)

\* At most one run is open or poisoned.
OneClosingRun ==
  \A r, q \in RunId : status[r] \in Closing /\ status[q] \in Closing => r = q

\* A step of the ledger keeps the types of the ledger.
LEMMA LifecycleStepTypes ==
  ASSUME LifecycleTypeOK, [LifecycleNext]_lifecycleVars
  PROVE  LifecycleTypeOK'
<1> USE DEF LifecycleTypeOK, RunStatus, Closing, Open, Running, Finished,
            PhaseEvents
<1>1. CASE UNCHANGED lifecycleVars
  BY <1>1 DEF lifecycleVars
<1>2. ASSUME NEW p \in Process, NEW r \in RunId,
             \/ Admit(p, r) \/ Start(p, r) \/ Record(p, r)
             \/ AwaitCleanup(p, r)
      PROVE  LifecycleTypeOK'
  BY <1>2 DEF Admit, Start, Record, AwaitCleanup, Move
<1>3. ASSUME NEW p \in Process, NEW r \in RunId,
             Succeed(p, r) \/ Block(p, r) \/ Fail(p, r) \/ Poison(p, r)
      PROVE  LifecycleTypeOK'
  BY <1>3 DEF Succeed, Block, Fail, Poison, Close, Move
<1>4. ASSUME NEW r \in RunId, Fence(r)
      PROVE  LifecycleTypeOK'
  BY <1>4 DEF Fence, FencedStatus, Move
<1>5. ASSUME NEW gone \in SUBSET RunId, Forget(gone)
      PROVE  LifecycleTypeOK'
  BY <1>5 DEF Forget
<1> QED
  BY <1>1, <1>2, <1>3, <1>4, <1>5 DEF LifecycleNext

\* A step of the ledger never brings a second run into the closing statuses:
\* only admission adds one, and it requires that there is none.
LEMMA LifecycleStepOneClosing ==
  ASSUME LifecycleTypeOK, OneClosingRun, [LifecycleNext]_lifecycleVars
  PROVE  OneClosingRun'
<1> USE DEF LifecycleTypeOK, OneClosingRun, Closing, Open, Running
<1>1. CASE UNCHANGED lifecycleVars
  BY <1>1 DEF lifecycleVars
<1>2. ASSUME NEW p \in Process, NEW r \in RunId, Admit(p, r)
      PROVE  OneClosingRun'
  BY <1>2 DEF Admit, AdmissionOpen, Move
<1>3. ASSUME NEW p \in Process, NEW r \in RunId,
             Start(p, r) \/ Record(p, r) \/ AwaitCleanup(p, r)
      PROVE  OneClosingRun'
  BY <1>3 DEF Start, Record, AwaitCleanup, Move
<1>4. ASSUME NEW p \in Process, NEW r \in RunId,
             Succeed(p, r) \/ Block(p, r) \/ Fail(p, r) \/ Poison(p, r)
      PROVE  OneClosingRun'
  BY <1>4 DEF Succeed, Block, Fail, Poison, Close, Move
<1>5. ASSUME NEW r \in RunId, Fence(r)
      PROVE  OneClosingRun'
  BY <1>5 DEF Fence, FencedStatus, Move
<1>6. ASSUME NEW gone \in SUBSET RunId, Forget(gone)
      PROVE  OneClosingRun'
  BY <1>6 DEF Forget
<1> QED
  BY <1>1, <1>2, <1>3, <1>4, <1>5, <1>6 DEF LifecycleNext

-----------------------------------------------------------------------------
(***************************************************************************)
(* The coordinator                                                         *)
(***************************************************************************)

Latched == Running \cup {"POISONED"}

CallsPrecedeEvidence(r) ==
  exec[r].port \in {"NONE", "BEGIN", "READY", "CALLING"} =>
    ~exec[r].evidence /\ ~exec[r].verified

EvidenceIsTeardown(r) ==
  exec[r].evidence \/ exec[r].verified => work[r] = "CLEAN"

ClosersHaveEvidence(r) ==
  exec[r].pc \in {"SUCCEEDING", "CLOSING"} => exec[r].verified

CallsHoldLatch(r) ==
  exec[r].port \in {"READY", "CALLING"} => status[r] \in Latched

BusyHoldsLatch(r) == work[r] = "BUSY" => status[r] \in Latched

SuccessWasTornDown(r) == status[r] = "SUCCEEDED" => work[r] = "CLEAN"

\* Whoever can still call the ledger is a process.
ExecutionHasProcess(r) ==
  \/ exec[r].process \in Process
  \/ exec[r].pc \in {"NONE", "DONE"} /\ exec[r].port = "NONE"

\* Before the race nothing runs in the port.
PortStartsWithRace(r) ==
  exec[r].pc \in {"NONE", "ADMITTED"} => exec[r].port = "NONE"

\* Without an abort, only the port's own settlement ends the race, and only
\* the end of the race leads past it.
RaceEndsWithPort(r) ==
  exec[r].race # "OPEN" /\ ~exec[r].aborted =>
    exec[r].port \in {"RESOLVED", "REJECTED"}
CodeAfterRace(r) ==
  exec[r].pc \notin {"NONE", "ADMITTED", "RACING"} /\ ~exec[r].aborted =>
    exec[r].port \in {"NONE", "RESOLVED", "REJECTED"}

RunInv(r) ==
  /\ CallsPrecedeEvidence(r)
  /\ EvidenceIsTeardown(r)
  /\ ClosersHaveEvidence(r)
  /\ CallsHoldLatch(r)
  /\ BusyHoldsLatch(r)
  /\ SuccessWasTornDown(r)
  /\ ExecutionHasProcess(r)
  /\ PortStartsWithRace(r)
  /\ RaceEndsWithPort(r)
  /\ CodeAfterRace(r)

CoordinatorInv == /\ CoordinatorTypeOK
        /\ OneClosingRun
        /\ \A r \in RunId : RunInv(r)

-----------------------------------------------------------------------------
(* What the helpers on executions return                                   *)

LEMMA ReturnedExecution ==
  ASSUME NEW e \in Execution
  PROVE  /\ Returned(e) \in Execution
         /\ Returned(e).pc = "DONE"
         /\ Returned(e).process = e.process /\ Returned(e).port = e.port
         /\ Returned(e).race = e.race /\ Returned(e).aborted = e.aborted
         /\ Returned(e).evidence = e.evidence
         /\ Returned(e).verified = e.verified
<1> DEFINE d == [e EXCEPT !.pc = "DONE"]
           beat == IF e.beat = "ON" THEN "OFF" ELSE e.beat
<1>1. Returned(e) = [d EXCEPT !.beat = beat]
  BY DEF Returned
<1>2. beat \in Beat
  BY DEF Execution, Beat
<1>3. d \in Execution /\ d.pc = "DONE" /\ d.port = e.port /\ d.race = e.race
      /\ d.process = e.process /\ d.aborted = e.aborted
      /\ d.evidence = e.evidence /\ d.verified = e.verified
  BY DEF Execution, PC
<1> HIDE DEF d, beat
<1> QED
  BY <1>1, <1>2, <1>3 DEF Execution

LEMMA AbortedExecution ==
  ASSUME NEW e \in Execution, NEW beat \in Beat
  PROVE  LET a == Aborted(e)
             b == [Aborted(e) EXCEPT !.beat = beat]
         IN /\ a \in Execution /\ b \in Execution
            /\ a.aborted /\ b.aborted
            /\ a.pc = e.pc /\ b.pc = e.pc
            /\ a.process = e.process /\ b.process = e.process
            /\ a.port = e.port /\ b.port = e.port
            /\ a.evidence = e.evidence /\ b.evidence = e.evidence
            /\ a.verified = e.verified /\ b.verified = e.verified
<1> DEFINE d == [e EXCEPT !.aborted = TRUE]
           race == IF e.race = "OPEN" THEN "REJECTED" ELSE e.race
<1>1. Aborted(e) = [d EXCEPT !.race = race]
  BY DEF Aborted
<1>2. race \in Race
  BY DEF Execution, Race
<1>3. d \in Execution /\ d.aborted /\ d.pc = e.pc /\ d.port = e.port
      /\ d.process = e.process /\ d.evidence = e.evidence
      /\ d.verified = e.verified
  BY DEF Execution
<1> HIDE DEF d, race
<1>4. /\ Aborted(e) \in Execution /\ Aborted(e).aborted
      /\ Aborted(e).pc = d.pc /\ Aborted(e).port = d.port
      /\ Aborted(e).process = d.process
      /\ Aborted(e).evidence = d.evidence /\ Aborted(e).verified = d.verified
  BY <1>1, <1>2, <1>3 DEF Execution
<1> DEFINE a == Aborted(e)
           b == [a EXCEPT !.beat = beat]
<1> HIDE DEF a
<1>5. a \in Execution /\ a.aborted
  BY <1>4 DEF a
<1>6. /\ b \in Execution /\ b.aborted /\ b.pc = a.pc /\ b.port = a.port
      /\ b.process = a.process
      /\ b.evidence = a.evidence /\ b.verified = a.verified
  BY <1>5 DEF Execution
<1> QED
  BY <1>3, <1>4, <1>6 DEF a

LEMMA PortSettlesExecution ==
  ASSUME NEW e \in Execution, NEW outcome \in {"RESOLVED", "REJECTED"}
  PROVE  LET s == PortSettles(e, outcome) IN
         /\ s \in Execution
         /\ s.port = outcome /\ s.pc = e.pc /\ s.process = e.process
         /\ s.aborted = e.aborted
         /\ s.evidence = e.evidence /\ s.verified = e.verified
<1> DEFINE d == [e EXCEPT !.port = outcome]
           race == IF e.pc = "RACING" /\ e.race = "OPEN" THEN outcome
                                                         ELSE e.race
<1>1. PortSettles(e, outcome) = [d EXCEPT !.race = race]
  BY DEF PortSettles
<1>2. race \in Race
  BY DEF Execution, Race
<1>3. d \in Execution /\ d.port = outcome /\ d.pc = e.pc
      /\ d.process = e.process /\ d.aborted = e.aborted
      /\ d.evidence = e.evidence /\ d.verified = e.verified
  BY DEF Execution, Port
<1> HIDE DEF d, race
<1> QED
  BY <1>1, <1>2, <1>3 DEF Execution

LEMMA RacingExecution ==
  ASSUME NEW e \in Execution
  PROVE  /\ Racing(e) \in Execution
         /\ Racing(e).pc = "RACING" /\ Racing(e).port = "BEGIN"
         /\ Racing(e).process = e.process /\ Racing(e).race = e.race
         /\ Racing(e).aborted = e.aborted /\ Racing(e).evidence = e.evidence
         /\ Racing(e).verified = e.verified
BY DEF Racing, Execution, PC, Port, Beat

LEMMA PortHasEvidenceExecution ==
  ASSUME NEW e \in Execution
  PROVE  LET s == PortHasEvidence(e) IN
         /\ s \in Execution
         /\ s.evidence /\ s.port \in {"RESOLVED", "RECORDING"}
         /\ e.aborted => s.port = "RESOLVED"
         /\ s.pc = e.pc /\ s.process = e.process /\ s.race = e.race
         /\ s.aborted = e.aborted /\ s.verified = e.verified
BY DEF PortHasEvidence, Execution, Port

LEMMA ClaimedExecution ==
  ASSUME NEW e \in Execution, NEW fits \in BOOLEAN, NEW complete \in BOOLEAN
  PROVE  LET c == Claimed(e, fits, complete) IN
         /\ c \in Execution
         /\ ~c.evidence
         /\ c.verified => e.evidence
         /\ c.pc \in {"SUCCEEDING", "CATCHING"}
         /\ c.pc = "SUCCEEDING" => c.verified /\ ~c.aborted
         /\ c.port = e.port /\ c.process = e.process /\ c.race = e.race
         /\ c.aborted = e.aborted
<1> DEFINE verified == fits /\ e.evidence
           pc == IF verified /\ ~e.aborted /\ complete
                   THEN "SUCCEEDING" ELSE "CATCHING"
           d == [e EXCEPT !.verified = verified, !.evidence = FALSE]
<1>1. Claimed(e, fits, complete) = [d EXCEPT !.pc = pc]
  BY DEF Claimed
<1>2. /\ verified \in BOOLEAN /\ pc \in PC /\ (verified => e.evidence)
      /\ pc \in {"SUCCEEDING", "CATCHING"}
      /\ (pc = "SUCCEEDING" => verified /\ ~e.aborted)
  BY DEF Execution, PC
<1> HIDE DEF verified, pc
<1>3. d \in Execution /\ d.verified = verified /\ ~d.evidence
      /\ d.port = e.port /\ d.process = e.process /\ d.race = e.race
      /\ d.aborted = e.aborted
  BY <1>2 DEF Execution
<1> HIDE DEF d
<1> QED
  BY <1>1, <1>2, <1>3 DEF Execution

LEMMA FreshIsExecution ==
  ASSUME NEW p \in Process \cup {None}, NEW pc \in PC
  PROVE  FreshExecution(p, pc) \in Execution
BY DEF FreshExecution, Execution, Port, Race, Beat

-----------------------------------------------------------------------------
(* What a step of the coordinator does to the ledger                       *)

\* Every step of the coordinator is a step the ledger allows, or leaves the
\* ledger alone; the process it acts for is the one that executes the run.
LEMMA CoordinatorStepOfLedger ==
  ASSUME CoordinatorInv, [Next]_vars
  PROVE  [LifecycleNext]_lifecycleVars
<1> USE DEF LifecycleNext
<1>1. CASE UNCHANGED vars
  BY <1>1 DEF vars, lifecycleVars
<1>2. ASSUME NEW p \in Process, NEW r \in RunId, Create(p, r)
      PROVE  LifecycleNext
  BY <1>2 DEF Create
<1>3. ASSUME NEW r \in RunId
      PROVE  /\ CoordinatorStep(r) => [LifecycleNext]_lifecycleVars
             /\ PortStep(r) => [LifecycleNext]_lifecycleVars
  <2>1. exec[r].pc \notin {"NONE", "DONE"} \/ exec[r].port # "NONE" =>
          exec[r].process \in Process
    BY DEF CoordinatorInv, RunInv, ExecutionHasProcess
  <2>2. CoordinatorStep(r) => [LifecycleNext]_lifecycleVars
    BY <2>1 DEF CoordinatorStep, MarkBlocked, MarkRunning, StartRefused,
         RaceWon, RaceLost, MarkSucceeded, HeartbeatDealtWithRun,
         MarkCleanupPending, MarkFailedAfterVerifiedSettlement,
         FailsWithSettlement, SettlementArrives, NoSettlement, MarkPoisoned,
         PoisonsRun, CatchRefused, MayCatch
  <2>3. PortStep(r) => [LifecycleNext]_lifecycleVars
    BY <2>1 DEF PortStep, AnnounceWork, CallWorker, WorkerSettles,
         CallEndsWithoutEvidence, RecordPhases, ProgressRecorded,
         ProgressRefused
  <2> QED
    BY <2>2, <2>3
<1>4. ASSUME NEW r \in RunId,
             \/ WorkerStops(r) \/ Timeout(r) \/ HeartbeatFailStop(r)
             \/ HeartbeatFails(r) \/ ExpireLease(r)
             \/ ExpireLeaseOfSlowProcess(r)
      PROVE  [LifecycleNext]_lifecycleVars
  BY <1>4 DEF WorkerStops, Timeout, HeartbeatFailStop, HeartbeatFails,
              ExpireLease, ExpireLeaseOfSlowProcess
<1>5. ASSUME NEW p \in Process, Crash(p)
      PROVE  [LifecycleNext]_lifecycleVars
  BY <1>5 DEF Crash
<1> QED
  BY <1>1, <1>2, <1>3, <1>4, <1>5 DEF Next

\* A step writes exec and work of one run, each with a value of its type.
LEMMA CoordinatorStepTypes ==
  ASSUME CoordinatorInv, [Next]_vars
  PROVE  CoordinatorTypeOK'
<1>1. LifecycleTypeOK'
  BY CoordinatorStepOfLedger, LifecycleStepTypes DEF CoordinatorInv, CoordinatorTypeOK
<1> USE DEF CoordinatorTypeOK, Execution, PC, Port, Race, Beat
<1>2. exec \in [RunId -> Execution] /\ work \in [RunId -> {"NONE", "BUSY", "CLEAN"}]
  BY DEF CoordinatorInv
<1> DEFINE Typed == /\ exec' \in [RunId -> Execution]
                    /\ work' \in [RunId -> {"NONE", "BUSY", "CLEAN"}]
<1>3. CASE UNCHANGED vars
  BY <1>1, <1>2, <1>3 DEF vars
<1>4. ASSUME NEW p \in Process, NEW r \in RunId, Create(p, r)
      PROVE  Typed
  BY <1>2, <1>4, FreshIsExecution DEF Create
<1>5. ASSUME NEW r \in RunId, CoordinatorStep(r)
      PROVE  Typed
  <2>1. CASE MarkRunning(r) \/ RaceWon(r)
    BY <1>2, <2>1, RacingExecution, ClaimedExecution DEF MarkRunning, RaceWon
  <2>3. CASE \/ MarkBlocked(r) \/ StartRefused(r) \/ RaceLost(r)
             \/ MarkSucceeded(r)
    BY <1>2, <2>3, ReturnedExecution DEF MarkBlocked, StartRefused, RaceLost,
         MarkSucceeded, Finish, Goto
  <2>2. CASE \/ HeartbeatDealtWithRun(r) \/ MarkCleanupPending(r)
             \/ MarkFailedAfterVerifiedSettlement(r) \/ SettlementArrives(r)
             \/ NoSettlement(r) \/ MarkPoisoned(r) \/ CatchRefused(r)
    BY <1>2, <2>2, ReturnedExecution DEF HeartbeatDealtWithRun,
         MarkCleanupPending, MarkFailedAfterVerifiedSettlement,
         SettlementArrives, NoSettlement, MarkPoisoned, CatchRefused, Finish,
         Goto
  <2> QED
    BY <1>5, <2>1, <2>2, <2>3 DEF CoordinatorStep
<1>6. ASSUME NEW r \in RunId, PortStep(r)
      PROVE  Typed
  <2>2. CASE WorkerSettles(r)
    BY <1>2, <2>2, PortHasEvidenceExecution DEF WorkerSettles
  <2>3. CASE AnnounceWork(r) \/ RecordPhases(r)
    BY <1>2, <2>3, PortSettlesExecution DEF AnnounceWork, RecordPhases,
         ProgressRecorded, ProgressRefused
  <2>4. CASE CallWorker(r) \/ CallEndsWithoutEvidence(r)
    BY <1>2, <2>4, PortSettlesExecution DEF CallWorker,
         CallEndsWithoutEvidence
  <2> QED
    BY <1>6, <2>2, <2>3, <2>4 DEF PortStep
<1>7. ASSUME NEW r \in RunId,
             \/ WorkerStops(r) \/ Timeout(r) \/ HeartbeatFailStop(r)
             \/ HeartbeatFails(r) \/ ExpireLease(r)
             \/ ExpireLeaseOfSlowProcess(r)
      PROVE  Typed
  <2>1. \A beat \in Beat : Aborted(exec[r]) \in Execution
                        /\ [Aborted(exec[r]) EXCEPT !.beat = beat] \in Execution
    <3> HIDE DEF Execution, Beat
    <3> QED
      BY <1>2, AbortedExecution
  <2>2. CASE WorkerStops(r) \/ ExpireLease(r) \/ ExpireLeaseOfSlowProcess(r)
    BY <1>2, <2>2 DEF WorkerStops, ExpireLease, ExpireLeaseOfSlowProcess
  <2>3. CASE Timeout(r)
    BY <1>2, <2>1, <2>3 DEF Timeout
  <2>4. CASE HeartbeatFailStop(r) \/ HeartbeatFails(r)
    BY <1>2, <2>1, <2>4 DEF HeartbeatFailStop, HeartbeatFails, HeartbeatLost
  <2> QED
    BY <1>7, <2>2, <2>3, <2>4
<1>8. ASSUME NEW p \in Process, Crash(p)
      PROVE  Typed
  BY <1>2, <1>8, FreshIsExecution DEF Crash
<1> QED
  BY <1>1, <1>3, <1>4, <1>5, <1>6, <1>7, <1>8 DEF Next

-----------------------------------------------------------------------------
(* The inductive invariant                                                 *)

LEMMA InitEstablishesIInv == Init => CoordinatorInv
<1> SUFFICES ASSUME Init PROVE CoordinatorInv
  OBVIOUS
<1>1. CoordinatorTypeOK
  BY FreshIsExecution DEF Init, LifecycleInit, CoordinatorTypeOK,
     LifecycleTypeOK, RunStatus, PhaseEvents, PC
<1>2. OneClosingRun
  BY DEF Init, LifecycleInit, OneClosingRun, Closing, Open, Running
<1>3. ASSUME NEW r \in RunId PROVE RunInv(r)
  BY <1>3 DEF Init, LifecycleInit, FreshExecution, RunInv,
     CallsPrecedeEvidence, EvidenceIsTeardown, ClosersHaveEvidence,
     CallsHoldLatch, BusyHoldsLatch, SuccessWasTornDown, ExecutionHasProcess,
     PortStartsWithRace, RaceEndsWithPort, CodeAfterRace
<1> QED
  BY <1>1, <1>2, <1>3 DEF CoordinatorInv

\* A step that leaves everything about a run alone keeps its invariant.
LEMMA OtherRuns ==
  ASSUME NEW q \in RunId, RunInv(q),
         exec'[q] = exec[q], work'[q] = work[q], status'[q] = status[q]
  PROVE  RunInv(q)'
BY DEF RunInv, CallsPrecedeEvidence, EvidenceIsTeardown, ClosersHaveEvidence,
   CallsHoldLatch, BusyHoldsLatch, SuccessWasTornDown, ExecutionHasProcess,
   PortStartsWithRace, RaceEndsWithPort, CodeAfterRace

\* Steps of #execute keep the invariant of the run they are about.  A run is
\* closed by its holder only with evidence, or by poisoning it.
LEMMA CoordinatorStepOfRun ==
  ASSUME CoordinatorInv, NEW r \in RunId, CoordinatorStep(r)
  PROVE  RunInv(r)'
<1>1. /\ exec \in [RunId -> Execution] /\ exec[r] \in Execution
      /\ work \in [RunId -> {"NONE", "BUSY", "CLEAN"}]
      /\ status \in [RunId -> RunStatus]
  BY DEF CoordinatorInv, CoordinatorTypeOK, LifecycleTypeOK
<1>2. RunInv(r)
  BY DEF CoordinatorInv
<1> USE DEF RunInv, CallsPrecedeEvidence, EvidenceIsTeardown,
            ClosersHaveEvidence, CallsHoldLatch, BusyHoldsLatch,
            SuccessWasTornDown, ExecutionHasProcess, PortStartsWithRace,
            RaceEndsWithPort, CodeAfterRace
<1> USE DEF Latched, Running, Move
<1>3. CASE MarkBlocked(r)
  BY <1>1, <1>2, <1>3, ReturnedExecution DEF MarkBlocked, Block, Close, Finish
<1>4. CASE MarkRunning(r)
  <2>1. exec'[r] = Racing(exec[r]) /\ exec[r].pc = "ADMITTED"
    BY <1>1, <1>4 DEF MarkRunning
  <2>2. work'[r] = work[r] /\ status'[r] = "RUNNING"
    BY <1>1, <1>4 DEF MarkRunning, Start
  <2> QED
    BY <1>1, <1>2, <2>1, <2>2, RacingExecution
<1>5. CASE StartRefused(r)
  BY <1>1, <1>2, <1>5, ReturnedExecution DEF StartRefused, Finish,
     lifecycleVars
<1>6. CASE RaceWon(r)
  BY <1>1, <1>2, <1>6, ClaimedExecution DEF RaceWon, lifecycleVars
<1>7. CASE RaceLost(r)
  BY <1>1, <1>2, <1>7 DEF RaceLost, Goto, lifecycleVars, Execution
<1>8. CASE MarkSucceeded(r)
  <2>1. CASE Succeed(exec[r].process, r) /\ Finish(r)
    BY <1>1, <1>2, <1>8, <2>1, ReturnedExecution DEF MarkSucceeded, Succeed,
       Close, Finish
  <2>2. CASE Goto(r, "CATCHING") /\ UNCHANGED lifecycleVars
    BY <1>1, <1>2, <1>8, <2>2 DEF MarkSucceeded, Goto, lifecycleVars,
       Execution
  <2> QED
    BY <1>8, <2>1, <2>2 DEF MarkSucceeded
<1>9. CASE HeartbeatDealtWithRun(r)
  BY <1>1, <1>2, <1>9, ReturnedExecution DEF HeartbeatDealtWithRun, Finish,
     lifecycleVars
<1>10. CASE MarkCleanupPending(r)
  BY <1>1, <1>2, <1>10 DEF MarkCleanupPending, MayCatch, AwaitCleanup, Goto,
     Execution
<1>11. CASE MarkFailedAfterVerifiedSettlement(r)
  BY <1>1, <1>2, <1>11, ReturnedExecution
     DEF MarkFailedAfterVerifiedSettlement, FailsWithSettlement, MayCatch,
         Fail, Close, Finish
<1>12. CASE SettlementArrives(r)
  <2>1. CASE exec[r].evidence /\ Fail(exec[r].process, r) /\ Finish(r)
    BY <1>1, <1>2, <1>12, <2>1, ReturnedExecution DEF SettlementArrives, Fail,
       Close, Finish
  <2>2. CASE Goto(r, "POISONING") /\ UNCHANGED lifecycleVars
    BY <1>1, <1>2, <1>12, <2>2 DEF SettlementArrives, Goto, lifecycleVars,
       Execution
  <2> QED
    BY <1>12, <2>1, <2>2 DEF SettlementArrives
<1>13. CASE NoSettlement(r)
  BY <1>1, <1>2, <1>13 DEF NoSettlement, Goto, lifecycleVars, Execution
<1>14. CASE MarkPoisoned(r)
  BY <1>1, <1>2, <1>14, ReturnedExecution DEF MarkPoisoned, PoisonsRun,
     MayCatch, Poison, Close, Finish
<1>15. CASE CatchRefused(r)
  BY <1>1, <1>2, <1>15, ReturnedExecution DEF CatchRefused, PoisonsRun,
     FailsWithSettlement, MayCatch, Finish, lifecycleVars
<1> QED
  BY <1>3, <1>4, <1>5, <1>6, <1>7, <1>8, <1>9, <1>10, <1>11, <1>12, <1>13,
     <1>14, <1>15 DEF CoordinatorStep

\* Steps of the port: evidence appears together with the teardown, and the
\* worker is called only after a progress event was recorded for a running run.
LEMMA PortStepOfRun ==
  ASSUME CoordinatorInv, NEW r \in RunId, PortStep(r)
  PROVE  RunInv(r)'
<1>1. /\ exec \in [RunId -> Execution] /\ exec[r] \in Execution
      /\ work \in [RunId -> {"NONE", "BUSY", "CLEAN"}]
      /\ status \in [RunId -> RunStatus]
  BY DEF CoordinatorInv, CoordinatorTypeOK, LifecycleTypeOK
<1>2. RunInv(r)
  BY DEF CoordinatorInv
<1> USE DEF RunInv, CallsPrecedeEvidence, EvidenceIsTeardown,
            ClosersHaveEvidence, CallsHoldLatch, BusyHoldsLatch,
            SuccessWasTornDown, ExecutionHasProcess, PortStartsWithRace,
            RaceEndsWithPort, CodeAfterRace
<1> USE DEF Latched, Running
<1>3. CASE AnnounceWork(r) \/ RecordPhases(r)
  <2>1. CASE ProgressRefused(r)
    BY <1>1, <1>2, <1>3, <2>1, PortSettlesExecution DEF ProgressRefused,
       lifecycleVars, AnnounceWork, RecordPhases
  <2>2. CASE ProgressRecorded(r, [exec[r] EXCEPT !.port = "READY"])
             /\ AnnounceWork(r)
    BY <1>1, <1>2, <2>2 DEF ProgressRecorded, Record, AnnounceWork, Execution
  <2>3. CASE ProgressRecorded(r, exec[r]) /\ RecordPhases(r)
    BY <1>1, <1>2, <2>3 DEF ProgressRecorded, Record, RecordPhases
  <2>4. CASE ProgressRecorded(r, PortSettles(exec[r], "RESOLVED"))
             /\ RecordPhases(r)
    BY <1>1, <1>2, <2>4, PortSettlesExecution DEF ProgressRecorded, Record,
       RecordPhases
  <2> QED
    BY <1>3, <2>1, <2>2, <2>3, <2>4 DEF AnnounceWork, RecordPhases
<1>4. CASE CallWorker(r)
  BY <1>1, <1>2, <1>4 DEF CallWorker, lifecycleVars, Execution
<1>5. CASE WorkerSettles(r)
  BY <1>1, <1>2, <1>5, PortHasEvidenceExecution DEF WorkerSettles,
     lifecycleVars
<1>6. CASE CallEndsWithoutEvidence(r)
  BY <1>1, <1>2, <1>6, PortSettlesExecution DEF CallEndsWithoutEvidence,
     lifecycleVars
<1> QED
  BY <1>3, <1>4, <1>5, <1>6 DEF PortStep

\* Timers and fencing.  Fencing poisons what may have a worker.
LEMMA TimerStepOfRun ==
  ASSUME CoordinatorInv, NEW r \in RunId,
         \/ WorkerStops(r) \/ Timeout(r) \/ HeartbeatFailStop(r)
         \/ HeartbeatFails(r) \/ ExpireLease(r)
         \/ ExpireLeaseOfSlowProcess(r)
  PROVE  RunInv(r)'
<1>1. /\ exec \in [RunId -> Execution] /\ exec[r] \in Execution
      /\ work \in [RunId -> {"NONE", "BUSY", "CLEAN"}]
      /\ status \in [RunId -> RunStatus]
  BY DEF CoordinatorInv, CoordinatorTypeOK, LifecycleTypeOK
<1>2. RunInv(r)
  BY DEF CoordinatorInv
<1> USE DEF RunInv, CallsPrecedeEvidence, EvidenceIsTeardown,
            ClosersHaveEvidence, CallsHoldLatch, BusyHoldsLatch,
            SuccessWasTornDown, ExecutionHasProcess, PortStartsWithRace,
            RaceEndsWithPort, CodeAfterRace
<1> USE DEF Latched, Running
<1>3. CASE WorkerStops(r)
  BY <1>1, <1>2, <1>3 DEF WorkerStops, lifecycleVars
<1>4. CASE Timeout(r)
  BY <1>1, <1>2, <1>4, AbortedExecution DEF Timeout, lifecycleVars, Beat
<1>5. ASSUME NEW beat \in Beat, HeartbeatLost(r, beat)
      PROVE  /\ exec'[r].aborted /\ work'[r] = work[r]
             /\ exec'[r].pc = exec[r].pc /\ exec'[r].port = exec[r].port
             /\ exec'[r].process = exec[r].process
             /\ exec'[r].evidence = exec[r].evidence
             /\ exec'[r].verified = exec[r].verified
  BY <1>1, <1>5, AbortedExecution DEF HeartbeatLost
<1>6. Fence(r) => /\ status[r] \in Latched => status'[r] \in Latched
                  /\ status'[r] # "SUCCEEDED"
  BY <1>1 DEF Fence, FencedStatus, Move, Open
<1>7. CASE HeartbeatFailStop(r)
  BY <1>1, <1>2, <1>5, <1>6, <1>7 DEF HeartbeatFailStop, lifecycleVars, Beat
<1>8. CASE HeartbeatFails(r)
  BY <1>1, <1>2, <1>5, <1>8 DEF HeartbeatFails, lifecycleVars, Beat
<1>9. CASE ExpireLease(r) \/ ExpireLeaseOfSlowProcess(r)
  BY <1>1, <1>2, <1>6, <1>9 DEF ExpireLease, ExpireLeaseOfSlowProcess
<1> QED
  BY <1>3, <1>4, <1>7, <1>8, <1>9

LEMMA NextPreservesIInv ==
  ASSUME CoordinatorInv, [Next]_vars
  PROVE  CoordinatorInv'
<1>1. CoordinatorTypeOK'
  BY CoordinatorStepTypes
<1>2. OneClosingRun'
  BY CoordinatorStepOfLedger, LifecycleStepOneClosing
     DEF CoordinatorInv, CoordinatorTypeOK
<1>3. ASSUME NEW q \in RunId PROVE RunInv(q)'
  <2>1. /\ exec \in [RunId -> Execution]
        /\ work \in [RunId -> {"NONE", "BUSY", "CLEAN"}]
        /\ status \in [RunId -> RunStatus]
        /\ RunInv(q)
    BY DEF CoordinatorInv, CoordinatorTypeOK, LifecycleTypeOK
  <2>2. CASE UNCHANGED vars
    BY <2>1, <2>2, OtherRuns DEF vars
  <2>3. ASSUME NEW p \in Process, NEW r \in RunId, Create(p, r)
        PROVE  RunInv(q)'
    <3>1. CASE r = q
      BY <2>1, <2>3, <3>1 DEF Create, Admit, Move, FreshExecution, RunInv,
         CallsPrecedeEvidence, EvidenceIsTeardown, ClosersHaveEvidence,
         CallsHoldLatch, BusyHoldsLatch, SuccessWasTornDown,
         ExecutionHasProcess, PortStartsWithRace, RaceEndsWithPort,
         CodeAfterRace, Latched, Running
    <3>2. CASE r # q
      BY <2>1, <2>3, <3>2, OtherRuns DEF Create, Admit, Move
    <3> QED
      BY <3>1, <3>2
  <2>4. ASSUME NEW p \in Process, Crash(p)
        PROVE  RunInv(q)'
    BY <2>1, <2>4 DEF Crash, lifecycleVars, FreshExecution, RunInv,
       CallsPrecedeEvidence, EvidenceIsTeardown, ClosersHaveEvidence,
       CallsHoldLatch, BusyHoldsLatch, SuccessWasTornDown,
       ExecutionHasProcess, PortStartsWithRace, RaceEndsWithPort,
       CodeAfterRace
  <2>5. ASSUME NEW r \in RunId, CoordinatorStep(r), r # q
        PROVE  RunInv(q)'
    <3>1. exec'[q] = exec[q] /\ work'[q] = work[q] /\ status'[q] = status[q]
      BY <2>1, <2>5 DEF CoordinatorStep, MarkBlocked, MarkRunning,
         StartRefused, RaceWon, RaceLost, MarkSucceeded,
         HeartbeatDealtWithRun, MarkCleanupPending,
         MarkFailedAfterVerifiedSettlement, SettlementArrives, NoSettlement,
         MarkPoisoned, CatchRefused, Finish, Goto, Start, AwaitCleanup,
         Succeed, Block, Fail, Poison, Close, Move, lifecycleVars
    <3> QED
      BY <2>1, <3>1, OtherRuns
  <2>6. ASSUME NEW r \in RunId, PortStep(r), r # q
        PROVE  RunInv(q)'
    <3>1. exec'[q] = exec[q] /\ work'[q] = work[q] /\ status'[q] = status[q]
      BY <2>1, <2>6 DEF PortStep, AnnounceWork, CallWorker, WorkerSettles,
         CallEndsWithoutEvidence, RecordPhases, ProgressRecorded,
         ProgressRefused, Record, lifecycleVars
    <3> QED
      BY <2>1, <3>1, OtherRuns
  <2>7. ASSUME NEW r \in RunId, r # q,
               \/ WorkerStops(r) \/ Timeout(r) \/ HeartbeatFailStop(r)
               \/ HeartbeatFails(r) \/ ExpireLease(r)
               \/ ExpireLeaseOfSlowProcess(r)
        PROVE  RunInv(q)'
    <3>1. exec'[q] = exec[q] /\ work'[q] = work[q] /\ status'[q] = status[q]
      BY <2>1, <2>7 DEF WorkerStops, Timeout, HeartbeatFailStop,
         HeartbeatFails, HeartbeatLost, ExpireLease,
         ExpireLeaseOfSlowProcess, Fence, Move, lifecycleVars
    <3> QED
      BY <2>1, <3>1, OtherRuns
  <2> QED
    BY <2>2, <2>3, <2>4, <2>5, <2>6, <2>7, CoordinatorStepOfRun,
       PortStepOfRun, TimerStepOfRun DEF Next
<1> QED
  BY <1>1, <1>2, <1>3 DEF CoordinatorInv

-----------------------------------------------------------------------------
(* Theorems                                                                *)

LEMMA InvariantOfSpec == Spec => []CoordinatorInv
<1>1. Init => CoordinatorInv
  BY InitEstablishesIInv
<1>2. CoordinatorInv /\ [Next]_vars => CoordinatorInv'
  BY NextPreservesIInv
<1> QED
  BY <1>1, <1>2, PTL DEF Spec

\* The variables keep their types.
THEOREM CoordinatorTypeCorrect == Spec => []CoordinatorTypeOK
<1>1. CoordinatorInv => CoordinatorTypeOK
  BY DEF CoordinatorInv
<1> QED
  BY <1>1, InvariantOfSpec, PTL

\* Whatever times out, crashes, is fenced off or answers late: a run whose
\* worker may still be busy is running, awaits cleanup or is poisoned, so
\* admission is closed.
THEOREM BusyWorkAlwaysHoldsLatch == Spec => []BusyWorkHoldsLatch
<1>1. CoordinatorInv => BusyWorkHoldsLatch
  BY DEF CoordinatorInv, RunInv, BusyHoldsLatch, BusyWorkHoldsLatch, Latched
<1> QED
  BY <1>1, InvariantOfSpec, PTL

\* Two runs never have external work at the same time, in any two processes.
THEOREM WorkNeverOverlaps == Spec => []NoOverlappingWork
<1>1. CoordinatorInv => NoOverlappingWork
  BY DEF CoordinatorInv, RunInv, BusyHoldsLatch, NoOverlappingWork, OneClosingRun,
     Latched, Closing, Open
<1> QED
  BY <1>1, InvariantOfSpec, PTL

\* A run succeeds only after its worker was torn down, and no run fails or is
\* blocked while its worker may be busy.
THEOREM ClosedRunsAreTornDown == Spec => []ClosedRunsWereTornDown
<1>1. CoordinatorInv => ClosedRunsWereTornDown
  BY DEF CoordinatorInv, RunInv, BusyHoldsLatch, SuccessWasTornDown,
     ClosedRunsWereTornDown, Latched, Running
<1> QED
  BY <1>1, InvariantOfSpec, PTL

\* When #execute has returned, its port has settled or will find the
\* controller aborted: it records no more progress.
THEOREM NoProgressOnceReturned == Spec => []NoProgressAfterReturn
<1>1. CoordinatorInv => NoProgressAfterReturn
  BY DEF CoordinatorInv, RunInv, CodeAfterRace, NoProgressAfterReturn
<1> QED
  BY <1>1, InvariantOfSpec, PTL

\* The coordinators of all processes together, with their ports, timers and
\* crashes, do to the ledger only what the ledger promises to allow.
THEOREM CoordinatorUsesLedger == Spec => LifecycleSpec
<1>1. Init => LifecycleInit
  BY DEF Init
<1>2. CoordinatorInv /\ [Next]_vars => [LifecycleNext]_lifecycleVars
  BY CoordinatorStepOfLedger
<1> QED
  BY <1>1, <1>2, InvariantOfSpec, PTL DEF Spec, LifecycleSpec

-----------------------------------------------------------------------------
(***************************************************************************)
(* Workspaces and the runs about them                                      *)
(***************************************************************************)

OneWriter == \A p, q \in Process : ~Idle(p) /\ ~Idle(q) => p = q

\* What a request knows at each of its steps: the workspace is stored; before
\* the deletion no run is left; an admission is for the current version, and
\* the run it admitted is bound to it.
RequestFits(p) ==
  /\ request[p].step \in {"PRUNE", "DELETE"} => request[p].workspace \in Stored
  /\ request[p].step = "DELETE" =>
       \A r \in RunsOf(request[p].workspace) : status[r] = "ABSENT"
  /\ request[p].step \in {"ADMIT", "START"} =>
       /\ request[p].for.workspace \in Stored
       /\ request[p].for.version = current[request[p].for.workspace]
  /\ request[p].step = "START" => bound[request[p].run] = request[p].for

RetentionInv == /\ RetentionTypeOK
        /\ RunsHaveTheirWorkspace
        /\ OneWriter
        /\ \A p \in Process : RequestFits(p)

\* Every step of a request on the ledger is one the ledger's promise allows.
LEMMA RetentionStepOfLedger ==
  ASSUME RetentionTypeOK, [RetentionNext]_retentionVars
  PROVE  [LifecycleNext]_lifecycleVars
<1> USE DEF LifecycleNext
<1>1. ASSUME NEW p \in Process, NEW r \in RunId,
             AdmitRun(p, r) \/ Execute(p, r)
      PROVE  LifecycleNext
  BY <1>1 DEF AdmitRun, Execute
<1>2. ASSUME NEW p \in Process, StartRun(p)
      PROVE  LifecycleNext
  <2>1. request[p].run \in RunId
    BY <1>2 DEF StartRun, RetentionTypeOK, Request, NoRequest
  <2> QED BY <1>2, <2>1 DEF StartRun
<1>3. ASSUME NEW p \in Process, PruneRuns(p)
      PROVE  LifecycleNext
  <2>1. PICK gone \in SUBSET RunId : Forget(gone)
    BY <1>3 DEF PruneRuns, RunsOf
  <2> QED BY <2>1
<1>4. ASSUME NEW r \in RunId, Recover(r)
      PROVE  LifecycleNext
  BY <1>4 DEF Recover
<1>5. ASSUME NEW p \in Process, NEW w \in Workspace,
             \/ CreateWorkspace(p, w) \/ AppendVersion(p, w)
             \/ BeginRetirement(p, w) \/ BeginAdmission(p, w)
      PROVE  UNCHANGED lifecycleVars
  BY <1>5 DEF CreateWorkspace, AppendVersion, BeginRetirement, BeginAdmission
<1>6. ASSUME NEW p \in Process, DeleteWorkspace(p) \/ Abandon(p)
      PROVE  UNCHANGED lifecycleVars
  BY <1>6 DEF DeleteWorkspace, Abandon
<1> QED
  BY <1>1, <1>2, <1>3, <1>4, <1>5, <1>6 DEF RetentionNext, retentionVars

-----------------------------------------------------------------------------
(* One lemma for each part of the invariant                                *)

LEMMA StepKeepsTypes ==
  ASSUME RetentionInv, [RetentionNext]_retentionVars
  PROVE  RetentionTypeOK'
<1>1. LifecycleTypeOK'
  BY RetentionStepOfLedger, LifecycleStepTypes DEF RetentionInv, RetentionTypeOK
<1> USE <1>1 DEF RetentionInv, RetentionTypeOK, Request, NoRequest, Binding, Idle,
                 Continue, End, Stored
<1>2. CASE UNCHANGED retentionVars
  BY <1>2 DEF retentionVars
<1>3. ASSUME NEW p \in Process, NEW w \in Workspace,
             \/ CreateWorkspace(p, w) \/ AppendVersion(p, w)
             \/ BeginRetirement(p, w) \/ BeginAdmission(p, w)
      PROVE  RetentionTypeOK'
  BY <1>3 DEF CreateWorkspace, AppendVersion, BeginRetirement, BeginAdmission
<1>4. ASSUME NEW p \in Process, PruneRuns(p)
      PROVE  RetentionTypeOK'
  BY <1>4 DEF PruneRuns
<1>5. ASSUME NEW p \in Process, DeleteWorkspace(p)
      PROVE  RetentionTypeOK'
  BY <1>5 DEF DeleteWorkspace
<1>6. ASSUME NEW p \in Process, NEW r \in RunId, AdmitRun(p, r)
      PROVE  RetentionTypeOK'
  BY <1>6 DEF AdmitRun
<1>7. ASSUME NEW p \in Process, StartRun(p) \/ Abandon(p)
      PROVE  RetentionTypeOK'
  BY <1>7 DEF StartRun, Abandon
<1>8. ASSUME NEW r \in RunId,
             Recover(r) \/ (\E p \in Process : Execute(p, r))
      PROVE  RetentionTypeOK'
  BY <1>8 DEF Recover, Execute
<1> QED
  BY <1>2, <1>3, <1>4, <1>5, <1>6, <1>7, <1>8 DEF RetentionNext

\* A transaction begins when the lock is free and goes on as its owner's.
LEMMA StepKeepsOneWriter ==
  ASSUME RetentionInv, [RetentionNext]_retentionVars
  PROVE  OneWriter'
<1> USE DEF RetentionInv, OneWriter, RetentionTypeOK, Idle, Continue, End, PolicyFileFree,
            NoRequest
<1>1. CASE UNCHANGED retentionVars
  BY <1>1 DEF retentionVars
<1>2. ASSUME NEW p \in Process, NEW w \in Workspace,
             \/ CreateWorkspace(p, w) \/ AppendVersion(p, w)
             \/ BeginRetirement(p, w) \/ BeginAdmission(p, w)
      PROVE  OneWriter'
  BY <1>2 DEF CreateWorkspace, AppendVersion, BeginRetirement, BeginAdmission
<1>3. ASSUME NEW p \in Process, NEW r \in RunId,
             AdmitRun(p, r)
      PROVE  OneWriter'
  BY <1>3 DEF AdmitRun
<1>4. ASSUME NEW p \in Process,
             PruneRuns(p) \/ DeleteWorkspace(p) \/ StartRun(p) \/ Abandon(p)
      PROVE  OneWriter'
  BY <1>4 DEF PruneRuns, DeleteWorkspace, StartRun, Abandon
<1>5. ASSUME NEW r \in RunId,
             Recover(r) \/ (\E p \in Process : Execute(p, r))
      PROVE  OneWriter'
  BY <1>5 DEF Recover, Execute
<1> QED
  BY <1>1, <1>2, <1>3, <1>4, <1>5 DEF RetentionNext

\* Runs keep their workspace, and what requests know stays true: the lock
\* keeps other requests away, and executions and recovery change no binding
\* and bring no deleted run back.
LEMMA StepKeepsBindings ==
  ASSUME RetentionInv, [RetentionNext]_retentionVars
  PROVE  /\ RunsHaveTheirWorkspace'
         /\ \A q \in Process : RequestFits(q)'
<1> USE DEF RetentionInv, RunsHaveTheirWorkspace, RequestFits, RetentionTypeOK,
            LifecycleTypeOK, Request, NoRequest, Binding, Idle, Continue, End,
            Stored, RunsOf
<1>1. CASE UNCHANGED retentionVars
  BY <1>1 DEF retentionVars, lifecycleVars
<1>2. ASSUME NEW p \in Process, NEW w \in Workspace,
             CreateWorkspace(p, w) \/ AppendVersion(p, w)
      PROVE  /\ RunsHaveTheirWorkspace'
             /\ \A q \in Process : RequestFits(q)'
  BY <1>2 DEF CreateWorkspace, AppendVersion, PolicyFileFree, lifecycleVars
<1>3. ASSUME NEW p \in Process, NEW w \in Workspace,
             BeginRetirement(p, w) \/ BeginAdmission(p, w)
      PROVE  /\ RunsHaveTheirWorkspace'
             /\ \A q \in Process : RequestFits(q)'
  BY <1>3 DEF BeginRetirement, BeginAdmission, PolicyFileFree, lifecycleVars
<1>4. ASSUME NEW p \in Process, PruneRuns(p)
      PROVE  /\ RunsHaveTheirWorkspace'
             /\ \A q \in Process : RequestFits(q)'
  <2>1. \A r \in RunId : status'[r] # "ABSENT" =>
          status[r] # "ABSENT" /\ bound'[r] = bound[r]
    BY <1>4 DEF PruneRuns, Forget
  <2>2. \A q \in Process : q # p => request'[q] = NoRequest
    BY <1>4 DEF PruneRuns, OneWriter
  <2>3. \A r \in RunId : bound'[r] # None => bound'[r] = bound[r]
    BY <1>4 DEF PruneRuns
  <2>4. request'[p].step = "DELETE" =>
          \A r \in RunId : bound'[r] # None /\ bound'[r].workspace = request'[p].workspace
             => status'[r] = "ABSENT"
    BY <1>4, <2>3 DEF PruneRuns, Forget, Retained, Finished, Closing, Open,
                      Running, RunStatus
  <2> QED BY <1>4, <2>1, <2>2, <2>4 DEF PruneRuns
<1>5. ASSUME NEW p \in Process, DeleteWorkspace(p)
      PROVE  /\ RunsHaveTheirWorkspace'
             /\ \A q \in Process : RequestFits(q)'
  BY <1>5 DEF DeleteWorkspace, OneWriter, lifecycleVars
<1>6. ASSUME NEW p \in Process, NEW r \in RunId, AdmitRun(p, r)
      PROVE  /\ RunsHaveTheirWorkspace'
             /\ \A q \in Process : RequestFits(q)'
  BY <1>6, NoRowAssumption DEF AdmitRun, Admit, Move, OneWriter
<1>7. ASSUME NEW p \in Process, StartRun(p)
      PROVE  /\ RunsHaveTheirWorkspace'
             /\ \A q \in Process : RequestFits(q)'
  BY <1>7 DEF StartRun, Start, Block, Close, Move, OneWriter
<1>8. ASSUME NEW p \in Process, Abandon(p)
      PROVE  /\ RunsHaveTheirWorkspace'
             /\ \A q \in Process : RequestFits(q)'
  BY <1>8 DEF Abandon, lifecycleVars
<1>9. ASSUME NEW p \in Process, NEW r \in RunId, Execute(p, r)
      PROVE  /\ RunsHaveTheirWorkspace'
             /\ \A q \in Process : RequestFits(q)'
  BY <1>9 DEF Execute, Record, AwaitCleanup, Succeed, Fail, Poison, Close, Move,
              Running
<1>10. ASSUME NEW r \in RunId, Recover(r)
       PROVE  /\ RunsHaveTheirWorkspace'
              /\ \A q \in Process : RequestFits(q)'
  BY <1>10 DEF Recover, Fence, Move, Open, Running
<1> QED
  BY <1>1, <1>2, <1>3, <1>4, <1>5, <1>6, <1>7, <1>8, <1>9, <1>10
     DEF RetentionNext

-----------------------------------------------------------------------------
(* Theorems                                                                *)

LEMMA InvariantOfRetention == RetentionSpec => []RetentionInv
<1>1. RetentionInit => RetentionInv
  BY DEF RetentionInit, LifecycleInit, RetentionInv, RetentionTypeOK, LifecycleTypeOK,
         RunsHaveTheirWorkspace, OneWriter, RequestFits, Idle, NoRequest, Request,
         Stored, RunStatus, PhaseEvents, Binding
<1>2. RetentionInv /\ [RetentionNext]_retentionVars => RetentionInv'
  BY StepKeepsTypes, StepKeepsOneWriter, StepKeepsBindings DEF RetentionInv
<1> QED
  BY <1>1, <1>2, PTL DEF RetentionSpec

\* Rows, tombstones and requests keep their types.
THEOREM RetentionTypeCorrect == RetentionSpec => []RetentionTypeOK
<1>1. RetentionInv => RetentionTypeOK
  BY DEF RetentionInv
<1> QED
  BY <1>1, InvariantOfRetention, PTL

\* Expiry and admission, in any number of processes that may crash at any
\* step, leave no run without its workspace.
THEOREM NoRunLosesItsWorkspace == RetentionSpec => []RunsHaveTheirWorkspace
<1>1. RetentionInv => RunsHaveTheirWorkspace
  BY DEF RetentionInv
<1> QED
  BY <1>1, InvariantOfRetention, PTL

\* A run is admitted and started for the version that is current then.
THEOREM RunsAreForTheCurrentVersion == RetentionSpec => RunsUseTheCurrentVersion
<1> DEFINE Current ==
      \A r \in RunId :
        (status[r] # status'[r] /\ status'[r] \in {"QUEUED", "RUNNING"}) =>
          bound'[r].version = current'[bound'[r].workspace]
<1>1. RetentionInv /\ [RetentionNext]_retentionVars => [Current]_retentionVars
  <2> SUFFICES ASSUME RetentionInv, RetentionNext PROVE Current
    OBVIOUS
  <2> USE DEF RetentionInv, RetentionTypeOK, LifecycleTypeOK, RequestFits, Request,
              NoRequest, Binding
  <2>1. ASSUME NEW p \in Process, NEW w \in Workspace,
               \/ CreateWorkspace(p, w) \/ AppendVersion(p, w)
               \/ BeginRetirement(p, w) \/ BeginAdmission(p, w)
        PROVE  status' = status
    BY <2>1 DEF CreateWorkspace, AppendVersion, BeginRetirement, BeginAdmission,
                lifecycleVars
  <2>2. ASSUME NEW p \in Process, DeleteWorkspace(p) \/ Abandon(p)
        PROVE  status' = status
    BY <2>2 DEF DeleteWorkspace, Abandon, lifecycleVars
  <2>3. ASSUME NEW p \in Process, PruneRuns(p)
        PROVE  Current
    BY <2>3 DEF PruneRuns, Forget
  <2>4. ASSUME NEW p \in Process, NEW r \in RunId, AdmitRun(p, r)
        PROVE  Current
    BY <2>4 DEF AdmitRun, Admit, Move
  <2>5. ASSUME NEW p \in Process, StartRun(p)
        PROVE  Current
    BY <2>5 DEF StartRun, Start, Block, Close, Move
  <2>6. ASSUME NEW p \in Process, NEW r \in RunId, Execute(p, r)
        PROVE  Current
    BY <2>6 DEF Execute, Record, AwaitCleanup, Succeed, Fail, Poison, Close, Move
  <2>7. ASSUME NEW r \in RunId, Recover(r)
        PROVE  Current
    BY <2>7 DEF Recover, Fence, FencedStatus, Move
  <2> QED
    BY <2>1, <2>2, <2>3, <2>4, <2>5, <2>6, <2>7 DEF RetentionNext
<1> QED
  BY <1>1, InvariantOfRetention, PTL DEF RetentionSpec, RunsUseTheCurrentVersion

\* Requests and executions together use the ledger only as it promises.
THEOREM RetentionUsesLedger == RetentionSpec => LifecycleSpec
<1>1. RetentionInit => LifecycleInit
  BY DEF RetentionInit
<1>2. RetentionInv /\ [RetentionNext]_retentionVars => [LifecycleNext]_lifecycleVars
  BY RetentionStepOfLedger DEF RetentionInv
<1> QED
  BY <1>1, <1>2, InvariantOfRetention, PTL DEF RetentionSpec, LifecycleSpec
=============================================================================
