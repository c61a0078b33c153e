--------------------------- MODULE RepairRunStore ---------------------------
(***************************************************************************)
(* The durable repair-run ledger, src/repair-runs/sqlite.ts: the table of  *)
(* runs with their event log, the singleton row of executor authority, and *)
(* every operation of SQLiteRepairRunRepository that writes them.          *)
(*                                                                         *)
(* Several processes share one database file.  Inside a process the calls  *)
(* are synchronous, so a process is inside at most one call; a call that   *)
(* reads before it opens its transaction, or that needs two transactions,  *)
(* is modelled by one step per database access, with the values it carries *)
(* between them in call[p].  A transaction that throws is rolled back and  *)
(* so leaves runs and auth as they were.                                   *)
(*                                                                         *)
(* The time of a call is the caller's own clock reading, taken before the  *)
(* transaction begins: it is an arbitrary element of Time, not ordered     *)
(* with the readings of other processes.                                   *)
(***************************************************************************)
EXTENDS Naturals, Sequences, FiniteSets

CONSTANTS
  Process,            \* server processes that opened the same database file
  RunId,              \* the random identifiers of runs
  Session,            \* hashed anonymous sessions
  ClientRequest,      \* idempotency keys a browser sends
  Input,              \* worker inputs (policy, version, IR hash, corpus)
  Policy,
  PolicyOf,           \* the policy an input belongs to
  Time,               \* clock readings, in milliseconds
  LeaseDuration,
  MaxRunsPerSession,  \* MAX_RUNS_PER_SESSION
  MaxEventsPerRun,    \* MAX_EVENTS_PER_RUN
  MaxGeneration,      \* Number.MAX_SAFE_INTEGER
  None

ASSUME TimeAssumption == Time \subseteq Nat
ASSUME BoundAssumption ==
  /\ LeaseDuration \in Nat \ {0}
  /\ MaxRunsPerSession \in Nat
  /\ MaxGeneration \in Nat
  /\ MaxEventsPerRun \in Nat /\ MaxEventsPerRun >= 12
ASSUME PolicyAssumption == PolicyOf \in [Input -> Policy]
ASSUME NoneAssumption == None \notin Process /\ None \notin RunId

VARIABLES
  runs,    \* the table: a function whose domain is the set of stored run ids
  auth,    \* the singleton row of executor authority and clock high water
  leases,  \* lease objects each live process holds in memory
  call     \* the repository call each process is inside of

vars == <<runs, auth, leases, call>>

-----------------------------------------------------------------------------
(* Rows                                                                    *)

Status == {"QUEUED", "RUNNING", "CLEANUP_PENDING", "BLOCKED", "SUCCEEDED",
           "FAILED", "POISONED"}
Phase == {"ADMISSION", "CARTOGRAPHY", "REPAIR", "VERIFICATION", "REVIEW",
          "COMPLETE"}
WorkPhase == Phase \ {"ADMISSION", "COMPLETE"}
EventType == {"RUN_CREATED", "RUN_STARTED", "PHASE_STARTED", "PHASE_COMPLETED",
              "RUN_BLOCKED", "RUN_CLEANUP_PENDING", "RUN_SUCCEEDED",
              "RUN_FAILED", "RUN_POISONED"}
Mode == {"NOT_STARTED", "LIVE_EXECUTION_UNVERIFIED", "LIVE_CODEX_SDK"}

Active   == {"QUEUED", "RUNNING", "CLEANUP_PENDING"}
Blocking == Active \cup {"POISONED"}
Settled  == {"BLOCKED", "SUCCEEDED", "FAILED"}
Terminal == Settled \cup {"POISONED"}

\* The phase that follows in REPAIR_RUN_PHASES; nothing follows COMPLETE.
NextPhase == [ph \in Phase |->
  CASE ph = "ADMISSION"    -> "CARTOGRAPHY"
    [] ph = "CARTOGRAPHY"  -> "REPAIR"
    [] ph = "REPAIR"       -> "VERIFICATION"
    [] ph = "VERIFICATION" -> "REVIEW"
    [] ph = "REVIEW"       -> "COMPLETE"
    [] ph = "COMPLETE"     -> "NONE"]

Event == [type: EventType, phase: Phase]
Entry(type, phase) == [type |-> type, phase |-> phase]
LastEntry(log) == log[Len(log)]

Key == [session: Session, request: ClientRequest]
Lease == [run: RunId, generation: Nat]

\* What a consumed, authenticated worker result says: the run and the input it
\* was signed for, and whether verification and review both passed in full.
\* Its completion time, which the code wants between the creation of the run
\* and 5 s after the call, is left out: any call has a time that fits.
Settlement == [run: RunId, input: Input, passing: BOOLEAN]
NoResult == [passing |-> FALSE]
Result == Settlement \cup {NoResult}

Row == [status: Status, phase: Phase, mode: Mode, key: Key, input: Input,
        result: Result, updatedAt: Time,
        log: Seq(Event)]

\* The high-water mark is 0 until a first reading is observed.
Authority == [owner: Process \cup {None}, run: RunId \cup {None},
              expires: Nat, generation: Nat, highWater: Time \cup {0}]

NoCall == [op |-> "NONE"]
Call == {NoCall}
  \cup [op: {"RECONCILE"}, at: Time]
  \cup [op: {"ADMIT_RECONCILE", "ADMIT"}, key: Key, input: Input, at: Time]
  \cup [op: {"SUCCEED", "POISON", "FAIL", "FAIL_SETTLED"}, lease: Lease,
        mode: Mode, result: Result, at: Time]

\* The types of the rows, of the authority row, of leases and of open calls.
TypeOK ==
  /\ DOMAIN runs \subseteq RunId
  /\ runs \in [DOMAIN runs -> Row]
  /\ auth \in Authority
  /\ leases \in [Process -> SUBSET Lease]
  /\ call \in [Process -> Call]

Init ==
  /\ runs = [r \in {} |-> NoResult]
  /\ auth = [owner |-> None, run |-> None, expires |-> 0, generation |-> 0,
             highWater |-> 0]
  /\ leases = [p \in Process |-> {}]
  /\ call = [p \in Process |-> NoCall]

-----------------------------------------------------------------------------
(* Parts of a transaction                                                  *)

Idle(p) == call[p] = NoCall
Bound == auth.run # None
ActiveRuns == {r \in DOMAIN runs : runs[r].status \in Active}

\* #observeTime rejects a reading behind the high-water mark, and advances it.
TimeAccepted(t) == auth.highWater <= t
ObserveOnlyChecks(a, t) == a                                     \* mutant
Observe(a, t) == [a EXCEPT !.highWater = t]

\* #clearLease: the generation and the high-water mark survive.
Clear(a) == [a EXCEPT !.owner = None, !.run = None, !.expires = 0]

\* #assertLeaseCurrent, for lease object l of process p.  The fence token is
\* drawn together with the generation, which stands for both.
LeaseMatches(p, l) ==
  /\ auth.owner = p
  /\ auth.run = l.run
  /\ auth.generation = l.generation
LeaseCurrent(p, l, t) == LeaseMatches(p, l) /\ auth.expires > t

\* #appendEvent refuses entry number MaxEventsPerRun + 1.
LogHasRoom(r) == Len(runs[r].log) < MaxEventsPerRun

\* A row takes a new status, and its log the entry that says so.
Moved(row, t, status, phase, mode, result, type) ==
  [row EXCEPT !.status = status, !.phase = phase, !.mode = mode,
              !.result = result, !.updatedAt = t,
              !.log = Append(@, Entry(type, phase))]

\* #recoverRunWithoutLease: what becomes of a run whose executor is gone.
RecoveredRow(row, t) ==
  IF row.status = "QUEUED"
    THEN Moved(row, t, "FAILED", "COMPLETE", row.mode, NoResult, "RUN_FAILED")
  ELSE IF row.status \in Active
    THEN Moved(row, t, "POISONED", "COMPLETE", row.mode, NoResult,
               "RUN_POISONED")
  ELSE row
CanRecover(r, t) ==
  /\ runs[r].updatedAt <= t
  /\ runs[r].status \in Active => LogHasRoom(r)

\* The rows #reconcileExpiredExecutorLease recovers: the bound run once its
\* lease has expired, or every active row when no executor is bound at all.
Unowned(t) ==
  IF Bound THEN {r \in {auth.run} : auth.expires <= t} ELSE ActiveRuns
Reconcile(t) ==
  /\ runs' = [r \in DOMAIN runs |->
                IF r \in Unowned(t) THEN RecoveredRow(runs[r], t) ELSE runs[r]]
  /\ auth' = IF Bound /\ auth.expires <= t THEN Clear(Observe(auth, t))
                                           ELSE Observe(auth, t)
ReconcileAccepted(t) ==
  /\ TimeAccepted(t)
  /\ \A r \in Unowned(t) : r \in DOMAIN runs /\ CanRecover(r, t)

\* #transition: the update of the leased run and of the authority row.
TransitionAccepted(p, l, t, allowed) ==
  /\ TimeAccepted(t)
  /\ LeaseCurrent(p, l, t)
  /\ l.run \in DOMAIN runs
  /\ runs[l.run].status \in allowed
  /\ runs[l.run].updatedAt <= t
  /\ LogHasRoom(l.run)
TransitionKeepsPoisonedLease(l, t, status, phase, mode, result, type) == \* mutant
  /\ runs' = [runs EXCEPT ![l.run] =
                Moved(@, t, status, phase, mode, result, type)]
  /\ auth' = IF status \in Settled THEN Clear(Observe(auth, t))
                                   ELSE Observe(auth, t)
Transition(l, t, status, phase, mode, result, type) ==
  /\ runs' = [runs EXCEPT ![l.run] =
                Moved(@, t, status, phase, mode, result, type)]
  /\ auth' = IF status \in Terminal THEN Clear(Observe(auth, t))
                                    ELSE Observe(auth, t)

-----------------------------------------------------------------------------
(* Reconciliation and admission                                            *)

\* reconcileExpiredExecutorLease looks before it opens a writer transaction.
\* Its look at the authority row and its count of active runs are one step: a
\* run admitted in between only makes the transaction find nothing to recover.
ReconcileNeeded(t) == IF Bound THEN auth.expires <= t ELSE ActiveRuns # {}

BeginReconcile(p, t) ==
  /\ Idle(p)
  /\ TimeAccepted(t)
  /\ ReconcileNeeded(t)
  /\ call' = [call EXCEPT ![p] = [op |-> "RECONCILE", at |-> t]]
  /\ UNCHANGED <<runs, auth, leases>>

FinishReconcile(p) ==
  /\ call[p].op = "RECONCILE"
  /\ IF ReconcileAccepted(call[p].at)
       THEN Reconcile(call[p].at)
       ELSE UNCHANGED <<runs, auth>>
  /\ call' = [call EXCEPT ![p] = NoCall]
  /\ UNCHANGED leases

\* createOrGetRun reconciles in a transaction of its own, then admits.
BeginAdmission(p, key, input, t) ==
  /\ Idle(p)
  /\ TimeAccepted(t)
  /\ call' = [call EXCEPT ![p] =
                [op |-> IF ReconcileNeeded(t) THEN "ADMIT_RECONCILE"
                                              ELSE "ADMIT",
                 key |-> key, input |-> input, at |-> t]]
  /\ UNCHANGED <<runs, auth, leases>>

ReconcileBeforeAdmission(p) ==
  /\ call[p].op = "ADMIT_RECONCILE"
  /\ IF ReconcileAccepted(call[p].at)
       THEN /\ Reconcile(call[p].at)
            /\ call' = [call EXCEPT ![p].op = "ADMIT"]
       ELSE /\ call' = [call EXCEPT ![p] = NoCall]
            /\ UNCHANGED <<runs, auth>>
  /\ UNCHANGED leases

RowsOf(key) == {r \in DOMAIN runs : runs[r].key = key}
HistoryOf(session) == {r \in DOMAIN runs : runs[r].key.session = session}

\* A repeated request gets the row it created, when it names the same input.
CanReturnExisting(p) ==
  /\ TimeAccepted(call[p].at)
  /\ \E r \in RowsOf(call[p].key) : runs[r].input = call[p].input
ReturnExisting(p) ==
  /\ call[p].op = "ADMIT"
  /\ CanReturnExisting(p)
  /\ auth' = Observe(auth, call[p].at)
  /\ call' = [call EXCEPT ![p] = NoCall]
  /\ UNCHANGED <<runs, leases>>

CanInsertBesidePoisoned(p) ==                                    \* mutant
  /\ TimeAccepted(call[p].at)
  /\ RowsOf(call[p].key) = {}
  /\ ActiveRuns = {}
  /\ ~Bound
  /\ auth.generation < MaxGeneration
CanInsertRepeatedRequest(p) ==                                   \* mutant
  /\ TimeAccepted(call[p].at)
  /\ \A r \in DOMAIN runs : runs[r].status \notin Blocking
  /\ Cardinality(HistoryOf(call[p].key.session)) < MaxRunsPerSession
  /\ ~Bound
  /\ auth.generation < MaxGeneration
CanInsert(p) ==
  /\ TimeAccepted(call[p].at)
  /\ RowsOf(call[p].key) = {}
  /\ \A r \in DOMAIN runs : runs[r].status \notin Blocking
  /\ Cardinality(HistoryOf(call[p].key.session)) < MaxRunsPerSession
  /\ ~Bound
  /\ auth.generation < MaxGeneration

CreatedRow(c) ==
  [status |-> "QUEUED", phase |-> "ADMISSION", mode |-> "NOT_STARTED",
   key |-> c.key, input |-> c.input, result |-> NoResult,
   updatedAt |-> c.at,
   log |-> <<Entry("RUN_CREATED", "ADMISSION")>>]

\* The insertion issues the lease in the same transaction.  An identifier is
\* only compared with the stored ones, so one that was pruned may come back.
InsertRun(p, r) ==
  /\ call[p].op = "ADMIT"
  /\ CanInsert(p)
  /\ r \notin DOMAIN runs
  /\ runs' = [x \in DOMAIN runs \cup {r} |->
                IF x = r THEN CreatedRow(call[p]) ELSE runs[x]]
  /\ auth' = [owner |-> p, run |-> r,
              expires |-> call[p].at + LeaseDuration,
              generation |-> auth.generation + 1,
              highWater |-> call[p].at]
  /\ leases' = [leases EXCEPT ![p] =
                  @ \cup {[run |-> r, generation |-> auth.generation + 1]}]
  /\ call' = [call EXCEPT ![p] = NoCall]

\* CLOCK_ROLLBACK, IDEMPOTENCY_CONFLICT, RUN_BUSY, RUN_CAPACITY.
RefuseAdmission(p) ==
  /\ call[p].op = "ADMIT"
  /\ ~CanReturnExisting(p)
  /\ ~CanInsert(p)
  /\ call' = [call EXCEPT ![p] = NoCall]
  /\ UNCHANGED <<runs, auth, leases>>

-----------------------------------------------------------------------------
(* Operations of the holder of a lease                                     *)

Heartbeat(p, l, t) ==
  /\ Idle(p)
  /\ TimeAccepted(t)
  /\ LeaseCurrent(p, l, t)
  /\ auth' = [Observe(auth, t) EXCEPT !.expires = t + LeaseDuration]
  /\ UNCHANGED <<runs, leases, call>>

\* failStopAfterExecutorHeartbeatFailure does not need an unexpired lease and
\* replaces a reading behind the high-water mark by the mark itself.
LogicalTime(t) == IF t > auth.highWater THEN t ELSE auth.highWater
FailStop(p, l, t) ==
  /\ Idle(p)
  /\ l.run \in DOMAIN runs
  /\ IF runs[l.run].status \in Terminal
       THEN /\ auth' = Observe(auth, LogicalTime(t))
            /\ UNCHANGED runs
       ELSE /\ LeaseMatches(p, l) \/ ~Bound
            /\ CanRecover(l.run, LogicalTime(t))
            /\ runs' = [runs EXCEPT ![l.run] = RecoveredRow(@, LogicalTime(t))]
            /\ auth' = IF LeaseMatches(p, l)
                         THEN Clear(Observe(auth, LogicalTime(t)))
                         ELSE Observe(auth, LogicalTime(t))
  /\ UNCHANGED <<leases, call>>

MarkRunning(p, l, t) ==
  /\ Idle(p)
  /\ TransitionAccepted(p, l, t, {"QUEUED"})
  /\ Transition(l, t, "RUNNING", "ADMISSION", "LIVE_EXECUTION_UNVERIFIED",
                NoResult, "RUN_STARTED")
  /\ UNCHANGED <<leases, call>>

MarkBlocked(p, l, t) ==
  /\ Idle(p)
  /\ TransitionAccepted(p, l, t, {"QUEUED"})
  /\ Transition(l, t, "BLOCKED", "ADMISSION", "NOT_STARTED", NoResult,
                "RUN_BLOCKED")
  /\ UNCHANGED <<leases, call>>

MarkCleanupPending(p, l, t) ==
  /\ Idle(p)
  /\ TransitionAccepted(p, l, t, {"RUNNING"})
  /\ Transition(l, t, "CLEANUP_PENDING", "COMPLETE",
                "LIVE_EXECUTION_UNVERIFIED", NoResult, "RUN_CLEANUP_PENDING")
  /\ UNCHANGED <<leases, call>>

StartIsOrderedByPhaseOnly(row, ph) == ph = NextPhase[row.phase]   \* mutant
StartIsOrdered(row, ph) ==
  /\ ph = NextPhase[row.phase]
  /\ LastEntry(row.log) = IF ph = "CARTOGRAPHY"
                            THEN Entry("RUN_STARTED", "ADMISSION")
                            ELSE Entry("PHASE_COMPLETED", row.phase)
CompletionIsOrdered(row, ph) ==
  /\ ph = row.phase
  /\ LastEntry(row.log) = Entry("PHASE_STARTED", ph)

Progressed(row, t, type, ph) ==
  [row EXCEPT !.phase = ph, !.updatedAt = t,
              !.log = Append(@, Entry(type, ph))]

AppendProgress(p, l, t, type, ph) ==
  /\ Idle(p)
  /\ TimeAccepted(t)
  /\ LeaseCurrent(p, l, t)
  /\ l.run \in DOMAIN runs
  /\ runs[l.run].status = "RUNNING"
  /\ \/ type = "PHASE_STARTED" /\ StartIsOrdered(runs[l.run], ph)
     \/ type = "PHASE_COMPLETED" /\ CompletionIsOrdered(runs[l.run], ph)
  /\ LogHasRoom(l.run)
  /\ runs' = [runs EXCEPT ![l.run] = Progressed(@, t, type, ph)]
  /\ auth' = Observe(auth, t)
  /\ UNCHANGED <<leases, call>>

SettlementBoundToInput(s, r) == s.input = runs[r].input           \* mutant
\* The settlement was signed for this run and its input.
SettlementBound(s, r) == s.run = r /\ s.input = runs[r].input

ReviewCompletedInAnyPhase(r) ==                                  \* mutant
  /\ r \in DOMAIN runs
  /\ runs[r].status = "RUNNING"
  /\ LastEntry(runs[r].log).type = "PHASE_COMPLETED"

\* markSucceeded reads the row and its last event before its transaction.
ReviewCompleted(r) ==
  /\ r \in DOMAIN runs
  /\ runs[r].status = "RUNNING"
  /\ runs[r].phase = "REVIEW"
  /\ LastEntry(runs[r].log) = Entry("PHASE_COMPLETED", "REVIEW")

BeginSucceed(p, l, t, s) ==
  /\ Idle(p)
  /\ ReviewCompleted(l.run)
  /\ SettlementBound(s, l.run)
  /\ s.passing
  /\ call' = [call EXCEPT ![p] =
                [op |-> "SUCCEED", lease |-> l, mode |-> "LIVE_CODEX_SDK",
                 result |-> s, at |-> t]]
  /\ UNCHANGED <<runs, auth, leases>>

\* markPoisoned, markFailed and markFailedAfterVerifiedSettlement keep the
\* execution mode they read before their transaction.
BeginFailure(p, l, t, op) ==
  /\ Idle(p)
  /\ l.run \in DOMAIN runs
  /\ op = "FAIL_SETTLED" =>
       \E s \in Settlement : SettlementBound(s, l.run)
  /\ call' = [call EXCEPT ![p] =
                [op |-> op, lease |-> l, mode |-> runs[l.run].mode,
                 result |-> NoResult, at |-> t]]
  /\ UNCHANGED <<runs, auth, leases>>

FinishMark(p, op, allowed, status, type) ==
  /\ call[p].op = op
  /\ IF TransitionAccepted(p, call[p].lease, call[p].at, allowed)
       THEN Transition(call[p].lease, call[p].at, status, "COMPLETE",
                       call[p].mode, call[p].result, type)
       ELSE UNCHANGED <<runs, auth>>
  /\ call' = [call EXCEPT ![p] = NoCall]
  /\ UNCHANGED leases

MarkSucceeded(p) ==
  FinishMark(p, "SUCCEED", {"RUNNING"}, "SUCCEEDED", "RUN_SUCCEEDED")
MarkPoisoned(p) ==
  FinishMark(p, "POISON", {"RUNNING", "CLEANUP_PENDING"}, "POISONED",
             "RUN_POISONED")
MarkFailed(p) ==
  FinishMark(p, "FAIL", {"QUEUED"}, "FAILED", "RUN_FAILED")
MarkFailedAfterVerifiedSettlement(p) ==
  FinishMark(p, "FAIL_SETTLED", {"RUNNING", "CLEANUP_PENDING"}, "FAILED",
             "RUN_FAILED")

-----------------------------------------------------------------------------
(* Retention and crashes                                                   *)

PrunableRunsAnyTerminal(policy) ==                               \* mutant
  {r \in DOMAIN runs : /\ PolicyOf[runs[r].input] = policy
                       /\ runs[r].status \in Terminal}

\* pruneTerminalRunsForPolicy; the events go with their row.
PrunableRuns(policy) ==
  {r \in DOMAIN runs : /\ PolicyOf[runs[r].input] = policy
                       /\ runs[r].status \in Settled}
Prune(p, policy) ==
  /\ Idle(p)
  /\ PrunableRuns(policy) # {}
  /\ runs' = [r \in DOMAIN runs \ PrunableRuns(policy) |-> runs[r]]
  /\ UNCHANGED <<auth, leases, call>>

\* A process dies, or restarts: its lease objects and its open call are gone.
Crash(p) ==
  /\ leases' = [leases EXCEPT ![p] = {}]
  /\ call' = [call EXCEPT ![p] = NoCall]
  /\ UNCHANGED <<runs, auth>>

HolderStep(p, l, t) ==
  \/ Heartbeat(p, l, t)
  \/ FailStop(p, l, t)
  \/ MarkRunning(p, l, t)
  \/ MarkBlocked(p, l, t)
  \/ MarkCleanupPending(p, l, t)
  \/ \E type \in {"PHASE_STARTED", "PHASE_COMPLETED"}, ph \in WorkPhase :
       AppendProgress(p, l, t, type, ph)
  \/ \E s \in Settlement : BeginSucceed(p, l, t, s)
  \/ \E op \in {"POISON", "FAIL", "FAIL_SETTLED"} : BeginFailure(p, l, t, op)

Next ==
  \E p \in Process :
    \/ \E t \in Time : BeginReconcile(p, t)
    \/ FinishReconcile(p)
    \/ \E key \in Key, input \in Input, t \in Time :
         BeginAdmission(p, key, input, t)
    \/ ReconcileBeforeAdmission(p)
    \/ ReturnExisting(p)
    \/ \E r \in RunId : InsertRun(p, r)
    \/ RefuseAdmission(p)
    \/ \E l \in leases[p], t \in Time : HolderStep(p, l, t)
    \/ MarkSucceeded(p)
    \/ MarkPoisoned(p)
    \/ MarkFailed(p)
    \/ MarkFailedAfterVerifiedSettlement(p)
    \/ \E policy \in Policy : Prune(p, policy)
    \/ Crash(p)

Spec == Init /\ [][Next]_vars

-----------------------------------------------------------------------------
(* Properties                                                              *)

\* At most one run is queued, running, awaiting cleanup or poisoned, whatever
\* processes race through admission, reconciliation and expiry: the executor
\* is single-flight, and a poisoned run closes admission for good.
OneBlockingRun ==
  \A r, q \in DOMAIN runs :
    runs[r].status \in Blocking /\ runs[q].status \in Blocking => r = q

\* The authority row is bound exactly while its run is active.  The branches
\* of sqlite.ts for a lease without a run, for a lease left on a finished run
\* and for active work that nobody owns are never taken, and every active run
\* has a lease whose expiry brings it to an end.
AuthorityBindsActiveRun ==
  /\ Bound <=> auth.owner # None
  /\ Bound => auth.run \in ActiveRuns
  /\ ActiveRuns \subseteq {auth.run}

\* The only complete history of an execution, one entry per event.
ExecutionLog ==
  <<Entry("RUN_CREATED", "ADMISSION"), Entry("RUN_STARTED", "ADMISSION"),
    Entry("PHASE_STARTED", "CARTOGRAPHY"), Entry("PHASE_COMPLETED", "CARTOGRAPHY"),
    Entry("PHASE_STARTED", "REPAIR"), Entry("PHASE_COMPLETED", "REPAIR"),
    Entry("PHASE_STARTED", "VERIFICATION"), Entry("PHASE_COMPLETED", "VERIFICATION"),
    Entry("PHASE_STARTED", "REVIEW"), Entry("PHASE_COMPLETED", "REVIEW")>>

\* The first n entries of a log are those of an execution.
FollowsExecution(log, n) ==
  n <= Len(ExecutionLog) /\ \A i \in 1..n : log[i] = ExecutionLog[i]

\* At least `least` execution entries, possibly a pending cleanup, then one
\* closing entry.
ClosedLog(log, least, type) ==
  LET n == Len(log) IN
  /\ n > least
  /\ log[n] = Entry(type, "COMPLETE")
  /\ \/ FollowsExecution(log, n - 1)
     \/ /\ n > least + 1
        /\ log[n - 1] = Entry("RUN_CLEANUP_PENDING", "COMPLETE")
        /\ FollowsExecution(log, n - 2)

LogMatchesStatus(row) ==
  LET n == Len(row.log) IN
  /\ row.status = "QUEUED" =>
       n = 1 /\ FollowsExecution(row.log, 1) /\ row.phase = "ADMISSION"
  /\ row.status = "RUNNING" =>
       n >= 2 /\ FollowsExecution(row.log, n) /\ row.phase = row.log[n].phase
  /\ row.status = "CLEANUP_PENDING" =>
       /\ n >= 3 /\ FollowsExecution(row.log, n - 1)
       /\ row.log[n] = Entry("RUN_CLEANUP_PENDING", "COMPLETE")
  /\ row.status = "BLOCKED" =>
       /\ n = 2 /\ FollowsExecution(row.log, 1)
       /\ row.log[2] = Entry("RUN_BLOCKED", "ADMISSION")
  /\ row.status = "SUCCEEDED" =>
       /\ n = 11 /\ FollowsExecution(row.log, 10)
       /\ row.log[11] = Entry("RUN_SUCCEEDED", "COMPLETE")
  /\ row.status = "FAILED" => ClosedLog(row.log, 1, "RUN_FAILED")
  /\ row.status = "POISONED" => ClosedLog(row.log, 2, "RUN_POISONED")

\* Every stored log is an execution in phase order, cut short at most once and
\* closed by the event of the row's status: a run is SUCCEEDED only with all
\* four phases completed, although markSucceeded looks at the log before its
\* transaction; a poisoned run had started; and no log reaches the cap that
\* would make #appendEvent refuse the entry that closes a run.
LogsAreExecutions ==
  \A r \in DOMAIN runs : /\ LogMatchesStatus(runs[r])
                         /\ Len(runs[r].log) <= 12

EvidenceMatchesStatus(r, row) ==
  /\ row.mode = "LIVE_CODEX_SDK" <=> row.status = "SUCCEEDED"
  /\ row.status # "SUCCEEDED" => row.result = NoResult
  /\ row.status = "SUCCEEDED" =>
       /\ row.result # NoResult
       /\ row.result.passing
       /\ row.result.run = r /\ row.result.input = row.input

\* A success is stored only with passing evidence that was signed for this run
\* and this input, even when the identifier of a pruned run comes back; no
\* other row keeps a result, and only a success claims LIVE_CODEX_SDK.
SuccessHasOwnEvidence ==
  \A r \in DOMAIN runs : EvidenceMatchesStatus(r, runs[r])

\* No stored run time is ahead of the high-water mark.  #initialize refuses to
\* open a file that breaks this, and recovery would refuse to close a run; so
\* a restart after a crash at any step reopens the ledger, and an expired run
\* can always be recovered.
HighWaterCoversRuns ==
  \A r \in DOMAIN runs : runs[r].updatedAt <= auth.highWater

\* A retried request never starts a second run beside the first.
OneRunPerRequest ==
  \A r, q \in DOMAIN runs : runs[r].key = runs[q].key => r = q

\* A finished run is never rewritten, by late calls with an old lease or by
\* reconciliation: it stands until retention deletes it, which a poisoned run
\* survives.
FinishedRunsStand ==
  [][\A r \in DOMAIN runs : runs[r].status \in Terminal =>
       IF r \in DOMAIN runs' THEN runs'[r] = runs[r]
                             ELSE runs[r].status # "POISONED"]_vars

-----------------------------------------------------------------------------
(* The ledger as its callers see it                                        *)

RunView(r) == IF r \in DOMAIN runs THEN runs[r].status ELSE "ABSENT"
RecordedView(r) == IF RunView(r) = "RUNNING" THEN Len(runs[r].log) - 2 ELSE 0

Ledger == INSTANCE RepairRunLifecycle WITH
  status   <- [r \in RunId |-> RunView(r)],
  recorded <- [r \in RunId |-> RecordedView(r)],
  holder   <- auth.owner

\* Rows, leases and clock readings implement the ledger's promise: only the
\* process whose lease is current changes a run, one event at a time, and
\* whatever takes the run away from it fails or poisons the run.
ImplementsLifecycle == Ledger!LifecycleSpec
=============================================================================
