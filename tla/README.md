# TLA+ models of PolicyTwin

PolicyTwin turns a policy text into a versioned policy IR, derives cases from
it, compares an implementation with it, lets a guarded external worker repair
that implementation, and publishes evidence of all this. This directory models
the parts whose failures are hardest to see: the stores that several server
processes share, the executions of a repair among timers, crashes, Docker
commands that may be applied late and workers nobody can see, and the evidence
that is computed, checked and served. TLC checks small instances; TLAPS proves
the safety of the stores, the coordinator, the exchanges, both lifecycles, the CPU
evidence, the local challenge and the evidence download for every value of the
constants.

    tlc -workers 2 -config RepairRunStoreRace.cfg     MCRepairRunStore.tla
    tlc -workers 2 -config RepairCoordinator.cfg      MCRepairCoordinator.tla
    tlc -workers 2 -config PolicyStore.cfg            MCPolicyStore.tla
    tlc -workers 2 -config PolicyStoreTransition.cfg  MCPolicyStore.tla    # violated
    tlc -workers 2 -config WorkspaceRetention.cfg     MCWorkspaceRetention.tla
    tlc -workers 2 -config WorkerRpc.cfg              MCWorkerRpc.tla
    tlc -workers 2 -config DedicatedLifecycle.cfg     DedicatedLifecycle.tla
    tlc -workers 2 -config WorkerLifecycle.cfg        WorkerLifecycle.tla
    tlc -workers 2 -config VerifierExchange.cfg       MCVerifierExchange.tla
    tlc -workers 2 -config CpuEvidence.cfg            MCCpuEvidence.tla
    tlc -workers 2 -config LocalChallenge.cfg         MCLocalChallenge.tla
    tlc -workers 2 -config EvidenceDownload.cfg       MCEvidenceDownload.tla
    tlapm RepairRunStoreProofs.tla      # and the other *Proofs modules

`PROJECT.json` lists the components, the runs, the source lines of every
definition, the mutants that break each property, the hazards and the theorems.
Paths below are relative to the repository's own `src/` unless they start with
`app/`, `scripts/`, `prompts/`, `native/` or `docs/`.

## 1. Inventory

| Component | State it keeps | Operations | Interacts with | What is hard, what makes it correct |
|---|---|---|---|---|
| Repair-run ledger, `repair-runs/sqlite.ts` | runs, event logs, the authority row (owner, fence, generation, expiry, clock high water); lease objects in memory | create-or-get, reconcile, heartbeat, fail-stop, mark running / blocked / cleanup pending / succeeded / failed / poisoned, append progress, prune | coordinator, routes, retention; other processes through the same file | reads outside transactions, two-transaction admission, expiry against a live holder, clock rollback. One blocking run; finished runs stand; logs are executions; success has its own evidence |
| Coordinator and port, `repair-runs/coordinator.ts` | per run: abort controller, timers, verified settlement, heartbeat outcome | start, `#execute`, `onProgress`, catch block | ledger, port, worker client | races of settlement, timeout and heartbeat; storage failing in the catch block. Busy work holds admission; every execution returns |
| Repair-run routes, `app/api/.../repair-runs` | mutation gate, stream cursor | GET, POST, event stream | coordinator, ledger, policy store | nobody else reconciles expired leases |
| Policy store, `persistence/sqlite.ts` | projects, versions, lifecycle states, decisions, tombstones | create, append version, resolve, transition, delete by generation | workspace service, retention | checks before transactions, compare-and-swap on the version |
| Lifecycle, `policy-ir/state.ts` | — | allowed transitions | policy store | only accepted meaning becomes executable |
| Workspace service and retention, `workspace/`, `app/lib/policy-workspace-store.ts` | sessions, 24 h TTL, 128 projects | seed, read, edit, resolve, expire | policy store, then ledger (two databases) | crash between the two commits; deletion against admission |
| Worker RPC client, `codex/worker-rpc-client.ts` | one active run, used request ids | run repair | transport, port | abort against response; one-shot results |
| Worker supervisor and replay store, `codex/worker-rpc-mtls.ts`, `worker-rpc-replay-sqlite.ts` | repair slot, consumed capabilities | serve, consume, close | client, lifecycle | slot across an await, replay window, clock |
| Supervised worker lifecycle and Docker driver, `codex/worker-os-lifecycle.ts`, `supervisor-docker-driver.ts`, `cpu-budget-contract.ts` | run and poison latches, handle with its ambiguous names, CPU ledger | prepare, start, observe, seal, cleanup | Docker CLI, CPU controller | killed commands applied late, cleanup in its time, poisoning. A reusable lifecycle has left nothing behind |
| Dedicated lifecycle, `codex/live-linux-cgroup-cpu-dedicated-lifecycle.ts` with its adapter, owned containers, start barrier and cgroup helper client | containers, networks, frames, bound roles, baselines | create, observe, release, measure, freeze, kill, remove, finish | Docker CLI, native helper | cleanup after any failed step. All CPU accounted, roles apart, truthful results |
| CPU evidence, `codex/linux-cgroup-cpu-evidence-producer.ts`, `live-linux-cgroup-cpu-evidence-v2.ts` | transcript, roles, baselines, terminal flags | bind, sample, contain, finish; parse | port to the controller | a producer and a reader written apart that must agree on every end |
| Verifier exchange, `codex/verifier-exchange-*.ts`, `verifier-replay-sqlite.ts`, `repair-verifier-review-bridge.ts` | challenges, receipts, tombstones, high water; what a bridge holds | issue, deliver, authenticate, retry, review | worker, verifier, reviewer | one use per challenge across restarts, clocks and pruning. One result per request, standing on receipts |
| Repair orchestration, `codex/orchestrate.ts`, `sdk-adapter.ts` | attempt, trees, verdicts | plan, repair, build, test, verify, review | model SDK, corpus | bounded retries; what a PASS is said of |
| Local challenge, `scripts/local-challenge.mjs`, `local-challenge-lock.mjs` | lock directory, published evidence and backups | acquire, recover, run, promote, roll back, release, retire | orchestration | crashes between renames, reused process ids. One run at a time; evidence is not lost |
| Policy algorithms, `policy-ir/`, `compiler/`, `opa/`, `cases/`, `differential/`, `impact/`, `mutation/`, `traceability/` | — | validate, evaluate, resolve, compile, generate, compare | workspace, evidence | the compiled program and the reference agree |
| Evidence package, `evidence/validate.ts`, `scripts/generate-offline-evidence.mjs` | 38 files, manifest, attestation | generate, validate | all of the above | a claim and the details it rests on, spread over many files |
| Archive cache and route, `evidence/archive-cache.ts`, `files.ts`, `app/api/evidence` | one completed and one active build | get-or-create | publisher of the files | single flight, lifetime, attestation expiring during an await, files read while they are replaced |
| Egress proxy, `codex/openai-egress-proxy.ts` | connection and byte counters | proxy | worker | fixed limits |
| Interpreter, isolated worker, UI, scripts | — | — | — | no state over time, or an external program |

How the parts meet: POST calls `coordinator.start`, which admits a run in the
ledger and leaves `#execute` running. `#execute` heartbeats the lease, calls the
port, and records progress and the outcome in the ledger. The port calls the
external worker, whose supervisor admits a request once and runs it in the
supervised lifecycle. GET, POST and the event stream of any process call
`reconcileExpiredExecutorLease`, which ends a run whose holder is gone. In the
repository as it stands the product wires an unavailable port, so its runs end
BLOCKED; the dedicated lifecycle, the CPU evidence producer and the verifier
exchange are not wired to a production entry point either
(`docs/architecture.md:45`). The models cover them through their own interfaces.
The local challenge runs the repair orchestration on a developer's machine; the
evidence package and its archive are what the site serves.

## 2. Modules

| Module | Models | State and how it maps to the code |
|---|---|---|
| `RepairRunLifecycle` | what the ledger promises | `status`, `recorded` phase events, `holder`: the process that may change the open run |
| `RepairRunStore` | `repair-runs/sqlite.ts` | `runs` (table with logs), `auth` (the singleton row), `leases` (lease objects of a process), `call` (what a call carries from a read outside a transaction into it) |
| `RepairCoordinator` | `coordinator.ts`, its port, the worker | the lifecycle's variables, `exec[r]` (the closure of `#execute`: next step, port, race, heartbeat, aborted, evidence, verified), `work[r]` (the external work nobody can observe) |
| `PolicyHistory` | what the policy store promises about a workspace | `stage` (absent, live, retired), `history`: its versions, oldest first |
| `PolicyStore` | `persistence/sqlite.ts`, the table of `policy-ir/state.ts` | `projects` (project rows with their versions and decisions), `retired` (tombstones), `call` (what a call carries from its checks into its transaction) |
| `WorkspaceRetention` | `app/lib/policy-workspace-store.ts` and the routes that create, amend, retire and repair a workspace | the lifecycle's variables, `current` (stored workspaces and their version), `retired` (tombstones), `bound` (what the row of a run is for), `request` (the policy transaction a process is inside of) |
| `WorkerRpc` | `worker-rpc-client.ts`, `worker-rpc-mtls.ts`, `worker-rpc-replay-sqlite.ts` | `request`, `caller` (what `runRepair` waits for), `handler`, `server` and `stamp` (where the connection handler stands, of which supervisor, its last clock reading), `executor` and `startedAt`, `rows` (the replay table), `mode` (how far `close()` has come), `slot` (`activeRepair`) |
| `OwnedContainers` | `live-linux-docker-owned-container.ts` and the daemon | `box` (what the daemon holds), `late` (creations it may still apply), `owner` (`DockerOwnerState`) |
| `StartBarrier` | `linux-start-barrier.ts`, `scripts/role-start-barrier.mjs` | `frames` (the files both sides exchange), `barrier` (the controller) |
| `CgroupHelper` | `linux-cgroup-helper-client.ts` | `cpu` (what the cgroups really used), `helper` (session, status and baseline of each role) |
| `DedicatedLifecycle` | the adapter and `runDedicatedLifecycleCore`; composes the three before | `adapter` (`AdapterState`), `core` (the locals of the core), `todo` (operations still to be done), `aborted`, `faults` |
| `CpuBudget` | `cpu-budget-contract.ts` | `ledger` (the budget ledger and its session) |
| `SupervisorDocker` | `supervisor-docker-driver.ts`, `docker-command-runner.ts` and the daemon | `box`, `late`, `disk` (workspaces), `stray` (a control call that was given up), `handle` |
| `WorkerLifecycle` | `execute` of `worker-os-lifecycle.ts`, over the two before | `life` (latches and locals), `aborted`, `faults`, `runs`, `gap` (history) |
| `VerifierReplay` | `verifier-replay-sqlite.ts` | each transaction as the store it leaves |
| `VerifierExchange` | `verifier-exchange-authority.ts`, `repair-verifier-review-bridge.ts`, over the store | `store`, `issued`, `held` (what a bridge holds), `call` (the transaction a process waits for), `outcomes` |
| `CpuEvidence` | the reader, `live-linux-cgroup-cpu-evidence-v2.ts` | — |
| `CpuEvidenceProducer` | `linux-cgroup-cpu-evidence-producer.ts` | `role`, `events`, `ended` (`#roles`, the transcript, how it ended), `port` (history: what the port answered) |
| `ChallengeLock` | `scripts/local-challenge-lock.mjs` | `active` and `tombstones` (directories), `lockAt`, `own`, `tries` (the caller), `left` (children that outlive their process), `desk` (operators) |
| `RepairOrchestration` | `orchestrate.ts`, `sdk-adapter.ts` | `repair` (stage, attempt, workspace, snapshots and verdicts of each process) |
| `LocalChallenge` | `scripts/local-challenge.mjs`; composes the two before | `final`, `backups` (published evidence), `section`, `faults`, `latest` (history) |
| `PolicyIR` | `policy-ir/`: validation, evaluation, resolution | operators |
| `PolicyArtifacts` | what is computed from a policy: Rego clauses and OPA's answers, cases, differential run, mutants, traceability, impact | operators |
| `RefundFixture` | the seeded policy, its cases, and the programs before and after repair | operators |
| `EvidencePackage`, `LiveEvidence` | `evidence/validate.ts`: what any package, and what one that claims PASS, must hold | operators |
| `EvidencePublisher` | `scripts/generate-offline-evidence.mjs`; live packages, genuine and deviating | operators |
| `EvidenceDownload` | the archive route, its cache and reader, and a publisher, over any packages and any check of them | `directory` (what each piece on the disk is of), `publisher`, `clock`, `request`, `builds`, `active`, `completed` (the cache) |
| `PublishedEvidence` | `EvidenceDownload` over the packages of `EvidencePublisher` and the check of `LiveEvidence` | — |
| `MC*` | instances for TLC | values, symmetry, state constraints |
| `*Proofs` | proofs, section 4 | — |

Refinement and composition: `RepairRunStore` implements `RepairRunLifecycle` under
the mapping `Ledger` at its end, and `PolicyStore` implements `PolicyHistory`
under the mapping `History`. `RepairCoordinator` and `WorkspaceRetention` extend
`RepairRunLifecycle` and use its actions as the ledger's calls, so both are
analysed over exactly the promise that the ledger is shown to keep. `WorkerRpc`
opens up the external work that `RepairCoordinator` leaves as `work[r]`, and
`WorkerLifecycle` what `WorkerRpc` leaves as its executor. `DedicatedLifecycle`
is built from three modules of which each gives its operations twice: by what an
operation does when it returns, and by everything it may have done when it throws.
`WorkerLifecycle` uses `CpuBudget` and `SupervisorDocker` in the same way.
The evidence modules form one chain, from `PolicyIR` to `EvidencePublisher`;
`PublishedEvidence` composes it with `EvidenceDownload`, whose parameters it computes.

Each public method of the stores is an action. A method that reads first and
then opens its transaction is two steps (`BeginSucceed` / `MarkSucceeded`,
`BeginFailure` / `MarkFailed...`, `BeginReconcile` / `FinishReconcile`), and
`createOrGetRun` is up to three (look, reconcile, admit). In the policy store
`appendVersion` and `transitionState` are two steps, their checks and their
transaction; the creations and deletions read and write inside one transaction
and are one. A refused transaction rolls back and only ends the call. In the
coordinator, the lifecycles and the supervisor every call of another part and
every await is a step; timers fire only at awaits, since JavaScript runs a turn
to its end.

### Abstractions

Stores and coordinator:

- Times are an arbitrary set of numbers. A process may read any of them at any
  call, ordered with nothing: that covers clocks that differ and move back.
- Hashes, messages, failure codes and result summaries are dropped; a settlement
  keeps the run and the input it is signed for and whether it passes in full.
  Its completion time is dropped, because every call has a time that fits.
- The random fence token is drawn together with the generation and is
  represented by it. Owner identifiers are random per coordinator: a restarted
  process is a new owner. Reusing the name of the process in the model only adds
  behaviours, and its lease objects are gone after `Crash`.
- The schema migration, the row parsers and the CORRUPTED_STORAGE branches they
  guard are left out; `AuthorityBindsActiveRun` and `HighWaterCoversRuns` say why
  the branches for inconsistent rows are not reached by the program's own writes.
- In the coordinator every ledger call may be refused at any time, and any
  process may fence a run at any time. That is more than the ledger allows and
  stands for expiry, a locked or full file and clock rollback.
- Pruning is not a step of `RepairCoordinator`: it deletes finished runs only,
  and run identifiers there are not reused.
- In the policy store an interpretation is kept as the selection of each of its
  ambiguities (none while open): that is what versions, decisions and lifecycle
  states are checked against. Titles, golden cases and rules are dropped.
- `parent_version` is always the version before, and the row of a decision is
  folded into the version it leads to; one transaction inserts both.
- The storage generation tells the lives of one identifier apart so that a late
  expiry spares a younger workspace. The model may delete a stored workspace at
  any time, whichever generation was compared and whether or not the caller's
  `beforeDelete` agreed: more than the code allows.
- A writer lock that stays busy, and a transaction that fails for other reasons,
  leave what `Crash` leaves.
- `PolicyWorkspaceService` reads a version before it appends. Versions do not
  change, except for their lifecycle state, and `appendVersion` reads the parent
  again; the model starts at that read, with any text, interpretation and decision.
- In `WorkspaceRetention` a workspace may be found older than its 24 hours at any
  time, since each process has its own clock. Storage generations are left out: the
  tombstone of a retired workspace already keeps its identifier from returning. The
  mutation gate is left out, because no handler awaits while it holds it.
- `Abandon` stands for every end of a request that writes no more: the ledger refuses
  or answers with a stored run, an exception rolls the policy transaction back, the
  process dies. What the ledger has committed stays in each case.

Remote execution and lifecycles:

- In `WorkerRpc` frames are whole: a bad, short or late request frame is
  `RefuseFrame`, which is possible at any time while reading. The checks of a
  report and of signatures are a free rejection (`Receive`). A result that the
  executor throws is a `FAIL` that is not signed. `PassSigning` tells the two
  protocol versions apart: version 2 signs only `FAIL`.
- A client object never repeats an identifier and has one call at a time, but a
  second object does not know what the first has used. So any call may carry any
  identifiers, and the memory of the client restricts nothing. A client may hang or
  vanish at any step; a destroyed socket may be noticed after the replay store
  answers, or not yet.
- The supervisors read one clock that does not move back; what a client reads is
  independent of it. `Restart` ends what ran in the process; the containers are
  the matter of `WorkerLifecycle`.
- A Docker command whose CLI was killed may have been applied, or not, or be
  applied later. The arguments and the hardening of containers and files, the
  parsed inspections and the endpoints of a network are left out: a check of them
  may fail, which is a fault. Containers run, use CPU and exit between any two steps.
- An abort in the middle of an operation is a fault of that operation; an abort
  between two operations costs no fault. The usage that `CpuBudget` counts stops one
  unit over the budget, where every further unit decides the same.
- A CPU control call that the driver has given up may still be at work (`stray`).
- In the verifier exchange whether a receipt, a repair or a review fits its
  challenge, beyond its verdict, is one free choice, and the times inside a receipt
  are left out. A challenge is a serial number per attempt. A process has one bridge
  and one authority; uses of the authority without the bridge, and other limits of
  attempts, are covered by `SpoilRetry`. The workspace tree is kept per attempt,
  because every attempt starts from the canonical baseline.
- In the CPU evidence the place of an event stands for its sequence number and its
  timestamp; identities and hashes are left out, because the producer computes them
  with the functions the reader compares with. The reader's form for a rejection
  before execution is left out: the producer never writes it.
- In the orchestration a workspace is five entries, each with what it is and a stamp
  for its modification time. Turns and commands write to it, and something else may
  do so where the program compares trees (`StrayWrite`); a write between the
  hash of the corpus and the snapshot of the review, or between the review and the
  reading of the files that are published (`scripts/local-challenge.mjs:761-765`), is
  left out: the program compares nothing there. What the model says, and
  which time limits it meets, is a free choice.
- In the local challenge process identifiers are reused, a dead process may leave
  children, and an operator who confirms that there are none is believed. The
  isolated login home, run identifiers and the content of evidence are left out.

Policies and evidence:

- A scalar is tagged with its type, texts, labels and offsets are left out, and a
  function that may throw is a set that is empty when it does. The hash that names a
  case is taken as injective.
- A package is a record of its files' contents; a hash stands for its argument and a
  signature for its key and message. Formats of values, byte sizes, the scan for
  credentials and the tar layout are left out; prompts and commands are five of each.
- No program of the repository makes a package that claims PASS. `LiveFiles` is one,
  written after what the checks ask, so the conditions for PASS are satisfiable; the
  thirty-six others differ from it in one claim while all their hashes and their
  attestation are recomputed; one of them passes the check (`sameScreenshotTwice`,
  section 5). A package with an attestation that does not claim PASS
  is checked for the attestation only, as in the code.
- The numbers the partial package reports in the model are those of the repository:
  41 cases, 44 of 47 mutants killed, 16 drifts before and none after.
- The files are grouped in three pieces, in the order in which they are written and
  read. The route's builder is synchronous, so its builds hardly ever overlap; the
  model keeps to the interface of the cache, whose builder may take time. The route
  for a single file validates the whole each time without the cache, and the
  publisher's read-back changes nothing: neither is a step.

## 3. What is checked

| Run | Instance | Bounds and why they suffice |
|---|---|---|
| `store_race` | 2 processes, 2 run identifiers, 2 requests, 2 inputs, 2 clock readings, lease of 1 | Two processes give every pair of conflicting calls; two identifiers a finished and an open run, and reuse after pruning; requests and inputs may match or differ; time 0..1 gives an expired and an unexpired lease and a clock that moves back. `MCShortLogs` bounds the log entries of two stored runs together; a single run is not bounded, so whole executions are among the states. |
| `coordinator` | 2 processes, 2 runs | All orders of timers, settlements, refused calls, fencing and crashes for two runs that compete for admission, and the two temporal properties under `FairSpec`. |
| `policy_store` | 2 processes, two workspaces for one place and a plain project, 3 versions, 1 text, 1 ambiguity with 2 options, 2 clock readings | Three versions let a decision, a plain append and a transition overlap on one chain, and both kinds of identifier be deleted under an open call. `MCBound` stores one project at a time, since projects meet only in the capacity of workspaces, and gives the plain project two versions. Amended texts are left to the proofs. |
| `policy_transition` | one workspace, 2 texts, 2 versions | Expected to be violated: section 5. |
| `retention` | 2 processes, 2 workspaces (capacity 2), 2 runs, 2 versions | A request that retires and one that admits or appends meet on one workspace, with a second one whose runs hold the ledger. The two workspaces fill the capacity; the full case beyond it is in `policy_store`. |
| `worker_rpc` | 2 calls, 2 supervisors, 2 request ids, 2 nonces, times 0..2, RPC timeout and wall time 1, 2 replay rows | Two calls suffice for a replay and for a contest over a slot; ids and nonces may match separately, on one supervisor or two. Times 0..2 with a validity of 1 let a row expire and be pruned between the clock reading of a handler and its transaction. Version 1 signs both results, so version 2 is a subset of its steps. |
| `dedicated_lifecycle` | 3 roles, 2 networks, CPU 0..1 per role, budget 1, 2 faults, 2.2 million states | A unit of CPU decides within, at and over the budget. Two faults give a failure and a failure of the cleanup it starts; an abort and late commands come on top. |
| `worker_lifecycle` | 2 runs on one lifecycle, budget 1, 3 faults, 0.4 million states | A second run finds what the first has left; three faults reach a lost command, its retry and its cleanup. |
| `verifier_exchange` | 2 processes, 2 requests of different expiry, times 0..3, 3 rows, challenge lifetime 1, 1.5 million states | The second request moves the mark past the first one's expiry; both requests with two attempts need four rows, so the store is also full. |
| `cpu_evidence` | readings 0..1, budget 1, 3 samples per role, 2 faults in a containment, 1.0 million states | Readings that repeat, rise and fall, an exceeded budget by two roles together, and a containment that fails and fails again. `MaxEvents` 40 is not reached, 3 samples are. |
| `local_challenge` | 2 processes, 3 starts, 2 operators, 1 failing input or output, 1.4 million states | A run, one that crashes and one that recovers, with a second process that waits; two operators can review one lock. |
| `evidence_download` | 36 deviating packages with one request each; partial then live with 3 requests; live then reissued with 2; attestation age 1, cache lifetime 2, times 0..2, 1.1 million states | Three requests give a builder, a waiter and one with another key; an attestation ends before the cache would let go. |

`MaxGeneration = 2` and `MaxRunsPerSession = 2` are reached, so exhaustion and a
full history are among the states. `MaxVersion` caps the versions of a project;
the proofs hold for every cap. `MaxEventsPerRun` is 12 in the runs, 64 in the
code and any number from 12 in the proofs: a log never needs more. Deadlock
checking is off in `retention`, `cpu_evidence`, `local_challenge` and
`evidence_download`, which end when their workspaces, their session, their starts
or their requests are used up.

Ledger: `OneBlockingRun` (at most one run is active or poisoned);
`AuthorityBindsActiveRun` (the authority row is bound exactly while its run is
active, so every active run has an expiry and recovery has nothing to repair);
`FinishedRunsStand` (late calls, recovery and retention never rewrite a finished run
nor delete a poisoned one); `LogsAreExecutions`, `SuccessHasOwnEvidence`,
`OneRunPerRequest` (what a stored log, a stored success and a retried request may
look like); `ImplementsLifecycle` (the refinement).

Coordinator: `BusyWorkHoldsLatch` (while a worker may still be busy its run is
running, awaiting cleanup or poisoned, so nothing else is admitted);
`ClosedRunsWereTornDown` (success, failure and blocking need a worker that is not
busy); `NoProgressAfterReturn` (no port keeps recording for an execution that
returned); `AdmittedRunsEnd`, `ExecutionsReturn` (liveness).

Policy store: `VersionsFormOneChain` (the current version ends a chain without gaps,
although it is looked up before the transaction; in a workspace its times do not run
backwards. In a plain project they may: a deletion and a creation between check and
transaction replace the parent whose time was compared); `DecisionsReproduce` (what
`listDecisionRecords` demands when it reads; one decision that fails it would make
every later read of the project fail); `ImplementsHistory` (the refinement);
`OnlyCurrentVersionTransitions` (what the code says and does not keep).

Retention: `RunsHaveTheirWorkspace` (no crash or exception between the two commits,
and no request of another process, leaves a run without its workspace);
`RunsUseTheCurrentVersion` (a run is admitted and started for the version that is
current at that moment).

Remote execution: `OneExecutionPerCapability` (while an executed request is valid, no
other request with its id or its nonce is executed by any supervisor of the replay
file, across restarts, although the store compares with a time read before it had the
lock); `SlotHasOneOwner` (no refusal, abort or failure leaks the repair slot, and none
gives it back while its executor still runs); `AcceptedWorkIsOver` (an accepted result
is one of work that has ended, in time, although deadline, disconnection and `close()`
race with the executor).

Lifecycles: `AccountedExecution` (no role executes before its baseline is taken);
`VerifierAlone` and `Isolated` (the verifier runs when worker and proxy are gone; no
completed run had a worker without its proxy); `ReleasedOnlyWhenAbsent` (no cgroup is
let go, and the helper is not terminated, while a container is there or may still be
created); `ResultIsTrue` and `ReusedOnlyWhenClean` (a result that claims a complete
cleanup is right about the daemon, late commands included, and a completed run about
its CPU); `AbortEnds` (in an aborted run a step of the core is always possible and
every one leaves less to do, so that it ends); `CallsSettle` (every call of `execute`
settles).

Verifier exchange: `OneOutcomePerRequest` (whatever processes carry a request, however
they die, their clocks differ and the store prunes); `EvidenceStands` (a retry follows
an admitted failure, and a result its receipt).

CPU evidence: `ReaderAcceptsProducer`, `QuietExactlyWhenClaimed`, `UsageIsAccounted`
(producer and reader agree; quiet is claimed exactly when seen; no CPU is lost).

Local challenge: `SectionHasOneProcess` (whoever works owns the lock, alone, with no
child of a dead run at work); `EvidenceSurvives` (the evidence validated last is in
its place or in a backup); `PassIsEarned` (a PASS is about the workspace as it is).

Evidence: `CompiledPolicyDecides` (the compiled clauses decide each complete request
as the reference evaluator does, by one clause, and an incomplete one not at all; for
the seeded policy and two with negated conjunctions and disjunctions);
`ServedIsGenuine` (served files are those of one package that may be served, whatever
the publisher did meanwhile: a genuine one, or the one that section 5 tolerates);
`FreshWhenServed` (neither the cache's lifetime nor the attestation had ended);
`RequestsAreAnswered`.

### Fairness

`RepairCoordinator` assumes (`FairSpec`) weak fairness of the coordinator's own
steps, of the wall-time limit and of expiry, per run.

- Coordinator steps are promise reactions and the settlement timer of a live
  process: the event loop runs them. A step may still be a refusal.
- `Timeout` is a `setTimeout` that nothing clears while the race is open.
- `ExpireLease` is fair only while no heartbeat renews the lease. It stands for
  the clock *and* for a client that still asks: no sweeper exists, so without any
  GET, POST or open event stream an abandoned run would stay as it is. This is an
  assumption about clients, and `AdmittedRunsEnd` depends on it.
- The port, the worker, heartbeat failures and crashes are not fair.

`DedicatedLifecycle` assumes it of the core's steps: Docker commands, helper requests,
the hold of a barrier and each cleanup operation have a time limit of their own. (The
one property about progress there, `AbortEnds`, does not use it.)

`WorkerLifecycle` assumes it of the abort (the wall-time limit is a timer) and of the
lifecycle's steps (`MustSettle`). Docker commands and CPU control calls have limits of
their own, and the cleanup has one as a whole. The configuration and the workspace
controller, which the caller of the driver supplies, have none
(`supervisor-docker-driver.ts:1139`, `1152`, `1243`): they may stay open for as long as
the signal is not aborted, and are assumed to settle once it is. A controller that
ignores its signal would keep the call open for good, and `CallsSettle` does not hold
for it.

Nothing is assumed of containers, the daemon or the helper. `EvidenceDownload` assumes that the
event loop serves each request, and nothing of the publisher. The other
specifications are without fairness.

## 4. What is proved

All safety properties of the ledger, the coordinator, the policy store, the retention,
the remote execution, the supervised and the dedicated lifecycle, the verifier exchange,
the CPU evidence, the local challenge and the evidence download, but for the one that
section 5 refutes, are theorems for arbitrary constants, and so are type invariants and
three properties that no run repeats: `HighWaterCoversRuns` (no run is ahead of the
clock high water, so the file opens again after a crash at any step),
`NoOverlappingWork` (two workers are never busy together) and `ClosedIsQuiet` (when a
supervisor's `close()` has returned nothing runs, and nothing starts).

Assumptions: times are natural numbers, the lease duration is positive, a log may hold
at least 12 entries, `PolicyOf` is a function, and `None` is neither a process nor a
run; in the policy store, workspaces are identifiers, capacity and the version cap are
natural numbers, and `None` is not an option, an interpretation or a decision, and in
the retention it is not the binding of a run; in the remote execution, the timeouts, the
clock skew and the capacity are natural numbers and `None` is neither a time nor a
supervisor; in the verifier exchange, every request has an expiry, the capacity is a
natural number and the lifetime of a challenge is positive. In the dedicated lifecycle
the budget is a natural number and the most CPU of a role a positive one, in the
supervised one the budget and the number of runs are positive, and in both the number of
failures is a natural number. In the CPU evidence the budget is positive, the bounds of
readings, samples and events are natural numbers, and `None` is neither a number nor a
failure code. The local challenge assumes nothing. In the evidence download the cache's
lifetime is positive, whatever is published has no piece that looks absent
(`PiecesAssumption`), and a live package that is accepted has an expiry
(`ExpiryAssumption`); TLC evaluates both for the packages of `EvidencePublisher`. There
is no bound on processes, operators, runs, sessions, projects, versions, requests,
generations, failures, CPU, samples, events or packages beyond the parameters.

One theorem has a hypothesis of its own: `ServedIsGenuineHolds` takes from
`CheckIsExact` that the check of a build accepts nothing but a package of `Genuine`, and
so no mixture of two. What the check accepts is computed by recursive
operators, so this half stays with TLC: the run `evidence_download` publishes the
genuine packages and those that deviate from one, and checks `ServedIsGenuine` without
the hypothesis.

| Module | Theorems | Argument |
|---|---|---|
| `RepairRunStoreProofs` | `LedgerTypeCorrect`, `AdmissionIsSingleFlight`, `AuthorityFollowsActiveRun`, `HighWaterIsAhead`, `FinishedRunsAreFinal` | `OneBlockingRun` alone is not inductive: a closing transition is safe only if its lease is the one of the active run, and recovery only if nothing else is active. `IInv` therefore joins the types, `AuthorityBindsActiveRun`, `OneBlockingRun` and `HighWaterCoversRuns`. One lemma per transaction says what it does to runs and authority; the step theorem has one case per action. |
| `RepairRunStoreProofs`, second part | `LogsAreAlwaysExecutions`, `SuccessAlwaysHasOwnEvidence`, `RequestsShareOneRun` | What a call read before its transaction must still hold inside it. `HistoryInv` adds that a lease's generation is not ahead of the authority row (so an old lease never matches a newer run), and, for each open closing call whose lease still matches, that the run is as the call saw it (`MarkHolds`). |
| `RepairRunStoreProofs`, third part | `LedgerKeepsItsPromise` | Initial states map to initial states; each transaction maps to one lifecycle action or a stutter. The hard case is `MarkSucceeded`: the eight recorded phase events follow from `MarkHolds` and `LogsAreExecutions`. |
| `RepairCoordinationProofs` | `CoordinatorTypeCorrect`, `BusyWorkAlwaysHoldsLatch`, `WorkNeverOverlaps`, `ClosedRunsAreTornDown`, `NoProgressOnceReturned`, `CoordinatorUsesLedger` | The module opens with lemmas on the promise, which both its users cite. `CoordinatorInv` joins the types, `OneClosingRun`, and a per-run invariant that relates where `#execute` and the port stand, the status of the run and the work. It must say that evidence, or a verified settlement, exists only when the worker is clean, and that a run whose port has not yet called has no work. |
| `PolicyStoreProofs` | `PolicyTypesHold`, `ChainHolds`, `DecisionsHold` | An append validated outside its transaction is safe only if its parent cannot change before it. `IInv` adds `PendingAppendsFit`: the workspace of a pending append is retired or still holds a parent that the append fits. That holds because versions keep their content, an append succeeds only on the current version, and a retired workspace does not return (`RetiredAreGone`); without tombstones it fails, as the mutant `CanCreateIgnoringTombstone` shows. |
| `PolicyStoreProofs`, second part | `StoreKeepsHistories` | Each transaction maps to opening, extending or retiring one workspace, or to a stutter: checks, transitions and plain projects are invisible. The case of `AppendVersion` takes what follows the last version from `PendingAppendsFit`. |
| `RepairCoordinationProofs`, second part | `RetentionTypeCorrect`, `NoRunLosesItsWorkspace`, `RunsAreForTheCurrentVersion`, `RetentionUsesLedger` | No transaction spans the two databases; the writer lock of the policy file, held across the ledger call, does. `RetentionInv` adds to `RunsHaveTheirWorkspace` that one request at most is inside a policy transaction (`OneWriter`) and that what this request read is still so (`RequestFits`): a workspace about to be deleted has no run, and one about to get a run is stored at the version read. |
| `WorkerSupervisorProofs` | `RpcTypesHold`, `EachCapabilityRunsOnce`, `SlotIsNeverLeaked`, `ClosedStaysQuiet`, `AcceptedResultsAreOver` | The row of an admitted request stays until some supervisor reads a time not before its expiry (`RowsCoverAdmissions`), and the clock does not move back. So of two admitted requests that share an identifier one has expired (`AdmissionsExclude`), and the second look at the window stops whichever starts late. `CallsFit` relates the two ends of a call to its executor and its clock readings. |
| `WorkerSupervisorProofs`, second part | `LifecycleInvariant`, `CallsLeaveACleanDriver`, `VerifierRunsAlone` | What the driver does not know of is settled: absent, with no command on its way (`HandleKnows`). `RunFits` says for each position of the program what must be there and what must be gone; `CleanupFits` says for each step of the cleanup what is settled by then, unless a failed proof has already poisoned the call. `IdleFits`, what the next call finds, is what its first step needs, so the argument goes round over any number of runs. |
| `DedicatedLifecycleProofs` | `DedicatedInvariant`, `HelperLetsGoLast`, `VerifierRunsLast`, `EveryExecutionIsBilled`, `ResultsAreTrue` | Five parties act, and each keeps its own account. `LifecycleInv` ties the position of the core in its program (`PositionFits`) to what has been done by then and what has not (`DoneBy`, `OpenAt`), and each account to the next: a cgroup let go is one whose container the owner calls removed, what is called removed is absent and not unresolved, and the daemon creates late only what is unresolved. So "released" carries through to "gone for good". An execution needs a release frame, which is written after the baseline (`Accounted`). In failure the order of the program is lost; what remains is that most steps only stop, remove or let go (`Calm`), that a failed cleanup is remembered (`sticky`), and that an operation is skipped only when its work was done (`SkippedWasDone`). |
| `VerifierExchangeProofs` | `ExchangeIsTyped`, `RequestsHaveOneOutcome`, `EvidenceAlwaysStands` | At most one process carries a request (`OneCarrier`), and while one does, or once there is a result, the store remembers the first attempt or its mark is past the request's expiry (`Remembered`). A new first challenge needs a time between the two, so a remembered request gets none. `Keeps` says of each transaction that it forgets nothing else: that is what pruning by the expiry of requests is for. `CallsFit` carries the checks of a bridge into its transaction, and `HeldHaveReceipts` what it holds to its result. |
| `LocalChallengeProofs` | `ChallengeInvariant`, `OneProcessInSection`, `LatestEvidenceSurvives`, `PassesAreEarned` | Three invariants, of which each needs the one before. `LockInv`: nonces are never used twice, and an operator retires only a lock that nobody alive holds, so the lock a process published is the one in place until it lets go. `EvidenceInv`: whoever is in the section is alone with the backups, and at each place between two renames the latest evidence is in its place or in a backup. `RepairInv`: at each stage, which of workspace, report and built program agree, so that what a PASS was said of is what is there. |
| `EvidenceProofs` | `DownloadInvariant`, `FreshWhenServedHolds`, `ServedIsGenuineHolds` | A request is served its own key (`RequestFits`), from an entry that some build accepted and whose attestation had not ended when it was built (`Sound`). The cache, a build in progress and a served request all hold sound entries; `IsUsable` adds that the entry is usable when it is taken, which is not before the request asked. |
| `EvidenceProofs`, second part | `ReaderAcceptsTheProducer`, `QuietIsClaimedTruly`, `NoUsageIsLost` | Producer and reader were written apart, and the reader has only the transcript. `Told` says that the transcript tells of each role what its record says and nothing else; each step of a call appends one event and keeps that (`RoleStep`), so nothing need be computed over the whole transcript. `SessionInv` adds, while the session is open (`OpenInv`), that nothing has failed, that the first sample of a role is before its execution and its last after it (`Bracketed`), that the roles ran in their order (`InTurn`), and that the records are what the port read (`PortAgrees`). Whatever ends the session appends to such a transcript. A containment is followed step by step (`ContainKeeps`), and each check of the reader is then made on the records: of a failure (`FailureParses`) and of a session that ran to its end (`SuccessParses`). |

Only model-checked, and why:

- Liveness (`AdmittedRunsEnd`, `ExecutionsReturn`, `CallsSettle`, `RequestsAreAnswered`)
  and `AbortEnds`, which says that a step is always possible: fairness and ENABLED are
  out of the prover's reach.
- `CompiledPolicyDecides` and whether a package is valid: recursive operators over
  conditions and files.

## 5. Findings

**`OnlyCurrentVersionTransitions`** (`persistence/sqlite.ts:1458`).
`transitionState` refuses a version that is not current with "Only the current
policy version may transition state." (line 1448), but before its transaction. The
transaction compares the lifecycle state alone. Two processes: one passes the check
for version 1, the other appends version 2, then version 1 takes the transition. The
project's update time is compared outside too and may move back with it. Nothing in the
product calls the method yet, so the flaw waits for its first caller. Reading the
current version inside the transaction closes it.

Consequences of the design, met while modelling and worth knowing:

Stores.

- An append that loses a race fails on the primary key of the INSERT
  (`persistence/sqlite.ts:1369`) before the comparison at line 1405 can answer
  `STALE_VERSION`: the caller gets `STORAGE_FAILURE`. No data is harmed.
- A heartbeat reads the clock before it waits for the writer lock; when another
  process commits a later reading in between, the heartbeat is refused as a clock
  rollback and a healthy run is poisoned (safe, but final until an operator acts).
- An abandoned run ends only when some client asks.
- A plain project that is deleted and created again between the checks and the
  transaction of a decision can store a decision that no longer reproduces. The
  product creates workspaces only, whose tombstones rule this out.
- Selections are compared with the version just before. An uninterpreted version in
  between lets the same text come back with other selections and no decision, and
  `FollowsSilently` says so.
- The replay store of the supervisors forgets a request at its last instant
  (`worker-rpc-replay-sqlite.ts` compares with `<=`), which `validateRequestWindow`
  still admits (it compares with `<`). `OneExecutionPerCapability` therefore excepts an
  execution that starts in the last instant of its own request.
- The same store keeps no high water of its clock: one reading far ahead prunes
  requests that are valid again when the clock is set back. The ledger and the
  verifier's store do keep one.

Lifecycles and CPU evidence.

- A container of the supervised lifecycle whose start was applied but never observed
  has no observed process ids, so its process tree is not looked at in the cleanup
  although `processTreeReaped` is reported true.
- A failure reported as `CPU_BUDGET_EXCEEDED` at or under the budget, or as
  `CONTAINMENT_ACTION_FAILED` when no action failed, is contained, but its evidence is
  refused by the reader and the session is poisoned. `ReaderAcceptsProducer` excepts
  these two.
- At the limit of 1024 samples the sample of a stop poisons the session. If the clock
  fails, or the signal is aborted, before the failure is written down, no containment
  is attempted.

Repair and evidence.

- `sameStringSet` (`evidence/validate.ts:371`) compares lengths and looks for each item
  of the left list in the right one. The lists it gets are free of repetitions but for
  one: the hashes derived from the screenshots in the browser details (line 1502). A
  package whose details hold one picture under two names, and whose summary names its
  hash and another that no picture has, passes a check whose message says that the
  hashes are derived from the pictures. `ServedIsGenuine` tolerates this one
  (`ToleratedPackages`); without the exception TLC finds it served, and none of the
  other packages.
- With typed edits (`prompts/repair.v1.md:5`) a second attempt cannot succeed: it
  writes the identical test file again, which is a change of metadata only and makes
  the repair invalid, although line 9 of the prompt asks for a second one.
- A crash of the local challenge between promotion and the end of the removal of the
  backup, or a removal that fails, blocks further runs with "manual recovery". A crash
  leaves the lock until an operator retires it.
- Two ambiguities of precedence that share rules: deciding the second can swap back
  what the first decided (`policy-ir/resolve.ts:118-126`).
- Each mutant of a policy is parsed, so deleting the only rule, or one that an open
  ambiguity patches, makes the whole mutation suite throw. The evidence uses resolved
  policies, where this does not occur.

## 6. Plan

Done, in this order: the ledger with its promise and refinement; the coordinator; the
policy store with its promise and refinement; the retention; the remote execution; the
dedicated lifecycle; the supervised lifecycle; the verifier exchange; the CPU
evidence; the local challenge; the policy algorithms, the evidence package and its
download. Proofs of the safety of all of these but the policy algorithms.

Left, in order of worth:

1. `WorkerRpc` as a port of `RepairCoordinator`: its steps map to those of `work[r]`.
2. The event stream and its page: a cursor, two reads per poll (events, then status),
   a slow GET that answers after the stream moved on, and reconnection.
3. The native helper at the other end of the pipe, and the egress proxy's account of
   open connections and bytes.

## 7. Not modelled, and why

- Interpreter, user interface, build and submission scripts: calls of an external
  model, rendering and tooling, without a protocol of their own.
- Contracts of the verifier exchange, request checks, most of the worker RPC contract:
  parsers and canonical digests without state, of which the models take the verdict
  as a choice.
- The CPU proof of the live lifecycle: one immutable record built from evidence that
  has been parsed.
- The isolated repair worker wraps the same orchestration in signed evidence.
- The egress proxy: socket plumbing under fixed limits; see the plan.
- The idempotent answers of the workspace service, the cursor and the page of the
  event stream, migrations of older files, and what "Abstractions" names.
- The external model, the OPA process, Docker, the kernel's cgroups and the native
  helper are outside; the modules represent them by the answers the code handles.
