---------------------- MODULE DedicatedLifecycleProofs ----------------------
(***************************************************************************)
(* The safety of the dedicated lifecycle, for every budget, every amount of*)
(* CPU and every number of failures.  The inductive invariant says what the*)
(* owner, the helper, the adapter and the core hold of each other in every *)
(* state, and, for a position in the program of the core, what has been    *)
(* done by then.                                                           *)
(***************************************************************************)
EXTENDS DedicatedLifecycle, TLAPS

Step(op, r) == [op |-> op, role |-> r]

Operation ==
  [op : {"createOwnedContainers", "startRoleHeld", "waitRoleBarrierHeld",
         "bindRoleIdentityAndCgroup", "readRoleBaseline", "releaseRoleBarrier",
         "observeUntilRoleExit", "executionObserved", "sampleRole", "stopOrContainRole",
         "readQuiescentSample", "releaseRoleDocker", "releaseRoleCgroup", "finishRoleCleanup",
         "requireCleanup", "stopController", "return"},
   role : {"egress", "worker", "verifier", "all"}]

-----------------------------------------------------------------------------
(* The owner and the daemon.                                               *)

BoxStates == {"absent", "created", "starting", "held", "executing", "exited", "failed"}

OwnerTypes ==
  /\ box \in [Resources -> BoxStates]
  /\ late \subseteq Resources
  /\ owner = [f \in {"known", "unresolved", "removed", "created"} |-> owner[f]]
  /\ owner.known \subseteq Resources /\ owner.unresolved \subseteq Resources
  /\ owner.removed \subseteq Resources /\ owner.created \in BOOLEAN

\* What the daemon may still create is unresolved, and not there yet; what the owner
\* calls removed is gone for good; and an owner that finished its creations has nothing
\* unresolved.
OwnerFits ==
  /\ OwnerTypes
  /\ \A x \in late : box[x] = "absent" /\ x \in owner.unresolved
  /\ \A x \in owner.removed : box[x] = "absent" /\ x \notin owner.unresolved
  /\ owner.created => owner.unresolved = {}

-----------------------------------------------------------------------------
(* The barrier, the helper and the adapter.                                *)

BarrierFits ==
  /\ frames = [f \in {"held", "release"} |-> frames[f]]
  /\ barrier = [f \in {"status", "destroyed"} |-> barrier[f]]
  /\ frames.release \subseteq Roles

RoleStatus == {"NONE", "BOUND", "ACTIVE", "FROZEN", "KILL_SENT", "QUIESCENT", "RELEASED"}

HelperTypes ==
  /\ cpu \in [Roles -> Nat]
  /\ helper = [f \in {"session", "status", "baseline"} |-> helper[f]]
  /\ helper.session \in {"open", "poisoned", "stopped", "terminated"}
  /\ helper.status \in [Roles -> RoleStatus] /\ helper.baseline \in [Roles -> Nat]

HelperFits ==
  /\ HelperTypes
  /\ \A r \in Roles : helper.status[r] = "RELEASED" => r \in owner.removed
  /\ helper.session = "terminated" => Resources \subseteq owner.removed

AdapterTypes ==
  /\ adapter = [f \in {"owned", "bound", "reobserved", "released", "receipt", "cgroup", "stopped"}
                  |-> adapter[f]]
  /\ adapter.bound \subseteq Roles /\ adapter.receipt \subseteq Roles
  /\ adapter.cgroup \subseteq Roles /\ adapter.stopped \in BOOLEAN

\* A bound role stays known to the helper, a receipt is one of a removal, and a bound role
\* whose cgroup the adapter let go of was released by the helper.
AdapterFits ==
  /\ AdapterTypes
  /\ \A r \in adapter.bound : helper.status[r] # "NONE"
  /\ adapter.receipt \subseteq owner.removed
  /\ adapter.cgroup \subseteq adapter.receipt
  /\ \A r \in adapter.cgroup \cap adapter.bound : helper.status[r] = "RELEASED"

-----------------------------------------------------------------------------
(* The core.                                                               *)

CoreFields ==
  {"phase", "result", "failure", "stages", "started", "active", "docker", "cgroup", "baseline",
   "latest", "record", "thrown", "sticky", "stopped", "forced", "hung"}
CoreShape(c) == c = [f \in CoreFields |-> c[f]]

CoreTypes ==
  /\ CoreShape(core)
  /\ core.phase \in {"running", "terminal", "done"}
  /\ core.result \in {"none", "COMPLETED", "FAILED", "FATAL"}
  /\ core.started \subseteq Roles /\ core.cgroup \subseteq Roles
  /\ core.baseline \in [Roles -> Int] /\ core.latest \in [Roles -> Int]
  /\ core.thrown \in BOOLEAN /\ core.sticky \in BOOLEAN /\ core.stopped \in BOOLEAN
  /\ core.hung \in BOOLEAN

\* A release frame is written when its role is started, bound and read.
Accounted(r) ==
  r \in core.started /\ r \in adapter.bound /\ core.baseline[r] = helper.baseline[r]

\* The adapter stopped the controller, with nothing left.
StoppedWell ==
  /\ adapter.stopped /\ Resources \subseteq owner.removed
  /\ helper.session = "stopped" /\ BoundRoles = {} /\ barrier.destroyed

Clean == box["verifier"] \in {"absent", "created"}

\* The last sample of a role that will not run any more.
Final(r) == core.latest[r] = cpu[r] /\ box[r] \notin RunningStates \cup {"created"}

CoreFits ==
  /\ CoreTypes
  /\ core.result # "none" <=> core.phase = "done"
  /\ core.phase = "done" => ~core.hung
  /\ core.cgroup \subseteq adapter.cgroup
  /\ \A r \in core.started : box[r] # "created" /\ owner.created
  /\ \A r \in Roles : box[r] = "executing" => r \in frames.release
  /\ \A r \in Roles : r \in frames.release => Accounted(r)
  /\ core.stopped => StoppedWell
  /\ ~Clean => helper.status["worker"] = "RELEASED" /\ helper.status["egress"] = "RELEASED"
  /\ core.result = "COMPLETED" \/ (core.result = "FAILED" /\ ~core.sticky) => core.stopped
  /\ core.result = "COMPLETED" =>
       /\ CumulativeCpu(core.latest) <= Budget
       /\ \A r \in Roles : Final(r) /\ core.baseline[r] = helper.baseline[r]

-----------------------------------------------------------------------------
(* The position.                                                           *)

SetupAt(r) == IF r = "egress" THEN 2 ELSE IF r = "worker" THEN 7 ELSE 25
CleanupAt(r) == IF r = "worker" THEN 14 ELSE IF r = "egress" THEN 19 ELSE 32

\* What is left of a program from a position in it.
RestOf(s, program, p) ==
  /\ p \in 1..Len(program)
  /\ Len(s) = Len(program) + 1 - p
  /\ \A i \in 1..Len(s) : s[i] = program[p + i - 1]

\* In a round of samples some come before it.
SamplesThenRest(s, p) ==
  \E n \in 0..3 :
    /\ p \in 1..Len(SuccessProgram)
    /\ Len(s) = n + Len(SuccessProgram) + 1 - p
    /\ \A i \in 1..n : s[i].op = "sampleRole"
    /\ \A i \in (n + 1)..Len(s) : s[i] = SuccessProgram[p + i - 1 - n]
    /\ n > 0 => p \in {12, 13, 30, 31}

Cleaning == {"stopOrContainRole", "readQuiescentSample", "releaseRoleDocker", "releaseRoleCgroup",
             "finishRoleCleanup", "stopController"}

\* What has been done when the success path has come to a position.
DoneBy(p) ==
  /\ p > 1 => owner.created
  /\ \A r \in Roles :
       /\ p > SetupAt(r) => r \in core.started
       /\ p > SetupAt(r) + 2 => r \in adapter.bound
       /\ p > SetupAt(r) + 3 => core.baseline[r] = helper.baseline[r]
       /\ p > CleanupAt(r) + 1 /\ ~core.sticky => Final(r)
       /\ p > CleanupAt(r) + 3 /\ ~core.sticky => r \in core.cgroup
  /\ p > 24 => "worker" \in core.cgroup /\ "egress" \in core.cgroup
  /\ p > 33 /\ ~core.sticky =>
       (p < 37 /\ core.thrown) \/ CumulativeCpu(core.latest) <= Budget

\* What has not.
OpenAt(p) ==
  /\ p = 1 => late = {} /\ core.started = {} /\ core.cgroup = {}
              /\ owner = [known |-> {}, unresolved |-> {}, removed |-> {}, created |-> FALSE]
              /\ box = [x \in Resources |-> "absent"]
  /\ \A r \in Roles : p <= CleanupAt(r) + 3 => r \notin core.cgroup

Reached(p) == DoneBy(p) /\ OpenAt(p)

InSuccess == \E p \in 1..39 : SamplesThenRest(todo, p) /\ Reached(p)
InTerminal ==
  \E p \in 1..17 : RestOf(todo, TerminalProgram, p) /\ (p = 17 => core.stopped \/ core.sticky)

PositionFits ==
  /\ todo \in Seq(Operation)
  /\ core.phase = "running" => InSuccess
  /\ core.phase = "terminal" => InTerminal
  /\ core.hung => todo[1].op \in Cleaning

LifecycleInv == OwnerFits /\ BarrierFits /\ HelperFits /\ AdapterFits /\ CoreFits /\ PositionFits

-----------------------------------------------------------------------------
(* The constants of the program.                                           *)

LEMMA RoleNames ==
  /\ Roles = {"egress", "worker", "verifier"}
  /\ Networks = {"worker-network", "outbound-network"}
  /\ Resources = {"egress", "worker", "verifier", "worker-network", "outbound-network"}
BY DEF Roles, Networks, Resources, RoleOrder, NetworkOrder, ToSet

LEMMA SuccessSteps ==
  /\ Len(SuccessProgram) = 39
  /\ SuccessProgram[1] = Step("createOwnedContainers", "all")
  /\ SuccessProgram[2] = Step("startRoleHeld", "egress")
  /\ SuccessProgram[3] = Step("waitRoleBarrierHeld", "egress")
  /\ SuccessProgram[4] = Step("bindRoleIdentityAndCgroup", "egress")
  /\ SuccessProgram[5] = Step("readRoleBaseline", "egress")
  /\ SuccessProgram[6] = Step("releaseRoleBarrier", "egress")
  /\ SuccessProgram[7] = Step("startRoleHeld", "worker")
  /\ SuccessProgram[8] = Step("waitRoleBarrierHeld", "worker")
  /\ SuccessProgram[9] = Step("bindRoleIdentityAndCgroup", "worker")
  /\ SuccessProgram[10] = Step("readRoleBaseline", "worker")
  /\ SuccessProgram[11] = Step("releaseRoleBarrier", "worker")
  /\ SuccessProgram[12] = Step("observeUntilRoleExit", "worker")
  /\ SuccessProgram[13] = Step("executionObserved", "worker")
  /\ SuccessProgram[14] = Step("stopOrContainRole", "worker")
  /\ SuccessProgram[15] = Step("readQuiescentSample", "worker")
  /\ SuccessProgram[16] = Step("releaseRoleDocker", "worker")
  /\ SuccessProgram[17] = Step("releaseRoleCgroup", "worker")
  /\ SuccessProgram[18] = Step("finishRoleCleanup", "worker")
  /\ SuccessProgram[19] = Step("stopOrContainRole", "egress")
  /\ SuccessProgram[20] = Step("readQuiescentSample", "egress")
  /\ SuccessProgram[21] = Step("releaseRoleDocker", "egress")
  /\ SuccessProgram[22] = Step("releaseRoleCgroup", "egress")
  /\ SuccessProgram[23] = Step("finishRoleCleanup", "egress")
  /\ SuccessProgram[24] = Step("requireCleanup", "all")
  /\ SuccessProgram[25] = Step("startRoleHeld", "verifier")
  /\ SuccessProgram[26] = Step("waitRoleBarrierHeld", "verifier")
  /\ SuccessProgram[27] = Step("bindRoleIdentityAndCgroup", "verifier")
  /\ SuccessProgram[28] = Step("readRoleBaseline", "verifier")
  /\ SuccessProgram[29] = Step("releaseRoleBarrier", "verifier")
  /\ SuccessProgram[30] = Step("observeUntilRoleExit", "verifier")
  /\ SuccessProgram[31] = Step("executionObserved", "verifier")
  /\ SuccessProgram[32] = Step("stopOrContainRole", "verifier")
  /\ SuccessProgram[33] = Step("readQuiescentSample", "verifier")
  /\ SuccessProgram[34] = Step("releaseRoleDocker", "verifier")
  /\ SuccessProgram[35] = Step("releaseRoleCgroup", "verifier")
  /\ SuccessProgram[36] = Step("finishRoleCleanup", "verifier")
  /\ SuccessProgram[37] = Step("requireCleanup", "all")
  /\ SuccessProgram[38] = Step("stopController", "all")
  /\ SuccessProgram[39] = Step("return", "all")
<1>1. Len(SuccessProgram) = 39
  BY DEF SuccessProgram, SetupRole, CleanupRole, Observe, Do
<1>2. /\ SuccessProgram[1] = Step("createOwnedContainers", "all")
     /\ SuccessProgram[2] = Step("startRoleHeld", "egress")
     /\ SuccessProgram[3] = Step("waitRoleBarrierHeld", "egress")
     /\ SuccessProgram[4] = Step("bindRoleIdentityAndCgroup", "egress")
     /\ SuccessProgram[5] = Step("readRoleBaseline", "egress")
     /\ SuccessProgram[6] = Step("releaseRoleBarrier", "egress")
     /\ SuccessProgram[7] = Step("startRoleHeld", "worker")
     /\ SuccessProgram[8] = Step("waitRoleBarrierHeld", "worker")
     /\ SuccessProgram[9] = Step("bindRoleIdentityAndCgroup", "worker")
     /\ SuccessProgram[10] = Step("readRoleBaseline", "worker")
     /\ SuccessProgram[11] = Step("releaseRoleBarrier", "worker")
     /\ SuccessProgram[12] = Step("observeUntilRoleExit", "worker")
     /\ SuccessProgram[13] = Step("executionObserved", "worker")
  BY DEF SuccessProgram, SetupRole, CleanupRole, Observe, Do, Step
<1>3. /\ SuccessProgram[14] = Step("stopOrContainRole", "worker")
     /\ SuccessProgram[15] = Step("readQuiescentSample", "worker")
     /\ SuccessProgram[16] = Step("releaseRoleDocker", "worker")
     /\ SuccessProgram[17] = Step("releaseRoleCgroup", "worker")
     /\ SuccessProgram[18] = Step("finishRoleCleanup", "worker")
     /\ SuccessProgram[19] = Step("stopOrContainRole", "egress")
     /\ SuccessProgram[20] = Step("readQuiescentSample", "egress")
     /\ SuccessProgram[21] = Step("releaseRoleDocker", "egress")
     /\ SuccessProgram[22] = Step("releaseRoleCgroup", "egress")
     /\ SuccessProgram[23] = Step("finishRoleCleanup", "egress")
     /\ SuccessProgram[24] = Step("requireCleanup", "all")
  BY DEF SuccessProgram, SetupRole, CleanupRole, Observe, Do, Step
<1>4. /\ SuccessProgram[25] = Step("startRoleHeld", "verifier")
     /\ SuccessProgram[26] = Step("waitRoleBarrierHeld", "verifier")
     /\ SuccessProgram[27] = Step("bindRoleIdentityAndCgroup", "verifier")
     /\ SuccessProgram[28] = Step("readRoleBaseline", "verifier")
     /\ SuccessProgram[29] = Step("releaseRoleBarrier", "verifier")
     /\ SuccessProgram[30] = Step("observeUntilRoleExit", "verifier")
     /\ SuccessProgram[31] = Step("executionObserved", "verifier")
  BY DEF SuccessProgram, SetupRole, CleanupRole, Observe, Do, Step
<1>5. /\ SuccessProgram[32] = Step("stopOrContainRole", "verifier")
     /\ SuccessProgram[33] = Step("readQuiescentSample", "verifier")
     /\ SuccessProgram[34] = Step("releaseRoleDocker", "verifier")
     /\ SuccessProgram[35] = Step("releaseRoleCgroup", "verifier")
     /\ SuccessProgram[36] = Step("finishRoleCleanup", "verifier")
     /\ SuccessProgram[37] = Step("requireCleanup", "all")
     /\ SuccessProgram[38] = Step("stopController", "all")
     /\ SuccessProgram[39] = Step("return", "all")
  BY DEF SuccessProgram, SetupRole, CleanupRole, Observe, Do, Step
<1> QED
  BY <1>1, <1>2, <1>3, <1>4, <1>5

LEMMA TerminalSteps ==
  /\ Len(TerminalProgram) = 17
  /\ TerminalProgram[1] = Step("stopOrContainRole", "verifier")
  /\ TerminalProgram[2] = Step("readQuiescentSample", "verifier")
  /\ TerminalProgram[3] = Step("releaseRoleDocker", "verifier")
  /\ TerminalProgram[4] = Step("releaseRoleCgroup", "verifier")
  /\ TerminalProgram[5] = Step("finishRoleCleanup", "verifier")
  /\ TerminalProgram[6] = Step("stopOrContainRole", "worker")
  /\ TerminalProgram[7] = Step("readQuiescentSample", "worker")
  /\ TerminalProgram[8] = Step("releaseRoleDocker", "worker")
  /\ TerminalProgram[9] = Step("releaseRoleCgroup", "worker")
  /\ TerminalProgram[10] = Step("finishRoleCleanup", "worker")
  /\ TerminalProgram[11] = Step("stopOrContainRole", "egress")
  /\ TerminalProgram[12] = Step("readQuiescentSample", "egress")
  /\ TerminalProgram[13] = Step("releaseRoleDocker", "egress")
  /\ TerminalProgram[14] = Step("releaseRoleCgroup", "egress")
  /\ TerminalProgram[15] = Step("finishRoleCleanup", "egress")
  /\ TerminalProgram[16] = Step("stopController", "all")
  /\ TerminalProgram[17] = Step("return", "all")
BY DEF TerminalProgram, CleanupRole, Do, Step

LEMMA ProgramsAreSequences ==
  SuccessProgram \in Seq(Operation) /\ TerminalProgram \in Seq(Operation)
<1>1. ASSUME NEW r \in {"egress", "worker", "verifier"}
      PROVE  /\ SetupRole(r) \in Seq(Operation) /\ CleanupRole(r) \in Seq(Operation)
             /\ Observe(r) \in Seq(Operation)
  BY DEF SetupRole, CleanupRole, Observe, Do, Operation
<1>2. Do("createOwnedContainers", "all") \in Seq(Operation)
  BY DEF Do, Operation
<1>3. /\ Do("requireCleanup", "all") \in Seq(Operation)
      /\ Do("stopController", "all") \in Seq(Operation)
      /\ Do("return", "all") \in Seq(Operation)
  BY DEF Do, Operation
<1> QED
  BY <1>1, <1>2, <1>3 DEF SuccessProgram, TerminalProgram

\* Where the operations stand.
LEMMA SuccessPositions ==
  ASSUME NEW p \in 1..39, NEW r \in Roles
  PROVE  /\ SuccessProgram[p] = Step("createOwnedContainers", "all") <=> p = 1
         /\ SuccessProgram[p] = Step("startRoleHeld", r) <=> p = SetupAt(r)
         /\ SuccessProgram[p] = Step("waitRoleBarrierHeld", r) <=> p = SetupAt(r) + 1
         /\ SuccessProgram[p] = Step("bindRoleIdentityAndCgroup", r) <=> p = SetupAt(r) + 2
         /\ SuccessProgram[p] = Step("readRoleBaseline", r) <=> p = SetupAt(r) + 3
         /\ SuccessProgram[p] = Step("releaseRoleBarrier", r) <=> p = SetupAt(r) + 4
         /\ SuccessProgram[p] = Step("stopOrContainRole", r) <=> p = CleanupAt(r)
         /\ SuccessProgram[p] = Step("readQuiescentSample", r) <=> p = CleanupAt(r) + 1
         /\ SuccessProgram[p] = Step("releaseRoleDocker", r) <=> p = CleanupAt(r) + 2
         /\ SuccessProgram[p] = Step("releaseRoleCgroup", r) <=> p = CleanupAt(r) + 3
         /\ SuccessProgram[p] = Step("finishRoleCleanup", r) <=> p = CleanupAt(r) + 4
         /\ SuccessProgram[p] = Step("requireCleanup", "all") <=> p \in {24, 37}
         /\ SuccessProgram[p] = Step("stopController", "all") <=> p = 38
         /\ SuccessProgram[p] = Step("return", "all") <=> p = 39
         /\ SuccessProgram[p].op \in {"observeUntilRoleExit", "executionObserved"}
              <=> p \in {12, 13, 30, 31}
<1>1. r \in {"egress", "worker", "verifier"}
  BY RoleNames
<1> QED
  BY <1>1, SuccessSteps DEF Step, SetupAt, CleanupAt

-----------------------------------------------------------------------------
(* Positions in a program.                                                 *)

LEMMA RestAfter ==
  ASSUME NEW program \in Seq(Operation), NEW s \in Seq(Operation), NEW p \in Nat,
         RestOf(s, program, p), NEW i \in 1..Len(s)
  PROVE  /\ SubSeq(s, i, Len(s)) \in Seq(Operation)
         /\ RestOf(SubSeq(s, i, Len(s)), program, p + i - 1)
<1> DEFINE t == SubSeq(s, i, Len(s))
<1>1. t \in Seq(Operation) /\ Len(t) = Len(s) + 1 - i
  BY DEF t
<1>2. \A j \in 1..Len(t) : t[j] = s[i + j - 1]
  BY <1>1
<1>3. Len(program) \in Nat /\ Len(s) \in Nat /\ p \in 1..Len(program)
      /\ Len(s) = Len(program) + 1 - p
  BY DEF RestOf
<1>4. p + i - 1 \in 1..Len(program) /\ Len(t) = Len(program) + 1 - (p + i - 1)
  BY <1>1, <1>3
<1>5. ASSUME NEW j \in 1..Len(t) PROVE t[j] = program[p + i - 1 + j - 1]
  <2>1. i + j - 1 \in 1..Len(s)
    BY <1>1, <1>3
  <2>2. s[i + j - 1] = program[p + (i + j - 1) - 1]
    BY <2>1 DEF RestOf
  <2> HIDE DEF t
  <2> QED
    BY <1>2, <2>2, <1>3
<1> HIDE DEF t
<1>6. RestOf(t, program, p + i - 1)
  BY <1>4, <1>5 DEF RestOf
<1> QED
  BY <1>1, <1>6 DEF t

LEMMA RestAfterOne ==
  ASSUME NEW program \in Seq(Operation), NEW s \in Seq(Operation), NEW p \in Nat,
         RestOf(s, program, p), p < Len(program)
  PROVE  Tail(s) \in Seq(Operation) /\ RestOf(Tail(s), program, p + 1)
<1> DEFINE t == Tail(s)
<1>3. Len(program) \in Nat /\ Len(s) \in Nat /\ p \in 1..Len(program)
      /\ Len(s) = Len(program) + 1 - p /\ Len(s) >= 2
  BY DEF RestOf
<1>1. t \in Seq(Operation) /\ Len(t) = Len(s) - 1 /\ \A j \in 1..Len(t) : t[j] = s[j + 1]
  <2>1. s # <<>>
    BY <1>3
  <2> QED
    BY <1>3, <2>1
<1> HIDE DEF t
<1>5. ASSUME NEW j \in 1..Len(t) PROVE t[j] = program[p + 1 + j - 1]
  <2>1. j + 1 \in 1..Len(s)
    BY <1>1, <1>3
  <2>2. s[j + 1] = program[p + (j + 1) - 1]
    BY <2>1 DEF RestOf
  <2> QED
    BY <1>1, <2>2, <1>3
<1>6. RestOf(t, program, p + 1)
  BY <1>1, <1>3, <1>5 DEF RestOf
<1> QED
  BY <1>1, <1>6 DEF t

\* Where the core is when it has gone on from a position.
WentOn(c, program, q, p) ==
  /\ core' = c
  /\ p \in Nat /\ q <= p /\ p <= Len(program)
  /\ todo' \in Seq(Operation)
  /\ RestOf(todo', program, p)
  /\ \A j \in q..(p - 1) : ~Due(program[j], c)

LEMMA GoToGoesOn ==
  ASSUME NEW program \in Seq(Operation), NEW s \in Seq(Operation), NEW q \in Nat,
         RestOf(s, program, q), NEW c, GoTo(c, s)
  PROVE  \E p \in Nat : WentOn(c, program, q, p)
<1>1. PICK i \in DOMAIN s : FirstDue(i, s, c) /\ todo' = SubSeq(s, i, Len(s))
  BY DEF GoTo
<1>2. Len(program) \in Nat /\ Len(s) \in Nat /\ q \in 1..Len(program)
      /\ Len(s) = Len(program) + 1 - q /\ i \in 1..Len(s)
  BY DEF RestOf
<1>3. todo' \in Seq(Operation) /\ RestOf(todo', program, q + i - 1)
  BY <1>1, <1>2, RestAfter
<1>4. ASSUME NEW j \in q..((q + i - 1) - 1) PROVE ~Due(program[j], c)
  <2>1. j - q + 1 \in 1..(i - 1) /\ j - q + 1 \in 1..Len(s)
    BY <1>2
  <2>2. s[j - q + 1] = program[q + (j - q + 1) - 1]
    BY <2>1 DEF RestOf
  <2>3. s[j - q + 1] = program[j]
    BY <2>2, <1>2
  <2> QED
    BY <1>1, <2>1, <2>3 DEF FirstDue
<1>5. core' = c
  BY DEF GoTo
<1>6. WentOn(c, program, q, q + i - 1)
  BY <1>2, <1>3, <1>4, <1>5 DEF WentOn
<1> QED
  BY <1>2, <1>6

-----------------------------------------------------------------------------
(* How an operation of the core ends.                                      *)

\* What a failure, and a stage, leave of the variables of the core.
SameClaims(c) ==
  /\ core'.result = c.result /\ core'.started = c.started /\ core'.cgroup = c.cgroup
  /\ core'.baseline = c.baseline /\ core'.latest = c.latest
  /\ core'.sticky = c.sticky /\ core'.stopped = c.stopped /\ core'.hung = c.hung

Raised(c) ==
  /\ CoreShape(core') /\ SameClaims(c)
  /\ core'.phase = "terminal" /\ ~core'.thrown /\ core'.thrown \in BOOLEAN
  /\ todo' \in Seq(Operation)
  /\ InTerminal'

\* After a failure the whole cleanup is ahead, but for what is not due.
LEMMA RaiseCleansUp ==
  ASSUME NEW c, CoreShape(c), NEW code, Raise(c, code)
  PROVE  Raised(c)
<1> DEFINE failed == [c EXCEPT !.phase = "terminal", !.failure = code,
                              !.record = FALSE, !.thrown = FALSE]
<1>1. /\ CoreShape(failed) /\ failed.phase = "terminal" /\ failed.thrown = FALSE
      /\ failed.result = c.result /\ failed.started = c.started /\ failed.cgroup = c.cgroup
      /\ failed.baseline = c.baseline /\ failed.latest = c.latest
      /\ failed.sticky = c.sticky /\ failed.stopped = c.stopped /\ failed.hung = c.hung
  BY DEF CoreShape, CoreFields
<1>2. GoTo(failed, TerminalProgram)
  BY DEF Raise
<1> HIDE DEF failed
<1>3. RestOf(TerminalProgram, TerminalProgram, 1)
  BY ProgramsAreSequences, TerminalSteps DEF RestOf
<1>4. PICK p \in Nat : WentOn(failed, TerminalProgram, 1, p)
  <2>1. 1 \in Nat /\ TerminalProgram \in Seq(Operation)
    BY ProgramsAreSequences
  <2> QED
    BY <1>2, <1>3, <2>1, GoToGoesOn
<1>5. core' = failed
  BY <1>4 DEF WentOn
<1>6. CoreShape(core') /\ SameClaims(c)
  BY <1>1, <1>5 DEF SameClaims
<1>7. core'.phase = "terminal" /\ ~core'.thrown /\ core'.thrown \in BOOLEAN
  BY <1>1, <1>5
<1>8. p \in 1..17 /\ todo' \in Seq(Operation) /\ RestOf(todo', TerminalProgram, p)
  BY <1>4, TerminalSteps DEF WentOn
<1>9. p = 17 => core'.stopped
  <2> SUFFICES ASSUME p = 17 PROVE core'.stopped
    OBVIOUS
  <2>1. ~Due(TerminalProgram[16], failed)
    BY <1>4 DEF WentOn
  <2>2. TerminalProgram[16] = Step("stopController", "all")
    BY TerminalSteps
  <2> QED
    BY <2>1, <2>2, <1>5 DEF Due, Step
<1> QED
  BY <1>6, <1>7, <1>8, <1>9 DEF Raised, InTerminal

\* A stage in order goes on, one out of order is a failure.
LEMMA ProceedGoesOnOrRaises ==
  ASSUME NEW c, CoreShape(c), Proceed(c)
  PROVE  \/ Raised(c)
         \/ \E d : GoTo(d, Tail(todo)) /\ CoreShape(d) /\ d = [c EXCEPT !.stages = d.stages]
<1>1. CASE Current = SuccessStages[c.stages + 1]
  <2> DEFINE d == [c EXCEPT !.stages = @ + 1]
  <2>1. GoTo(d, Tail(todo))
    BY <1>1 DEF Proceed
  <2>2. CoreShape(d) /\ d = [c EXCEPT !.stages = d.stages]
    BY DEF CoreShape
  <2> QED
    BY <2>1, <2>2
<1>2. CASE Current # SuccessStages[c.stages + 1]
  BY <1>2, RaiseCleansUp DEF Proceed
<1> QED
  BY <1>1, <1>2

-----------------------------------------------------------------------------
(* What is skipped was done.                                               *)

\* Only operations of a cleanup can be left out.
LEMMA AlwaysDue ==
  ASSUME NEW j \in 1..39, NEW c, ~Due(SuccessProgram[j], c)
  PROVE  \/ j = 38
         \/ \E r \in Roles : \/ j \in CleanupAt(r)..(CleanupAt(r) + 1) /\ (r \notin c.started \/ r \in c.cgroup)
                             \/ j = CleanupAt(r) + 2
                             \/ j = CleanupAt(r) + 3 /\ (r \notin c.started \/ r \in c.cgroup)
                             \/ j = CleanupAt(r) + 4 /\ ~c.thrown
<1>1. {"egress", "worker", "verifier"} = Roles
  BY RoleNames
<1>2. CASE j \in 1..13 \cup {24, 37, 39} \cup 25..31
  BY <1>2, SuccessSteps DEF Due, Step
<1>3. CASE j = 38
  BY <1>3
<1>4. CASE j \in {14, 15, 19, 20, 32, 33}
  BY SMTT(30), <1>1, <1>4, SuccessSteps DEF Due, Step, CleanupComplete, CleanupAt
<1>5. CASE j \in {16, 21, 34}
  BY <1>1, <1>5 DEF CleanupAt
<1>6. CASE j \in {17, 22, 35}
  BY <1>1, <1>6, SuccessSteps DEF Due, Step, CleanupAt
<1>7. CASE j \in {18, 23, 36}
  <2>1. SuccessProgram[j].op = "finishRoleCleanup"
    BY <1>7, SuccessSteps DEF Step
  <2>2. ~c.thrown
    BY <2>1 DEF Due
  <2>3. \E r \in Roles : j = CleanupAt(r) + 4
    BY <1>1, <1>7 DEF CleanupAt
  <2> QED
    BY <2>2, <2>3
<1> QED
  BY <1>2, <1>3, <1>4, <1>5, <1>6, <1>7

LEMMA SkippedWasDone ==
  ASSUME NEW q \in 1..39, NEW p \in q..39, Reached(q)',
         \A j \in q..(p - 1) : ~Due(SuccessProgram[j], core')
  PROVE  Reached(p)'
<1> DEFINE Skipped(j) == q <= j /\ j < p
<1>1. ASSUME NEW j \in 1..39, Skipped(j)
      PROVE  \/ j = 38
             \/ \E r \in Roles :
                  \/ j \in CleanupAt(r)..(CleanupAt(r) + 1) /\ (r \notin core'.started \/ r \in core'.cgroup)
                  \/ j = CleanupAt(r) + 2
                  \/ j = CleanupAt(r) + 3 /\ (r \notin core'.started \/ r \in core'.cgroup)
                  \/ j = CleanupAt(r) + 4 /\ ~core'.thrown
  BY <1>1, AlwaysDue
<1>2. Roles = {"egress", "worker", "verifier"}
  BY RoleNames
<1>3. ASSUME NEW r \in Roles
      PROVE  /\ SetupAt(r) \in {2, 7, 25} /\ CleanupAt(r) \in {14, 19, 32}
             /\ SetupAt(r) < CleanupAt(r)
             /\ CleanupAt(r) = 14 => r = "worker"
             /\ CleanupAt(r) = 19 => r = "egress"
             /\ CleanupAt(r) = 32 => r = "verifier"
  BY <1>2, <1>3 DEF SetupAt, CleanupAt
<1>4. ASSUME NEW j \in 1..39, Skipped(j) PROVE j \in 14..23 \cup 32..36 \cup {38}
  BY <1>1, <1>3, <1>4
<1>5. ASSUME NEW r \in Roles
      PROVE  /\ p > SetupAt(r) => r \in core'.started
             /\ p > SetupAt(r) + 2 => r \in adapter'.bound
             /\ p > SetupAt(r) + 3 => core'.baseline[r] = helper'.baseline[r]
             /\ p <= CleanupAt(r) + 3 => r \notin core'.cgroup
  <2>1. /\ q > SetupAt(r) => r \in core'.started
        /\ q > SetupAt(r) + 2 => r \in adapter'.bound
        /\ q > SetupAt(r) + 3 => core'.baseline[r] = helper'.baseline[r]
        /\ q <= CleanupAt(r) + 3 => r \notin core'.cgroup
    BY DEF Reached, DoneBy, OpenAt
  <2>2. ASSUME NEW j \in SetupAt(r)..(SetupAt(r) + 3), p > j PROVE q > j
    BY <1>3, <1>4, <2>2
  <2> QED
    BY <1>3, <2>1, <2>2
<1>6. ASSUME NEW r \in Roles, p > CleanupAt(r) + 1, ~core'.sticky PROVE Final(r)'
  <2>1. CASE q > CleanupAt(r) + 1
    BY <1>6, <2>1 DEF Reached, DoneBy, OpenAt
  <2>2. CASE q <= CleanupAt(r) + 1
    <3>1. Skipped(CleanupAt(r) + 1) /\ CleanupAt(r) + 1 \in 1..39
      BY <1>3, <1>6, <2>2
    <3>2. r \in core'.cgroup \/ r \notin core'.started
      BY <1>1, <1>3, <3>1
    <3>3. r \notin core'.cgroup /\ r \in core'.started
      BY <1>3, <1>5, <1>6, <2>2 DEF Reached, DoneBy, OpenAt
    <3> QED
      BY <3>2, <3>3
  <2> QED
    BY <1>3, <2>1, <2>2
<1>7. ASSUME NEW r \in Roles, p > CleanupAt(r) + 3, ~core'.sticky PROVE r \in core'.cgroup
  <2>1. CASE q > CleanupAt(r) + 3
    BY <1>7, <2>1 DEF Reached, DoneBy, OpenAt
  <2>2. CASE q <= CleanupAt(r) + 3
    <3>1. Skipped(CleanupAt(r) + 3) /\ CleanupAt(r) + 3 \in 1..39
      BY <1>3, <1>7, <2>2
    <3>2. r \in core'.cgroup \/ r \notin core'.started
      BY <1>1, <1>3, <3>1
    <3> QED
      BY <1>3, <1>5, <1>7, <3>2
  <2> QED
    BY <1>3, <2>1, <2>2
<1>8. p > 24 => "worker" \in core'.cgroup /\ "egress" \in core'.cgroup
  BY <1>4 DEF Reached, DoneBy, OpenAt
<1>9. ASSUME p > 33, ~core'.sticky
      PROVE  (p < 37 /\ core'.thrown) \/ (CumulativeCpu(core.latest) <= Budget)'
  <2>1. CASE q > 33
    <3>1. ASSUME p >= 37, q < 37 PROVE ~core'.thrown
      <4>1. Skipped(36)
        BY <3>1
      <4> QED
        BY <1>1, <1>3, <4>1
    <3> QED
      BY <1>9, <2>1, <3>1 DEF Reached, DoneBy, OpenAt
  <2>2. CASE q <= 33
    <3>1. Skipped(33)
      BY <1>9, <2>2
    <3>2. "verifier" \in core'.cgroup \/ "verifier" \notin core'.started
      BY <1>1, <1>3, <3>1
    <3>3. "verifier" \notin core'.cgroup /\ "verifier" \in core'.started
      <4>1. CleanupAt("verifier") = 32 /\ SetupAt("verifier") = 25 /\ "verifier" \in Roles
        BY <1>2 DEF CleanupAt, SetupAt
      <4>2. q <= CleanupAt("verifier") + 3 => "verifier" \notin core'.cgroup
        BY <4>1 DEF Reached, DoneBy, OpenAt
      <4>3. p > SetupAt("verifier") => "verifier" \in core'.started
        BY <1>5, <4>1
      <4> QED
        BY <1>9, <2>2, <4>1, <4>2, <4>3
    <3> QED
      BY <3>2, <3>3
  <2> QED
    BY <2>1, <2>2
<1>10. p = 1 => q = 1
  OBVIOUS
<1>11. p > 1 => owner'.created
  <2>1. p > 1 => q > 1
    BY <1>4
  <2> QED
    BY <2>1 DEF Reached, DoneBy, OpenAt
<1> QED
  BY <1>5, <1>6, <1>7, <1>8, <1>9, <1>10, <1>11 DEF Reached, DoneBy, OpenAt

-----------------------------------------------------------------------------
(* Where an operation finds the core, and where it leaves it.              *)

LEMMA SuccessPosition ==
  ASSUME PositionFits, core.phase = "running", NEW op, op # "sampleRole", NEW r,
         Current = Step(op, r)
  PROVE  \E p \in 1..39 :
           /\ RestOf(todo, SuccessProgram, p) /\ Reached(p)
           /\ SuccessProgram[p] = Step(op, r)
<1>1. PICK p \in 1..39 : SamplesThenRest(todo, p) /\ Reached(p)
  BY DEF PositionFits, InSuccess
<1>2. PICK n \in 0..3 :
        /\ Len(todo) = n + Len(SuccessProgram) + 1 - p
        /\ \A i \in 1..n : todo[i].op = "sampleRole"
        /\ \A i \in (n + 1)..Len(todo) : todo[i] = SuccessProgram[p + i - 1 - n]
  BY <1>1 DEF SamplesThenRest
<1>3. n = 0
  <2>1. n # 0 => todo[1].op = "sampleRole"
    BY <1>2
  <2> QED
    BY <2>1 DEF Current, Step
<1>4. /\ p \in 1..Len(SuccessProgram) /\ Len(todo) = Len(SuccessProgram) + 1 - p
      /\ 1 \in 1..Len(todo)
  BY <1>2, <1>3, SuccessSteps
<1>5. ASSUME NEW i \in 1..Len(todo) PROVE todo[i] = SuccessProgram[p + i - 1]
  <2>1. i \in (n + 1)..Len(todo) /\ p + i - 1 - n = p + i - 1
    BY <1>3, <1>4
  <2> QED
    BY <1>2, <2>1
<1>6. RestOf(todo, SuccessProgram, p)
  BY <1>4, <1>5 DEF RestOf
<1>7. SuccessProgram[p] = todo[1]
  <2>1. todo[1] = SuccessProgram[p + 1 - 1]
    BY <1>4, <1>5
  <2>2. p + 1 - 1 = p
    OBVIOUS
  <2> QED
    BY <2>1, <2>2
<1> QED
  BY <1>1, <1>6, <1>7 DEF Current

LEMMA TerminalPosition ==
  ASSUME PositionFits, core.phase = "terminal", NEW op, NEW r, Current = Step(op, r)
  PROVE  \E p \in 1..17 :
           /\ RestOf(todo, TerminalProgram, p) /\ (p = 17 => core.stopped \/ core.sticky)
           /\ TerminalProgram[p] = Step(op, r)
<1>1. PICK p \in 1..17 : /\ RestOf(todo, TerminalProgram, p)
                         /\ p = 17 => core.stopped \/ core.sticky
  BY DEF PositionFits, InTerminal
<1>2. todo[1] = TerminalProgram[p]
  BY <1>1, TerminalSteps DEF RestOf
<1> QED
  BY <1>1, <1>2 DEF Current

\* The core went on with what it had to claim.
GoneOn(c, s) ==
  /\ CoreShape(core') /\ SameClaims(c)
  /\ core'.phase = c.phase /\ core'.thrown = c.thrown
  /\ GoTo(core', s)

LEMMA GoToIsGoneOn ==
  ASSUME NEW c, CoreShape(c), NEW s, GoTo(c, s)
  PROVE  GoneOn(c, s)
<1>1. core' = c
  BY DEF GoTo
<1> QED
  BY <1>1 DEF GoneOn, SameClaims

LEMMA ProceedEnds ==
  ASSUME NEW c, CoreShape(c), Proceed(c)
  PROVE  Raised(c) \/ GoneOn(c, Tail(todo))
<1>1. ASSUME NEW d, GoTo(d, Tail(todo)), CoreShape(d), d = [c EXCEPT !.stages = d.stages]
      PROVE  GoneOn(c, Tail(todo))
  <2>1. core' = d
    BY <1>1 DEF GoTo
  <2>2. /\ d.result = c.result /\ d.started = c.started /\ d.cgroup = c.cgroup
        /\ d.baseline = c.baseline /\ d.latest = c.latest /\ d.sticky = c.sticky
        /\ d.stopped = c.stopped /\ d.hung = c.hung
        /\ d.phase = c.phase /\ d.thrown = c.thrown
    BY <1>1 DEF CoreShape, CoreFields
  <2> QED
    BY <1>1, <2>1, <2>2 DEF GoneOn, SameClaims
<1> QED
  BY <1>1, ProceedGoesOnOrRaises

LEMMA RaisedFits ==
  ASSUME NEW c, Raised(c), ~c.hung
  PROVE  PositionFits'
BY DEF Raised, SameClaims, PositionFits

LEMMA NoSampleBefore ==
  ASSUME NEW s, NEW p, RestOf(s, SuccessProgram, p)
  PROVE  SamplesThenRest(s, p)
<1>1. /\ p \in 1..Len(SuccessProgram)
      /\ Len(s) = 0 + Len(SuccessProgram) + 1 - p
      /\ \A i \in (0 + 1)..Len(s) : s[i] = SuccessProgram[p + i - 1 - 0]
  BY SuccessSteps DEF RestOf
<1>2. \A i \in 1..0 : s[i].op = "sampleRole"
  OBVIOUS
<1> QED
  BY <1>1, <1>2 DEF SamplesThenRest

LEMMA GoneOnInSuccess ==
  ASSUME NEW c, NEW s \in Seq(Operation), GoneOn(c, s), c.phase = "running", ~c.hung,
         NEW q \in 1..39, RestOf(s, SuccessProgram, q), Reached(q)'
  PROVE  PositionFits'
<1>1. PICK p \in Nat : WentOn(core', SuccessProgram, q, p)
  <2>1. q \in Nat /\ SuccessProgram \in Seq(Operation)
    BY ProgramsAreSequences
  <2>2. GoTo(core', s)
    BY DEF GoneOn
  <2> QED
    BY <2>1, <2>2, GoToGoesOn
<1>2. /\ p \in q..39 /\ todo' \in Seq(Operation) /\ RestOf(todo', SuccessProgram, p)
      /\ \A j \in q..(p - 1) : ~Due(SuccessProgram[j], core')
  BY <1>1, SuccessSteps DEF WentOn
<1>3. Reached(p)'
  BY <1>2, SkippedWasDone
<1>4. SamplesThenRest(todo', p)
  BY <1>2, NoSampleBefore
<1>5. InSuccess'
  <2>1. p \in 1..39
    BY <1>2
  <2> QED
    BY <1>3, <1>4, <2>1 DEF InSuccess
<1> QED
  BY <1>2, <1>5 DEF PositionFits, GoneOn, SameClaims

LEMMA GoneOnInTerminal ==
  ASSUME NEW c, NEW s \in Seq(Operation), GoneOn(c, s), c.phase = "terminal", ~c.hung,
         NEW q \in 1..17, RestOf(s, TerminalProgram, q), q = 17 => c.stopped \/ c.sticky
  PROVE  PositionFits'
<1>1. PICK p \in Nat : WentOn(core', TerminalProgram, q, p)
  <2>1. q \in Nat /\ TerminalProgram \in Seq(Operation)
    BY ProgramsAreSequences
  <2>2. GoTo(core', s)
    BY DEF GoneOn
  <2> QED
    BY <2>1, <2>2, GoToGoesOn
<1>2. /\ p \in q..17 /\ todo' \in Seq(Operation) /\ RestOf(todo', TerminalProgram, p)
      /\ \A j \in q..(p - 1) : ~Due(TerminalProgram[j], core')
  BY <1>1, TerminalSteps DEF WentOn
<1>3. ASSUME p = 17 PROVE core'.stopped \/ core'.sticky
  <2>1. CASE q = 17
    BY <2>1 DEF GoneOn, SameClaims
  <2>2. CASE q # 17
    <3>1. ~Due(TerminalProgram[16], core')
      BY <1>2, <1>3, <2>2
    <3>2. TerminalProgram[16].op = "stopController"
      BY TerminalSteps DEF Step
    <3> QED
      BY <3>1, <3>2 DEF Due
  <2> QED
    BY <2>1, <2>2
<1>4. InTerminal'
  BY SMTT(30), <1>2, <1>3 DEF InTerminal
<1> QED
  BY <1>2, <1>4 DEF PositionFits, GoneOn, SameClaims

-----------------------------------------------------------------------------
(* What the operations do to the containers and networks.                  *)

LEMMA PrefixElements ==
  ASSUME NEW S, NEW s \in Seq(S), NEW k \in 0..Len(s)
  PROVE  ToSet(SubSeq(s, 1, k)) = {s[i] : i \in 1..k}
<1>1. Len(s) \in Nat /\ k \in Nat
  OBVIOUS
<1>2. Len(SubSeq(s, 1, k)) = k /\ DOMAIN SubSeq(s, 1, k) = 1..k
  BY <1>1
<1>3. \A i \in 1..k : SubSeq(s, 1, k)[i] = s[i]
  BY <1>1
<1> QED
  BY <1>2, <1>3 DEF ToSet

LEMMA Orders ==
  /\ CreationOrder \in Seq(Resources) /\ Len(CreationOrder) = 5
  /\ CreationOrder[1] = "worker-network" /\ CreationOrder[2] = "outbound-network"
  /\ CreationOrder[3] = "egress" /\ CreationOrder[4] = "worker" /\ CreationOrder[5] = "verifier"
  /\ NetworkRemovalOrder \in Seq(Resources) /\ Len(NetworkRemovalOrder) = 2
  /\ NetworkRemovalOrder[1] = "outbound-network" /\ NetworkRemovalOrder[2] = "worker-network"
  /\ RoleOrder \o NetworkRemovalOrder \in Seq(Resources) /\ Len(RoleOrder \o NetworkRemovalOrder) = 5
  /\ \A x \in Resources : \E i \in 1..5 : (RoleOrder \o NetworkRemovalOrder)[i] = x
<1>1. /\ NetworkOrder = <<"worker-network", "outbound-network">>
      /\ RoleOrder = <<"egress", "worker", "verifier">>
  BY DEF NetworkOrder, RoleOrder
<1>2. NetworkRemovalOrder = <<"outbound-network", "worker-network">>
  BY <1>1 DEF NetworkRemovalOrder, Reverse
<1>3. /\ CreationOrder \in Seq(Resources) /\ Len(CreationOrder) = 5
      /\ CreationOrder[1] = "worker-network" /\ CreationOrder[2] = "outbound-network"
      /\ CreationOrder[3] = "egress" /\ CreationOrder[4] = "worker" /\ CreationOrder[5] = "verifier"
  BY <1>1, RoleNames DEF CreationOrder
<1>4. /\ NetworkRemovalOrder \in Seq(Resources) /\ Len(NetworkRemovalOrder) = 2
      /\ NetworkRemovalOrder[1] = "outbound-network" /\ NetworkRemovalOrder[2] = "worker-network"
  BY <1>2, RoleNames
<1>5. /\ RoleOrder \o NetworkRemovalOrder \in Seq(Resources)
      /\ Len(RoleOrder \o NetworkRemovalOrder) = 5
      /\ (RoleOrder \o NetworkRemovalOrder)[1] = "egress"
      /\ (RoleOrder \o NetworkRemovalOrder)[2] = "worker"
      /\ (RoleOrder \o NetworkRemovalOrder)[3] = "verifier"
      /\ (RoleOrder \o NetworkRemovalOrder)[4] = "outbound-network"
      /\ (RoleOrder \o NetworkRemovalOrder)[5] = "worker-network"
  BY <1>1, <1>2, RoleNames
<1>6. ASSUME NEW x \in Resources PROVE \E i \in 1..5 : (RoleOrder \o NetworkRemovalOrder)[i] = x
  BY <1>5, RoleNames
<1> QED
  BY <1>3, <1>4, <1>5, <1>6

\* Containers stop and go, and none comes.
Subsides ==
  /\ \A x \in Resources :
       box'[x] = box[x] \/ box'[x] = "absent" \/ (box[x] \in RunningStates /\ box'[x] = "failed")
  /\ owner.removed \subseteq owner'.removed
  /\ owner.created => owner'.created
  /\ OwnerFits'

LEMMA NothingSubsides ==
  ASSUME OwnerFits, UNCHANGED dockerVars
  PROVE  Subsides
<1>1. box' = box /\ late' = late /\ owner' = owner
  BY DEF dockerVars
<1> QED
  BY <1>1 DEF Subsides, OwnerFits, OwnerTypes

LEMMA StopSubsides ==
  ASSUME OwnerFits, NEW r \in Roles, StopRole(r)
  PROVE  Subsides
<1>1. /\ box' = [box EXCEPT ![r] = IF Running(r) THEN "failed" ELSE box[r]]
      /\ late' = late /\ owner' = owner
  BY DEF StopRole
<1>2. box \in [Resources -> BoxStates] /\ r \in Resources
  BY DEF OwnerFits, OwnerTypes, Resources
<1>3. \A x \in Resources :
        box'[x] = box[x] \/ (box[x] \in RunningStates /\ box'[x] = "failed")
  BY <1>1, <1>2 DEF Running
<1>4. box' \in [Resources -> BoxStates]
  BY <1>1, <1>2 DEF BoxStates
<1>5. \A x \in Resources : box[x] = "absent" => box'[x] = "absent"
  BY <1>3 DEF RunningStates
<1>6. OwnerFits'
  <2>1. OwnerTypes'
    BY <1>1, <1>4 DEF OwnerFits, OwnerTypes
  <2> QED
    BY <1>1, <1>5, <2>1 DEF OwnerFits, OwnerTypes
<1> QED
  BY <1>1, <1>3, <1>6 DEF Subsides

\* What can be removed cannot come any more, and stays away once it is removed.
LEMMA RemovalSubsides ==
  ASSUME OwnerFits, NEW order \in Seq(Resources), NEW k \in 0..Len(order), RemoveUpTo(order, k)
  PROVE  Subsides /\ ToSet(SubSeq(order, 1, k)) \subseteq owner'.removed
<1> DEFINE gone == ToSet(SubSeq(order, 1, k))
<1>1. Len(order) \in Nat /\ k \in Nat
  OBVIOUS
<1>2. gone = {order[i] : i \in 1..k}
  BY PrefixElements
<1>3. gone \subseteq Resources
  BY <1>1, <1>2
<1>4. PICK unseen : box' = [x \in Resources |-> IF x \in gone \cup unseen THEN "absent" ELSE box[x]]
  BY DEF RemoveUpTo
<1>5. /\ \A x \in gone : Removable(x)
      /\ owner' = [owner EXCEPT !.removed = owner.removed \cup gone,
                                !.unresolved = owner.unresolved \ gone]
      /\ late' = late
  BY DEF RemoveUpTo
<1> HIDE DEF gone
<1>6. /\ owner' = [f \in {"known", "unresolved", "removed", "created"} |-> owner'[f]]
      /\ owner'.known = owner.known /\ owner'.created = owner.created
      /\ owner'.removed = owner.removed \cup gone
      /\ owner'.unresolved = owner.unresolved \ gone
  BY <1>5 DEF OwnerFits, OwnerTypes
<1>7. ASSUME NEW x \in gone PROVE x \notin late
  <2>1. Removable(x)
    BY <1>5
  <2> QED
    BY <2>1 DEF Removable, OwnerFits
<1>8. OwnerTypes'
  <2>1. box' \in [Resources -> BoxStates]
    BY <1>4 DEF OwnerFits, OwnerTypes, BoxStates
  <2> QED
    BY <1>3, <1>5, <1>6, <2>1 DEF OwnerFits, OwnerTypes
<1>9. \A x \in Resources : box'[x] = box[x] \/ box'[x] = "absent"
  BY <1>4
<1>10. \A x \in late' : box'[x] = "absent" /\ x \in owner'.unresolved
  BY <1>5, <1>6, <1>7, <1>9 DEF OwnerFits, OwnerTypes
<1>11. \A x \in owner'.removed : box'[x] = "absent" /\ x \notin owner'.unresolved
  BY <1>3, <1>4, <1>6, <1>9 DEF OwnerFits, OwnerTypes
<1>12. owner'.created => owner'.unresolved = {}
  BY <1>6 DEF OwnerFits
<1>13. OwnerFits'
  BY <1>8, <1>10, <1>11, <1>12 DEF OwnerFits
<1>14. Subsides
  BY <1>6, <1>9, <1>13 DEF Subsides
<1> QED
  BY <1>6, <1>14 DEF gone

\* Nothing was created before.
NothingYet ==
  /\ late = {}
  /\ owner = [known |-> {}, unresolved |-> {}, removed |-> {}, created |-> FALSE]
  /\ box = [x \in Resources |-> "absent"]

LEMMA CreationFits ==
  ASSUME NothingYet, CreateAll \/ CreateFails
  PROVE  /\ OwnerFits'
         /\ \A x \in Resources : box'[x] \in {"absent", "created"}
         /\ CreateAll => owner'.created
<1>1. CASE CreateAll
  <2>1. /\ box' = [x \in Resources |-> "created"] /\ late' = {}
        /\ owner' = [f \in {"known", "unresolved", "removed", "created"} |-> owner'[f]]
        /\ owner'.known = Resources /\ owner'.created = TRUE
        /\ owner'.removed = {} /\ owner'.unresolved = {}
    BY <1>1 DEF CreateAll, NothingYet
  <2> QED
    BY <2>1 DEF OwnerFits, OwnerTypes, BoxStates
<1>2. ASSUME NEW k \in 0..5, StopsBetweenCreations(k)
      PROVE  /\ OwnerFits' /\ owner'.created = FALSE
             /\ \A x \in Resources : box'[x] \in {"absent", "created"}
  <2> DEFINE made == ToSet(SubSeq(CreationOrder, 1, k))
  <2>1. made \subseteq Resources
    <3>1. CreationOrder \in Seq(Resources) /\ k \in 0..Len(CreationOrder)
      BY Orders
    <3>2. made = {CreationOrder[i] : i \in 1..k}
      BY <3>1, PrefixElements
    <3> QED
      BY <3>1, <3>2
  <2>2. /\ box' = [x \in Resources |-> IF x \in made THEN "created" ELSE box[x]]
        /\ owner' = [owner EXCEPT !.known = made] /\ late' = late
    BY <1>2 DEF StopsBetweenCreations
  <2> HIDE DEF made
  <2>3. /\ late' = {}
        /\ owner' = [f \in {"known", "unresolved", "removed", "created"} |-> owner'[f]]
        /\ owner'.known = made /\ owner'.created = FALSE
        /\ owner'.removed = {} /\ owner'.unresolved = {}
    BY <2>2 DEF NothingYet
  <2>4. \A x \in Resources : box'[x] \in {"absent", "created"}
    BY <2>2 DEF NothingYet
  <2>5. box' \in [Resources -> BoxStates]
    BY <2>2, <2>4 DEF BoxStates
  <2> QED
    BY <2>1, <2>3, <2>4, <2>5 DEF OwnerFits, OwnerTypes
<1>3. ASSUME NEW k \in 0..4, StopsInCreation(k)
      PROVE  /\ OwnerFits' /\ owner'.created = FALSE
             /\ \A x \in Resources : box'[x] \in {"absent", "created"}
  <2> DEFINE made == ToSet(SubSeq(CreationOrder, 1, k))
             x == CreationOrder[k + 1]
  <2>1. made \subseteq Resources /\ x \in Resources /\ x \notin made
    <3>1. CreationOrder \in Seq(Resources) /\ k \in 0..Len(CreationOrder)
      BY Orders
    <3>2. made = {CreationOrder[i] : i \in 1..k}
      BY <3>1, PrefixElements
    <3>3. \A i \in 1..k : CreationOrder[i] # CreationOrder[k + 1]
      BY Orders
    <3>4. k + 1 \in 1..Len(CreationOrder)
      BY Orders
    <3>5. CreationOrder[k + 1] \in Resources
      BY <3>1, <3>4
    <3> QED
      BY <3>1, <3>2, <3>3, <3>5
  <2>2. \/ /\ box' = [y \in Resources |-> IF y \in made THEN "created" ELSE box[y]]
           /\ owner' = [owner EXCEPT !.known = made \cup {x}, !.removed = {x}]
           /\ late' = late
        \/ /\ \E there \in {"absent", "created"} :
                /\ box' = [y \in Resources |-> IF y \in made THEN "created"
                                               ELSE IF y = x THEN there ELSE box[y]]
                /\ late' \in IF there = "absent" THEN {{}, {x}} ELSE {{}}
           /\ owner' = [owner EXCEPT !.known = made, !.unresolved = {x}]
    BY <1>3 DEF StopsInCreation
  <2> HIDE DEF made, x
  <2>3. CASE /\ box' = [y \in Resources |-> IF y \in made THEN "created" ELSE box[y]]
             /\ owner' = [owner EXCEPT !.known = made \cup {x}, !.removed = {x}]
             /\ late' = late
    <3>1. /\ late' = {}
          /\ owner' = [f \in {"known", "unresolved", "removed", "created"} |-> owner'[f]]
          /\ owner'.known = made \cup {x} /\ owner'.created = FALSE
          /\ owner'.removed = {x} /\ owner'.unresolved = {}
      BY <2>3 DEF NothingYet
    <3>2. \A y \in Resources : box'[y] \in {"absent", "created"}
      BY <2>3 DEF NothingYet
    <3>3. box' \in [Resources -> BoxStates] /\ box'[x] = "absent"
      BY <2>1, <2>3, <3>2 DEF BoxStates, NothingYet
    <3> QED
      BY <2>1, <3>1, <3>2, <3>3 DEF OwnerFits, OwnerTypes
  <2>4. ASSUME NEW there \in {"absent", "created"},
               box' = [y \in Resources |-> IF y \in made THEN "created"
                                           ELSE IF y = x THEN there ELSE box[y]],
               late' \in IF there = "absent" THEN {{}, {x}} ELSE {{}},
               owner' = [owner EXCEPT !.known = made, !.unresolved = {x}]
        PROVE  /\ OwnerFits' /\ owner'.removed = {} /\ owner'.created = FALSE
               /\ \A y \in Resources : box'[y] \in {"absent", "created"}
    <3>1. /\ owner' = [f \in {"known", "unresolved", "removed", "created"} |-> owner'[f]]
          /\ owner'.known = made /\ owner'.created = FALSE
          /\ owner'.removed = {} /\ owner'.unresolved = {x}
      BY <2>4 DEF NothingYet
    <3>2. \A y \in Resources : box'[y] \in {"absent", "created"}
      BY <2>4 DEF NothingYet
    <3>3. box' \in [Resources -> BoxStates] /\ box'[x] = there
      BY <2>1, <2>4, <3>2 DEF BoxStates, NothingYet
    <3>4. late' = {} \/ (late' = {x} /\ box'[x] = "absent")
      BY <2>4, <3>3
    <3> QED
      BY <2>1, <3>1, <3>2, <3>3, <3>4 DEF OwnerFits, OwnerTypes
  <2> QED
    BY <2>1, <2>2, <2>3, <2>4
<1>4. Len(CreationOrder) = 5 /\ 0..(5 - 1) = 0..4
  BY Orders
<1>5. CASE CreateFails
  <2>2. \/ \E k \in 0..5 : StopsBetweenCreations(k)
        \/ \E k \in 0..4 : StopsInCreation(k)
    BY <1>4, <1>5 DEF CreateFails
  <2>3. OwnerFits' /\ \A x \in Resources : box'[x] \in {"absent", "created"}
    BY <1>2, <1>3, <2>2
  <2>4. ~CreateAll
    <3>1. owner'.created = FALSE
      BY <1>2, <1>3, <2>2
    <3>2. CreateAll => owner'.created = TRUE
      BY DEF CreateAll, NothingYet
    <3> QED
      BY <3>1, <3>2
  <2> QED
    BY <2>3, <2>4
<1> QED
  BY <1>1, <1>5

LEMMA StartFits ==
  ASSUME OwnerFits, NEW r \in Roles, StartHeld(r)
  PROVE  /\ OwnerFits' /\ owner' = owner /\ late' = late
         /\ box[r] = "created" /\ box'[r] = "starting"
         /\ \A x \in Resources : x # r => box'[x] = box[x]
<1>1. /\ box[r] = "created" /\ box' = [box EXCEPT ![r] = "starting"]
      /\ owner' = owner /\ late' = late
  BY DEF StartHeld
<1>2. box \in [Resources -> BoxStates] /\ r \in Resources
  BY DEF OwnerFits, OwnerTypes, Resources
<1>3. /\ box' \in [Resources -> BoxStates] /\ box'[r] = "starting"
      /\ \A x \in Resources : x # r => box'[x] = box[x]
  BY <1>1, <1>2 DEF BoxStates
<1>4. OwnerFits'
  BY <1>1, <1>3 DEF OwnerFits, OwnerTypes
<1> QED
  BY <1>1, <1>3, <1>4

LEMMA DaemonFits ==
  ASSUME OwnerFits, NEW x \in Resources, DaemonCreates(x)
  PROVE  /\ OwnerFits' /\ owner' = owner /\ ~owner.created /\ x \notin owner.removed
         /\ \A y \in Resources : y # x => box'[y] = box[y]
         /\ box'[x] = "created" /\ box[x] = "absent"
<1>1. /\ x \in late /\ box' = [box EXCEPT ![x] = "created"]
      /\ owner' = owner /\ late' = late \ {x}
  BY DEF DaemonCreates
<1>2. box \in [Resources -> BoxStates] /\ box[x] = "absent" /\ x \in owner.unresolved
  BY <1>1 DEF OwnerFits, OwnerTypes
<1>3. /\ box' \in [Resources -> BoxStates] /\ box'[x] = "created"
      /\ \A y \in Resources : y # x => box'[y] = box[y]
  BY <1>1, <1>2 DEF BoxStates
<1>4. ~owner.created /\ x \notin owner.removed
  BY <1>2 DEF OwnerFits
<1>5. OwnerFits'
  BY <1>1, <1>3, <1>4 DEF OwnerFits, OwnerTypes
<1> QED
  BY <1>1, <1>2, <1>3, <1>4, <1>5

\* A container that runs goes on, or ends.
LEMMA ContainerFits ==
  ASSUME OwnerFits, BarrierFits, NEW r \in Roles,
         RoleReportsHeld(r) \/ RoleExecutes(r) \/ RoleExits(r) \/ RoleFails(r)
  PROVE  /\ OwnerFits' /\ BarrierFits' /\ owner' = owner /\ late' = late
         /\ box[r] \in RunningStates /\ box'[r] \in RunningStates \cup {"exited", "failed"}
         /\ \A x \in Resources : x # r => box'[x] = box[x]
         /\ box'[r] = "executing" => r \in frames.release
         /\ frames'.release = frames.release /\ barrier' = barrier
<1>1. /\ \E s \in {"held", "executing", "exited", "failed"} :
              box' = [box EXCEPT ![r] = s] /\ (s = "executing" => r \in frames.release)
      /\ owner' = owner /\ late' = late /\ box[r] \in RunningStates
  BY DEF RoleReportsHeld, RoleExecutes, RoleExits, RoleFails, Running, RunningStates
<1>2. box \in [Resources -> BoxStates] /\ r \in Resources
  BY DEF OwnerFits, OwnerTypes, Resources
<1>3. /\ box' \in [Resources -> BoxStates] /\ box'[r] \in {"held", "executing", "exited", "failed"}
      /\ \A x \in Resources : x # r => box'[x] = box[x]
      /\ box'[r] = "executing" => r \in frames.release
  BY <1>1, <1>2 DEF BoxStates
<1>4. OwnerFits'
  <2>1. box[r] # "absent"
    BY <1>1 DEF RunningStates
  <2> QED
    BY <1>1, <1>3, <2>1 DEF OwnerFits, OwnerTypes
<1>5. frames'.release = frames.release /\ barrier' = barrier /\ BarrierFits'
  <2>1. barrier' = barrier /\ (frames' = frames \/ frames' = [frames EXCEPT !.held = @ \cup {r}])
    BY DEF RoleReportsHeld, RoleExecutes, RoleExits, RoleFails, barrierVars
  <2> QED
    BY <2>1 DEF BarrierFits
<1> QED
  BY <1>1, <1>3, <1>4, <1>5 DEF RunningStates

-----------------------------------------------------------------------------
(* What the requests do to the helper.                                     *)

\* A bound role keeps its baseline, a released one stays released, and a role is released,
\* and the helper terminated, only behind a removal.
Orderly ==
  /\ HelperTypes'
  /\ \A r \in Roles :
       /\ helper.status[r] # "NONE" =>
            helper'.status[r] # "NONE" /\ helper'.baseline[r] = helper.baseline[r]
       /\ helper.status[r] = "RELEASED" => helper'.status[r] = "RELEASED"
       /\ helper'.status[r] = "RELEASED" => helper.status[r] = "RELEASED" \/ r \in owner.removed
  /\ helper'.session = "terminated" =>
       helper.session = "terminated" \/ Resources \subseteq owner'.removed
  /\ helper.session = "stopped" =>
       helper'.session \in {"stopped", "terminated"} /\ helper'.status = helper.status
  /\ cpu' = cpu

LEMMA NoRequestIsOrderly ==
  ASSUME HelperTypes, UNCHANGED helperVars
  PROVE  Orderly
<1>1. helper' = helper /\ cpu' = cpu
  BY DEF helperVars
<1> QED
  BY <1>1 DEF Orderly, HelperTypes

LEMMA SessionIsOrderly ==
  ASSUME HelperTypes, NEW s \in {"open", "poisoned", "stopped", "terminated"},
         helper' = [helper EXCEPT !.session = s], cpu' = cpu,
         s = "terminated" => helper.session = "terminated" \/ Resources \subseteq owner'.removed,
         helper.session = "stopped" => s \in {"stopped", "terminated"}
  PROVE  Orderly /\ helper'.session = s /\ helper'.status = helper.status
<1>1. /\ helper' = [f \in {"session", "status", "baseline"} |-> helper'[f]]
      /\ helper'.session = s /\ helper'.status = helper.status
      /\ helper'.baseline = helper.baseline
  BY DEF HelperTypes
<1> QED
  BY <1>1 DEF Orderly, HelperTypes

LEMMA FailedRequestIsOrderly ==
  ASSUME HelperTypes, RequestFails \/ Poison
  PROVE  Orderly /\ (helper.session = "stopped" => helper'.session = "stopped")
<1>1. CASE UNCHANGED helperVars
  BY <1>1, NoRequestIsOrderly DEF helperVars
<1>2. CASE Poison
  <2> DEFINE s == IF helper.session = "open" THEN "poisoned" ELSE helper.session
  <2>1. helper' = [helper EXCEPT !.session = s] /\ cpu' = cpu
    BY <1>2 DEF Poison
  <2>2. s \in {"open", "poisoned", "stopped", "terminated"}
    BY DEF HelperTypes
  <2>3. /\ s = "terminated" => helper.session = "terminated"
        /\ helper.session = "stopped" => s = "stopped"
    OBVIOUS
  <2> HIDE DEF s
  <2> QED
    BY <2>1, <2>2, <2>3, SessionIsOrderly
<1> QED
  BY <1>1, <1>2 DEF RequestFails

LEMMA BindIsOrderly ==
  ASSUME HelperTypes, NEW r \in Roles, Bind(r)
  PROVE  Orderly /\ helper'.status[r] = "BOUND" /\ helper'.baseline[r] = cpu[r]
<1>1. /\ helper.session = "open" /\ helper.status[r] = "NONE" /\ cpu' = cpu
      /\ helper' = [helper EXCEPT !.status[r] = "BOUND", !.baseline[r] = cpu[r]]
  BY DEF Bind
<1>2. /\ helper' = [f \in {"session", "status", "baseline"} |-> helper'[f]]
      /\ helper'.session = helper.session
      /\ helper'.status = [helper.status EXCEPT ![r] = "BOUND"]
      /\ helper'.baseline = [helper.baseline EXCEPT ![r] = cpu[r]]
  BY <1>1 DEF HelperTypes
<1>3. /\ helper'.status \in [Roles -> RoleStatus] /\ helper'.baseline \in [Roles -> Nat]
      /\ helper'.status[r] = "BOUND" /\ helper'.baseline[r] = cpu[r]
      /\ \A q \in Roles : q # r =>
           helper'.status[q] = helper.status[q] /\ helper'.baseline[q] = helper.baseline[q]
  BY <1>2 DEF HelperTypes, RoleStatus
<1>4. HelperTypes'
  BY <1>1, <1>2, <1>3 DEF HelperTypes
<1> QED
  BY <1>1, <1>2, <1>3, <1>4 DEF Orderly

LEMMA StatusIsOrderly ==
  ASSUME HelperTypes, NEW r \in Roles, NEW s \in RoleStatus,
         NEW t \in {"open", "poisoned"}, helper.session = "open",
         \/ helper' = [helper EXCEPT !.status[r] = s] /\ t = "open"
         \/ helper' = [helper EXCEPT !.session = t, !.status[r] = s],
         cpu' = cpu, s # "NONE", helper.status[r] # "RELEASED",
         s = "RELEASED" => r \in owner.removed
  PROVE  Orderly /\ helper'.status[r] = s
<1>1. /\ helper' = [f \in {"session", "status", "baseline"} |-> helper'[f]]
      /\ helper'.session = t
      /\ helper'.status = [helper.status EXCEPT ![r] = s]
      /\ helper'.baseline = helper.baseline
  BY DEF HelperTypes
<1>2. /\ helper'.status \in [Roles -> RoleStatus] /\ helper'.status[r] = s
      /\ \A q \in Roles : q # r => helper'.status[q] = helper.status[q]
  BY <1>1 DEF HelperTypes
<1>3. HelperTypes'
  BY <1>1, <1>2 DEF HelperTypes
<1> QED
  BY <1>1, <1>2, <1>3 DEF Orderly

LEMMA RequestIsOrderly ==
  ASSUME HelperTypes, NEW r \in Roles, NEW from, NEW s \in RoleStatus, Request(r, from, s),
         "RELEASED" \notin from, s # "NONE", s = "RELEASED" => r \in owner.removed
  PROVE  Orderly /\ helper'.status[r] = s
<1>1. /\ helper.session = "open" /\ helper.status[r] \in from /\ cpu' = cpu
      /\ helper' = [helper EXCEPT !.status[r] = s]
  BY DEF Request
<1>2. "open" \in {"open", "poisoned"} /\ helper.status[r] # "RELEASED"
  BY <1>1
<1> QED
  BY <1>1, <1>2, StatusIsOrderly

LEMMA RoleRequestsAreOrderly ==
  ASSUME HelperTypes, NEW r \in Roles
  PROVE  /\ Activate(r) => Orderly
         /\ Sample(r) => Orderly
         /\ ReadQuiescent(r) => Orderly
         /\ Release(r) => Orderly /\ helper'.status[r] = "RELEASED" /\ r \in owner.removed
         /\ Contain(r) => Orderly /\ StopRole(r)
<1>1. Activate(r) => Orderly
  BY RequestIsOrderly DEF Activate, RoleStatus
<1>2. Sample(r) => Orderly
  BY RequestIsOrderly DEF Sample, RoleStatus
<1>3. ReadQuiescent(r) => Orderly
  BY RequestIsOrderly DEF ReadQuiescent, RoleStatus
<1>4. Release(r) => Orderly /\ helper'.status[r] = "RELEASED" /\ r \in owner.removed
  BY RequestIsOrderly DEF Release, RoleStatus
<1>5. Contain(r) => Orderly
  BY RequestIsOrderly DEF Contain, RoleStatus
<1>6. Contain(r) => StopRole(r)
  BY DEF Contain, StopRole
<1> QED
  BY <1>1, <1>2, <1>3, <1>4, <1>5, <1>6

LEMMA FailedContainmentIsOrderly ==
  ASSUME HelperTypes, NEW r \in Roles, ContainFails(r)
  PROVE  Orderly /\ (StopRole(r) \/ UNCHANGED dockerVars)
<1>1. CASE UNCHANGED dockerVars /\ RequestFails
  BY <1>1, FailedRequestIsOrderly
<1>2. CASE Contain(r)
  BY <1>2, RoleRequestsAreOrderly
<1>3. CASE /\ helper.session = "open" /\ helper.status[r] \in {"BOUND", "ACTIVE"}
           /\ helper' = [helper EXCEPT !.session = "poisoned", !.status[r] = "FROZEN"]
           /\ box' \in {box, [box EXCEPT ![r] = IF Running(r) THEN "failed" ELSE @]}
           /\ UNCHANGED <<cpu, late, owner>>
  <2>1. "FROZEN" \in RoleStatus /\ "poisoned" \in {"open", "poisoned"}
        /\ helper.status[r] # "RELEASED" /\ cpu' = cpu
    BY <1>3 DEF RoleStatus
  <2>2. Orderly
    BY <1>3, <2>1, StatusIsOrderly
  <2>3. StopRole(r) \/ UNCHANGED dockerVars
    BY <1>3 DEF StopRole, dockerVars
  <2> QED
    BY <2>2, <2>3
<1> QED
  BY <1>1, <1>2, <1>3 DEF ContainFails

LEMMA StopIsOrderly ==
  ASSUME HelperTypes
  PROVE  /\ StopHelper => /\ Orderly /\ helper'.session = "stopped"
                          /\ helper'.status = helper.status
                          /\ helper.session = "open" => BoundRoles = {}
         /\ StopHelperFails => Orderly
         /\ TerminateHelper => Orderly
<1>1. ASSUME StopHelper
      PROVE  /\ Orderly /\ helper'.session = "stopped" /\ helper'.status = helper.status
             /\ helper.session = "open" => BoundRoles = {}
  BY <1>1, SessionIsOrderly DEF StopHelper
<1>2. ASSUME StopHelperFails PROVE Orderly
  BY <1>2, NoRequestIsOrderly, FailedRequestIsOrderly DEF StopHelperFails
<1>3. ASSUME TerminateHelper PROVE Orderly
  BY <1>3, SessionIsOrderly DEF TerminateHelper
<1> QED
  BY <1>1, <1>2, <1>3

LEMMA OrderlyFits ==
  ASSUME HelperFits, Orderly, owner.removed \subseteq owner'.removed
  PROVE  HelperFits'
BY DEF HelperFits, Orderly

-----------------------------------------------------------------------------
(* What the operations do to the barrier.                                  *)

LEMMA BarrierMoves ==
  ASSUME BarrierFits, NEW r \in Roles
  PROVE  /\ UNCHANGED barrierVars \/ AwaitHeld(r) \/ AwaitHeldFails(r) \/ ReleaseBarrierFails(r)
            \/ DestroyBarrier \/ DestroyBarrierFails =>
              /\ BarrierFits' /\ frames' = frames
              /\ barrier.destroyed => barrier'.destroyed
         /\ ReleaseBarrier(r) =>
              /\ BarrierFits' /\ frames'.release = frames.release \cup {r}
              /\ barrier.destroyed => barrier'.destroyed
         /\ DestroyBarrier => barrier'.destroyed
<1>1. ASSUME NEW s, barrier' = [barrier EXCEPT !.status[r] = s], frames' = frames
      PROVE  BarrierFits' /\ barrier'.destroyed = barrier.destroyed
  BY <1>1 DEF BarrierFits
<1>2. ASSUME DestroyBarrier PROVE BarrierFits' /\ barrier'.destroyed /\ frames' = frames
  BY <1>2 DEF BarrierFits, DestroyBarrier
<1>3. ASSUME UNCHANGED barrierVars
      PROVE  BarrierFits' /\ frames' = frames /\ barrier'.destroyed = barrier.destroyed
  <2>1. barrier' = barrier /\ frames' = frames
    BY <1>3 DEF barrierVars
  <2> QED
    BY <2>1 DEF BarrierFits
<1>4. ASSUME ReleaseBarrier(r)
      PROVE  /\ BarrierFits' /\ frames'.release = frames.release \cup {r}
             /\ barrier'.destroyed = barrier.destroyed
  <2>1. /\ barrier' = [barrier EXCEPT !.status[r] = "RELEASED"]
        /\ frames' = [frames EXCEPT !.release = frames.release \cup {r}]
    BY <1>4 DEF ReleaseBarrier
  <2> QED
    BY <2>1 DEF BarrierFits
<1>5. ASSUME AwaitHeld(r) \/ AwaitHeldFails(r) \/ ReleaseBarrierFails(r)
      PROVE  BarrierFits' /\ frames' = frames /\ barrier'.destroyed = barrier.destroyed
  <2>1. \/ UNCHANGED barrierVars
        \/ frames' = frames /\ \E s \in {"HELD", "FAILED"} : barrier' = [barrier EXCEPT !.status[r] = s]
    BY <1>5 DEF AwaitHeld, AwaitHeldFails, ReleaseBarrierFails
  <2> QED
    BY <1>1, <1>3, <2>1
<1> QED
  BY <1>2, <1>3, <1>4, <1>5 DEF DestroyBarrierFails

-----------------------------------------------------------------------------
(* Steps that stop, remove and let go.                                     *)

\* A role is released when it is accounted for.
ReleasesAccounted ==
  /\ frames.release \subseteq frames'.release
  /\ \A r \in Roles : r \in frames'.release \ frames.release => Accounted(r)

\* What the parts around the core do in every step but the creation and the start of a role.
Calm ==
  /\ Subsides /\ BarrierFits' /\ HelperFits' /\ AdapterFits'
  /\ ReleasesAccounted
  /\ adapter.bound \subseteq adapter'.bound
  /\ \A r \in Roles : helper.status[r] = "RELEASED" => helper'.status[r] = "RELEASED"
  /\ \A r \in adapter.bound : helper'.baseline[r] = helper.baseline[r]
  /\ cpu' = cpu
  /\ StoppedWell => StoppedWell'

\* What such a step leaves of the core.
ClaimsKept ==
  /\ CoreShape(core') /\ core'.phase \in {"running", "terminal"}
  /\ core'.result = core.result /\ core'.started = core.started
  /\ core'.baseline = core.baseline
  /\ core'.stopped \in BOOLEAN /\ (core'.stopped => core.stopped \/ StoppedWell')
  /\ core'.latest \in [Roles -> Int]
  /\ core'.thrown \in BOOLEAN /\ core'.sticky \in BOOLEAN /\ core'.hung \in BOOLEAN
  /\ core'.cgroup \subseteq adapter'.cgroup

LEMMA CalmKeepsCore ==
  ASSUME CoreFits, core.phase # "done", Calm, ClaimsKept
  PROVE  CoreFits'
<1>1. core.result = "none" /\ core'.result = "none"
  BY DEF CoreFits, ClaimsKept
<1>2. CoreTypes'
  <2>1. core'.cgroup \subseteq Roles
    BY DEF ClaimsKept, Calm, AdapterFits, AdapterTypes
  <2> QED
    BY <2>1, <1>1 DEF CoreFits, CoreTypes, ClaimsKept
<1>3. ASSUME NEW r \in Roles
      PROVE  /\ box'[r] = box[r] \/ box'[r] = "absent" \/ (box[r] \in RunningStates /\ box'[r] = "failed")
  BY RoleNames DEF Calm, Subsides
<1>4. ASSUME NEW r \in core'.started PROVE box'[r] # "created" /\ owner'.created
  <2>1. r \in core.started /\ r \in Roles
    BY <1>4 DEF ClaimsKept, CoreFits, CoreTypes
  <2>2. box[r] # "created" /\ owner.created
    BY <2>1 DEF CoreFits
  <2> QED
    BY <1>3, <2>1, <2>2 DEF Calm, Subsides
<1>5. ASSUME NEW r \in Roles, box'[r] = "executing" PROVE r \in frames'.release
  <2>1. box[r] = "executing"
    BY <1>3, <1>5
  <2> QED
    BY <2>1 DEF CoreFits, Calm, ReleasesAccounted
<1>6. ASSUME NEW r \in Roles, r \in frames'.release PROVE Accounted(r)'
  <2>1. Accounted(r)
    BY <1>6 DEF CoreFits, Calm, ReleasesAccounted
  <2> QED
    BY <2>1 DEF Accounted, Calm, ClaimsKept
<1>7. core'.stopped => StoppedWell'
  BY DEF CoreFits, Calm, ClaimsKept
<1>8. ~Clean' => helper'.status["worker"] = "RELEASED" /\ helper'.status["egress"] = "RELEASED"
  <2>1. {"worker", "egress", "verifier"} = Roles
    BY RoleNames
  <2>2. ~Clean' => ~Clean
    BY <1>3, <2>1 DEF Clean, RunningStates
  <2> QED
    BY <2>1, <2>2 DEF CoreFits, Calm
<1> QED
  BY <1>1, <1>2, <1>4, <1>5, <1>6, <1>7, <1>8 DEF CoreFits, ClaimsKept

LEMMA CalmKeepsDone ==
  ASSUME CoreFits, OwnerFits, Calm, ClaimsKept, NEW p \in 1..39, DoneBy(p),
         core.cgroup \subseteq core'.cgroup, core.sticky => core'.sticky,
         \A r \in Roles : core'.latest[r] \in {core.latest[r], cpu[r]},
         p > 33 => core'.latest = core.latest /\ (core.thrown => core'.thrown)
  PROVE  DoneBy(p)'
<1>1. ASSUME NEW r \in Roles
      PROVE  /\ box'[r] = box[r] \/ box'[r] = "absent" \/ (box[r] \in RunningStates /\ box'[r] = "failed")
  BY RoleNames DEF Calm, Subsides
<1>2. ASSUME NEW r \in Roles, Final(r) PROVE Final(r)'
  BY <1>1, <1>2 DEF Final, Calm, RunningStates
<1>3. p > 1 => owner'.created
  BY DEF DoneBy, Calm, Subsides
<1>4. ASSUME NEW r \in Roles
      PROVE  /\ p > SetupAt(r) => r \in core'.started
             /\ p > SetupAt(r) + 2 => r \in adapter'.bound
             /\ p > CleanupAt(r) + 1 /\ ~core'.sticky => Final(r)'
             /\ p > CleanupAt(r) + 3 /\ ~core'.sticky => r \in core'.cgroup
  BY <1>2 DEF DoneBy, Calm, ClaimsKept
<1>5. ASSUME NEW r \in Roles, p > SetupAt(r) + 3 PROVE core'.baseline[r] = helper'.baseline[r]
  <2>1. core.baseline[r] = helper.baseline[r]
    BY <1>5 DEF DoneBy
  <2>2. p > SetupAt(r) + 2
    BY <1>5 DEF SetupAt
  <2>3. r \in adapter.bound
    BY <2>2 DEF DoneBy
  <2> QED
    BY <2>1, <2>3 DEF Calm, ClaimsKept
<1>6. p > 24 => "worker" \in core'.cgroup /\ "egress" \in core'.cgroup
  BY DEF DoneBy
<1>7. ASSUME p > 33, ~core'.sticky
      PROVE  (p < 37 /\ core'.thrown) \/ (CumulativeCpu(core.latest) <= Budget)'
  <2>1. core'.latest = core.latest /\ core'.baseline = core.baseline
    BY <1>7 DEF ClaimsKept
  <2>2. (CumulativeCpu(core.latest) <= Budget)' <=> CumulativeCpu(core.latest) <= Budget
    BY <2>1 DEF CumulativeCpu
  <2>3. ~core.sticky
    BY <1>7
  <2>4. (p < 37 /\ core.thrown) \/ CumulativeCpu(core.latest) <= Budget
    BY <1>7, <2>3 DEF DoneBy
  <2> QED
    BY <1>7, <2>2, <2>4
<1> QED
  BY <1>3, <1>4, <1>5, <1>6, <1>7 DEF DoneBy

\* What the operation at a position adds.
Achieves(p) ==
  /\ p = 1 => owner'.created
  /\ \A r \in Roles :
       /\ p = SetupAt(r) => r \in core'.started
       /\ p = SetupAt(r) + 2 => r \in adapter'.bound
       /\ p = SetupAt(r) + 3 => core'.baseline[r] = helper'.baseline[r]
       /\ p = CleanupAt(r) + 1 /\ ~core'.sticky => Final(r)'
       /\ p = CleanupAt(r) + 3 /\ ~core'.sticky => r \in core'.cgroup
  /\ p = 24 => ~core'.sticky
  /\ p = 33 /\ ~core'.sticky => core'.thrown \/ (CumulativeCpu(core.latest) <= Budget)'
  /\ p = 36 /\ ~core'.sticky => ~core'.thrown

LEMMA NextIsDone ==
  ASSUME NEW p \in 1..38, DoneBy(p)', Achieves(p)
  PROVE  DoneBy(p + 1)'
<1>1. Roles = {"egress", "worker", "verifier"}
  BY RoleNames
<1>2. ASSUME NEW r \in Roles
      PROVE  /\ SetupAt(r) \in {2, 7, 25} /\ CleanupAt(r) \in {14, 19, 32}
             /\ r = "worker" => CleanupAt(r) = 14
             /\ r = "egress" => CleanupAt(r) = 19
             /\ r = "verifier" => CleanupAt(r) = 32
  BY <1>1, <1>2 DEF SetupAt, CleanupAt
<1>3. p + 1 > 1 => owner'.created
  BY DEF DoneBy, Achieves
<1>4. ASSUME NEW r \in Roles
      PROVE  /\ p + 1 > SetupAt(r) => r \in core'.started
             /\ p + 1 > SetupAt(r) + 2 => r \in adapter'.bound
             /\ p + 1 > SetupAt(r) + 3 => core'.baseline[r] = helper'.baseline[r]
             /\ p + 1 > CleanupAt(r) + 1 /\ ~core'.sticky => Final(r)'
             /\ p + 1 > CleanupAt(r) + 3 /\ ~core'.sticky => r \in core'.cgroup
  <2>1. /\ p + 1 > SetupAt(r) => p > SetupAt(r) \/ p = SetupAt(r)
        /\ p + 1 > SetupAt(r) + 2 => p > SetupAt(r) + 2 \/ p = SetupAt(r) + 2
        /\ p + 1 > SetupAt(r) + 3 => p > SetupAt(r) + 3 \/ p = SetupAt(r) + 3
        /\ p + 1 > CleanupAt(r) + 1 => p > CleanupAt(r) + 1 \/ p = CleanupAt(r) + 1
        /\ p + 1 > CleanupAt(r) + 3 => p > CleanupAt(r) + 3 \/ p = CleanupAt(r) + 3
    BY <1>2
  <2> QED
    BY <2>1 DEF DoneBy, Achieves
<1>5. ASSUME p + 1 > 24 PROVE "worker" \in core'.cgroup /\ "egress" \in core'.cgroup
  <2>1. CASE p > 24
    BY <2>1 DEF DoneBy
  <2>2. CASE p = 24
    <3>1. ~core'.sticky
      BY <2>2 DEF Achieves
    <3>2. {"worker", "egress"} \subseteq Roles
      BY <1>1
    <3>3. p > CleanupAt("worker") + 3 /\ p > CleanupAt("egress") + 3
      BY <1>2, <2>2, <3>2
    <3> QED
      BY <3>1, <3>2, <3>3 DEF DoneBy
  <2> QED
    BY <1>5, <2>1, <2>2
<1>6. ASSUME p + 1 > 33, ~core'.sticky
      PROVE  (p + 1 < 37 /\ core'.thrown) \/ (CumulativeCpu(core.latest) <= Budget)'
  <2>1. CASE p = 33
    BY <1>6, <2>1 DEF Achieves
  <2>2. CASE p > 33
    <3>1. (p < 37 /\ core'.thrown) \/ (CumulativeCpu(core.latest) <= Budget)'
      BY <1>6, <2>2 DEF DoneBy
    <3>2. p = 36 => ~core'.thrown
      BY <1>6 DEF Achieves
    <3> QED
      BY <3>1, <3>2
  <2> QED
    BY <1>6, <2>1, <2>2
<1> QED
  BY <1>3, <1>4, <1>5, <1>6 DEF DoneBy

LEMMA NextIsOpen ==
  ASSUME NEW p \in 1..38, OpenAt(p),
         \A r \in Roles : r \in core'.cgroup => r \in core.cgroup \/ p = CleanupAt(r) + 3
  PROVE  OpenAt(p + 1)'
<1>1. ASSUME NEW r \in Roles, p + 1 <= CleanupAt(r) + 3 PROVE r \notin core'.cgroup
  <2>1. CleanupAt(r) \in Nat
    BY DEF CleanupAt
  <2>2. p <= CleanupAt(r) + 3 /\ p # CleanupAt(r) + 3
    BY <1>1, <2>1
  <2> QED
    BY <2>2 DEF OpenAt
<1> QED
  BY <1>1 DEF OpenAt

-----------------------------------------------------------------------------
(* The ends of an operation, in the invariant.                             *)

\* What an operation may have made of the variables of the core when it ends.
Claims(c) ==
  /\ CoreShape(c) /\ c.phase = core.phase
  /\ c.result = core.result /\ c.started = core.started
  /\ c.baseline = core.baseline
  /\ c.stopped \in BOOLEAN /\ (c.stopped => core.stopped \/ StoppedWell')
  /\ c.latest \in [Roles -> Int]
  /\ c.thrown \in BOOLEAN /\ c.sticky \in BOOLEAN
  /\ ~c.hung /\ c.hung \in BOOLEAN
  /\ c.cgroup \subseteq adapter'.cgroup

LEMMA CoreClaims ==
  ASSUME CoreTypes, core.cgroup \subseteq adapter'.cgroup, ~core.hung
  PROVE  Claims(core)
BY DEF CoreTypes, Claims

LEMMA ClaimsAreKept ==
  ASSUME CoreTypes, core.phase # "done", NEW c, Claims(c), NEW s, Raised(c) \/ GoneOn(c, s)
  PROVE  ClaimsKept
<1>1. CASE Raised(c)
  BY <1>1 DEF Claims, Raised, SameClaims, ClaimsKept
<1>2. CASE GoneOn(c, s)
  BY <1>2 DEF CoreTypes, Claims, GoneOn, SameClaims, ClaimsKept
<1> QED
  BY <1>1, <1>2

\* A failure of the success path, or of the order of its stages.
LEMMA RaiseKeepsInv ==
  ASSUME LifecycleInv, core.phase # "done", Calm, NEW c, Claims(c), Raised(c)
  PROVE  LifecycleInv'
<1>1. CoreFits'
  <2>1. CoreTypes
    BY DEF LifecycleInv, CoreFits
  <2>2. ClaimsKept
    BY <2>1, ClaimsAreKept
  <2> QED
    BY <2>2, CalmKeepsCore DEF LifecycleInv
<1>2. PositionFits'
  BY RaisedFits DEF Claims
<1> QED
  BY <1>1, <1>2 DEF LifecycleInv, Calm, Subsides

LEMMA RunningGoesOn ==
  ASSUME LifecycleInv, core.phase = "running", Calm, NEW c, Claims(c),
         NEW p \in 1..38, RestOf(todo, SuccessProgram, p), Reached(p),
         Raised(c) \/ GoneOn(c, Tail(todo)),
         c.sticky = core.sticky,
         core.cgroup \subseteq c.cgroup,
         \A r \in Roles : r \in c.cgroup => r \in core.cgroup \/ p = CleanupAt(r) + 3,
         \A r \in Roles : c.latest[r] \in {core.latest[r], cpu[r]},
         p > 33 => c.latest = core.latest /\ (core.thrown => c.thrown),
         GoneOn(c, Tail(todo)) => Achieves(p)
  PROVE  LifecycleInv'
<1>1. CASE Raised(c)
  BY <1>1, RaiseKeepsInv
<1>2. CASE GoneOn(c, Tail(todo))
  <2>1. /\ core'.sticky = c.sticky /\ core'.cgroup = c.cgroup /\ core'.latest = c.latest
        /\ core'.thrown = c.thrown
    BY <1>2 DEF GoneOn, SameClaims
  <2>2. CoreTypes /\ CoreFits /\ OwnerFits /\ PositionFits
    BY DEF LifecycleInv, CoreFits
  <2>3. ClaimsKept
    BY <1>2, <2>2, ClaimsAreKept
  <2>4. CoreFits'
    BY <2>2, <2>3, CalmKeepsCore
  <2>5. DoneBy(p)'
    BY <2>1, <2>2, <2>3, CalmKeepsDone DEF Reached
  <2>6. DoneBy(p + 1)'
    BY <1>2, <2>5, NextIsDone
  <2>7. OpenAt(p + 1)'
    BY <2>1, NextIsOpen DEF Reached
  <2>8. Reached(p + 1)'
    BY <2>6, <2>7 DEF Reached
  <2>9. Tail(todo) \in Seq(Operation) /\ RestOf(Tail(todo), SuccessProgram, p + 1)
    <3>1. todo \in Seq(Operation)
      BY <2>2 DEF PositionFits
    <3>2. Len(SuccessProgram) = 39
      BY SuccessSteps
    <3>3. p \in Nat /\ p < Len(SuccessProgram)
      BY <3>2
    <3> QED
      BY <3>1, <3>3, RestAfterOne, ProgramsAreSequences
  <2>10. c.phase = "running" /\ ~c.hung /\ p + 1 \in 1..39
    BY DEF Claims
  <2>11. PositionFits'
    BY <1>2, <2>8, <2>9, <2>10, GoneOnInSuccess
  <2> QED
    BY <2>4, <2>11 DEF LifecycleInv, Calm, Subsides
<1> QED
  BY <1>1, <1>2

LEMMA CleaningGoesOn ==
  ASSUME LifecycleInv, core.phase = "terminal", Calm, NEW c, Claims(c),
         NEW p \in 1..16, RestOf(todo, TerminalProgram, p),
         Raised(c) \/ GoneOn(c, Tail(todo)),
         p = 16 => c.stopped \/ c.sticky
  PROVE  LifecycleInv'
<1>1. CASE Raised(c)
  BY <1>1, RaiseKeepsInv
<1>2. CASE GoneOn(c, Tail(todo))
  <2>2. CoreTypes /\ CoreFits /\ OwnerFits /\ PositionFits
    BY DEF LifecycleInv, CoreFits
  <2>3. ClaimsKept
    BY <1>2, <2>2, ClaimsAreKept
  <2>4. CoreFits'
    BY <2>2, <2>3, CalmKeepsCore
  <2>9. Tail(todo) \in Seq(Operation) /\ RestOf(Tail(todo), TerminalProgram, p + 1)
    <3>1. todo \in Seq(Operation)
      BY <2>2 DEF PositionFits
    <3>2. Len(TerminalProgram) = 17
      BY TerminalSteps
    <3>3. p \in Nat /\ p < Len(TerminalProgram)
      BY <3>2
    <3> QED
      BY <3>1, <3>3, RestAfterOne, ProgramsAreSequences
  <2>10. c.phase = "terminal" /\ ~c.hung /\ p + 1 \in 1..17
    BY DEF Claims
  <2>11. PositionFits'
    <3>1. p + 1 = 17 => c.stopped \/ c.sticky
      OBVIOUS
    <3> QED
      BY <1>2, <2>9, <2>10, <3>1, GoneOnInTerminal
  <2> QED
    BY <2>4, <2>11 DEF LifecycleInv, Calm, Subsides
<1> QED
  BY <1>1, <1>2

LEMMA CleaningPositions ==
  /\ \A p \in 1..39 : SuccessProgram[p].op \in Cleaning =>
       /\ p \in 14..23 \cup 32..36 \cup {38}
       /\ SuccessProgram[p].op = "stopOrContainRole" => p \in {14, 19, 32}
  /\ \A p \in 1..17 : TerminalProgram[p].op \in Cleaning =>
       p \in 1..16 /\ (TerminalProgram[p].op = "stopOrContainRole" => p \in {1, 6, 11})
<1>1. ASSUME NEW p \in 1..39, SuccessProgram[p].op \in Cleaning
      PROVE  /\ p \in 14..23 \cup 32..36 \cup {38}
             /\ SuccessProgram[p].op = "stopOrContainRole" => p \in {14, 19, 32}
  BY <1>1, SuccessSteps DEF Cleaning, Step
<1>2. ASSUME NEW p \in 1..17, TerminalProgram[p].op \in Cleaning
      PROVE  p \in 1..16 /\ (TerminalProgram[p].op = "stopOrContainRole" => p \in {1, 6, 11})
  BY <1>2, TerminalSteps DEF Cleaning, Step
<1> QED
  BY <1>1, <1>2

\* With its failure recorded, a cleanup operation has nothing to show.
LEMMA FailureAchieves ==
  ASSUME NEW p \in 14..23 \cup 32..36 \cup {38}, core'.sticky
  PROVE  Achieves(p)
<1>1. \A r \in Roles : SetupAt(r) \in {2, 7, 25}
  BY RoleNames DEF SetupAt
<1> QED
  BY <1>1 DEF Achieves

LEMMA AfterTheFailure ==
  ASSUME NEW program \in Seq(Operation), NEW p \in Nat, RestOf(todo, program, p),
         todo \in Seq(Operation), p < Len(program),
         Current.op = "stopOrContainRole" => p + 1 < Len(program)
  PROVE  /\ AfterFailure \in Seq(Operation)
         /\ RestOf(AfterFailure, program,
                   IF Current.op = "stopOrContainRole" THEN p + 2 ELSE p + 1)
<1>1. Tail(todo) \in Seq(Operation) /\ RestOf(Tail(todo), program, p + 1)
  BY RestAfterOne
<1>2. ASSUME Current.op = "stopOrContainRole"
      PROVE  Tail(Tail(todo)) \in Seq(Operation) /\ RestOf(Tail(Tail(todo)), program, p + 2)
  <2>1. p + 1 \in Nat /\ p + 1 < Len(program) /\ p + 1 + 1 = p + 2
    BY <1>2
  <2> HIDE DEF Current
  <2> QED
    BY <1>1, <2>1, RestAfterOne
<1> QED
  BY <1>1, <1>2 DEF AfterFailure

\* A failure that sticks.
LEMMA SticksKeepsInv ==
  ASSUME LifecycleInv, core.phase # "done", Calm, NEW c, Claims(c),
         c.cgroup = core.cgroup, c.latest = core.latest, c.thrown = core.thrown,
         NEW op \in Cleaning, NEW r, Current = Step(op, r), Sticks(c)
  PROVE  LifecycleInv'
<1> DEFINE d == [c EXCEPT !.sticky = TRUE,
                          !.record = @ /\ ~(Current.op \in {"stopOrContainRole", "readQuiescentSample"})]
<1>1. GoTo(d, AfterFailure)
  BY DEF Sticks
<1>2. /\ CoreShape(d) /\ d.sticky = TRUE /\ d.phase = c.phase /\ d.result = c.result
      /\ d.started = c.started /\ d.cgroup = c.cgroup /\ d.baseline = c.baseline
      /\ d.latest = c.latest /\ d.thrown = c.thrown /\ d.stopped = c.stopped /\ d.hung = c.hung
  BY DEF CoreShape, CoreFields, Claims
<1> HIDE DEF d
<1>3. Claims(d)
  BY <1>2 DEF Claims
<1>4. GoneOn(d, AfterFailure)
  BY <1>1, <1>2, GoToIsGoneOn
<1>5. /\ core'.sticky /\ core'.cgroup = core.cgroup /\ core'.latest = core.latest
      /\ core'.thrown = core.thrown
  BY <1>2, <1>4 DEF GoneOn, SameClaims
<1>6. CoreTypes /\ CoreFits /\ OwnerFits /\ PositionFits /\ todo \in Seq(Operation)
  BY DEF LifecycleInv, CoreFits, PositionFits
<1>7. ClaimsKept
  BY <1>3, <1>4, <1>6, ClaimsAreKept
<1>8. CoreFits'
  BY <1>6, <1>7, CalmKeepsCore
<1>9. op # "sampleRole" /\ Current.op = op
  BY DEF Cleaning, Step
<1>10. CASE core.phase = "running"
  <2>1. PICK p \in 1..39 : /\ RestOf(todo, SuccessProgram, p) /\ Reached(p)
                           /\ SuccessProgram[p] = Step(op, r)
    BY <1>6, <1>9, <1>10, SuccessPosition
  <2>2. SuccessProgram[p].op = op
    BY <2>1 DEF Step
  <2>3. /\ p \in 14..23 \cup 32..36 \cup {38}
        /\ Current.op = "stopOrContainRole" => p \in {14, 19, 32}
    BY <1>9, <2>2, CleaningPositions
  <2>4. DoneBy(p)'
    BY <1>5, <1>6, <1>7, <2>1, CalmKeepsDone DEF Reached
  <2>5. DoneBy(p + 1)'
    BY <1>5, <2>3, <2>4, FailureAchieves, NextIsDone
  <2>6. Current.op = "stopOrContainRole" => DoneBy(p + 2)'
    <3>1. SUFFICES ASSUME p \in {14, 19, 32} PROVE DoneBy(p + 2)'
      BY <2>3
    <3>2. p + 1 \in 14..23 \cup 32..36 \cup {38} /\ p + 1 \in 1..38 /\ (p + 1) + 1 = p + 2
      BY <3>1
    <3>3. DoneBy((p + 1) + 1)'
      BY <1>5, <2>5, <3>2, FailureAchieves, NextIsDone
    <3> QED
      BY <3>2, <3>3
  <2>7. PICK q \in 15..39 : q > p /\ q = IF Current.op = "stopOrContainRole" THEN p + 2 ELSE p + 1
    BY <2>3
  <2>8. OpenAt(q)'
    <3>1. ASSUME NEW x \in Roles, q <= CleanupAt(x) + 3 PROVE x \notin core'.cgroup
      <4>1. CleanupAt(x) \in Nat
        BY DEF CleanupAt
      <4>2. p <= CleanupAt(x) + 3 => x \notin core.cgroup
        BY <2>1 DEF Reached, OpenAt
      <4> QED
        BY <1>5, <2>7, <3>1, <4>1, <4>2
    <3> QED
      BY <2>7, <3>1 DEF OpenAt
  <2>9. Reached(q)'
    BY <2>5, <2>6, <2>7, <2>8 DEF Reached
  <2>10. AfterFailure \in Seq(Operation) /\ RestOf(AfterFailure, SuccessProgram, q)
    <3>1. Len(SuccessProgram) = 39
      BY SuccessSteps
    <3>2. p \in Nat /\ p < 39 /\ (Current.op = "stopOrContainRole" => p + 1 < 39)
      BY <2>3
    <3> QED
      BY <1>6, <2>1, <2>7, <3>1, <3>2, AfterTheFailure, ProgramsAreSequences
  <2>11. PositionFits'
    <3>1. d.phase = "running" /\ ~d.hung /\ q \in 1..39
      BY <1>3, <1>10 DEF Claims
    <3> QED
      BY <1>4, <2>9, <2>10, <3>1, GoneOnInSuccess
  <2> QED
    BY <1>8, <2>11 DEF LifecycleInv, Calm, Subsides
<1>11. CASE core.phase = "terminal"
  <2>1. PICK p \in 1..17 : RestOf(todo, TerminalProgram, p) /\ TerminalProgram[p] = Step(op, r)
    BY <1>6, <1>11, TerminalPosition
  <2>2. TerminalProgram[p].op = op
    BY <2>1 DEF Step
  <2>3. p \in 1..16 /\ (Current.op = "stopOrContainRole" => p \in {1, 6, 11})
    BY <1>9, <2>2, CleaningPositions
  <2>4. PICK q \in 1..17 : q = IF Current.op = "stopOrContainRole" THEN p + 2 ELSE p + 1
    BY <2>3
  <2>5. AfterFailure \in Seq(Operation) /\ RestOf(AfterFailure, TerminalProgram, q)
    <3>1. Len(TerminalProgram) = 17
      BY TerminalSteps
    <3>2. p \in Nat /\ p < 17 /\ (Current.op = "stopOrContainRole" => p + 1 < 17)
      BY <2>3
    <3> QED
      BY <1>6, <2>1, <2>4, <3>1, <3>2, AfterTheFailure, ProgramsAreSequences
  <2>6. PositionFits'
    <3>1. d.phase = "terminal" /\ ~d.hung /\ (q = 17 => d.stopped \/ d.sticky)
      BY <1>2, <1>3, <1>11 DEF Claims
    <3> QED
      BY <1>4, <2>5, <3>1, GoneOnInTerminal
  <2> QED
    BY <1>8, <2>6 DEF LifecycleInv, Calm, Subsides
<1> QED
  BY <1>6, <1>10, <1>11 DEF CoreTypes

\* An operation that does not come back, and the force that may be used on it.
Hangs ==
  /\ CoreShape(core') /\ core'.hung = TRUE /\ core'.phase = core.phase
  /\ core'.result = core.result /\ core'.started = core.started
  /\ core'.cgroup = core.cgroup /\ core'.baseline = core.baseline
  /\ core'.latest = core.latest /\ core'.thrown = core.thrown
  /\ core'.sticky \in BOOLEAN /\ (core.sticky => core'.sticky) /\ core'.stopped = core.stopped
  /\ todo' = todo

LEMMA HangKeepsInv ==
  ASSUME LifecycleInv, core.phase # "done", Calm, core.cgroup \subseteq adapter'.cgroup,
         NEW op \in Cleaning, NEW r, Current = Step(op, r), Hangs
  PROVE  LifecycleInv'
<1>1. /\ CoreShape(core') /\ core'.hung = TRUE /\ core'.phase = core.phase
      /\ core'.result = core.result /\ core'.started = core.started
      /\ core'.cgroup = core.cgroup /\ core'.baseline = core.baseline
      /\ core'.latest = core.latest /\ core'.thrown = core.thrown
      /\ core'.sticky \in BOOLEAN /\ (core.sticky => core'.sticky)
      /\ core'.stopped = core.stopped /\ todo' = todo
  BY DEF Hangs
<1>2. CoreTypes /\ CoreFits /\ OwnerFits /\ PositionFits /\ todo \in Seq(Operation)
  BY DEF LifecycleInv, CoreFits, PositionFits
<1>3. ClaimsKept
  BY <1>1, <1>2 DEF ClaimsKept, CoreTypes
<1>4. CoreFits'
  BY <1>2, <1>3, CalmKeepsCore
<1>5. Current.op = op /\ op # "sampleRole"
  BY DEF Cleaning, Step
<1>6. core'.phase = "running" => InSuccess'
  <2> SUFFICES ASSUME core.phase = "running" PROVE InSuccess'
    BY <1>1
  <2>1. PICK p \in 1..39 : /\ RestOf(todo, SuccessProgram, p) /\ Reached(p)
                           /\ SuccessProgram[p] = Step(op, r)
    BY <1>2, <1>5, SuccessPosition
  <2>2. SuccessProgram[p].op = op
    BY <2>1 DEF Step
  <2>3. p # 1
    BY <2>2, CleaningPositions
  <2>4. DoneBy(p)'
    BY <1>1, <1>2, <1>3, <2>1, CalmKeepsDone DEF Reached
  <2>5. OpenAt(p)'
    BY <1>1, <2>1, <2>3 DEF Reached, OpenAt
  <2>6. SamplesThenRest(todo', p)
    BY <1>1, <2>1, NoSampleBefore
  <2> QED
    BY <2>4, <2>5, <2>6 DEF InSuccess, Reached
<1>7. core'.phase = "terminal" => InTerminal'
  BY <1>1, <1>2 DEF PositionFits, InTerminal
<1>8. core'.hung => todo'[1].op \in Cleaning
  BY <1>1, <1>5 DEF Current
<1>9. PositionFits'
  BY <1>1, <1>2, <1>6, <1>7, <1>8 DEF PositionFits
<1> QED
  BY <1>4, <1>9 DEF LifecycleInv, Calm, Subsides

-----------------------------------------------------------------------------
(* What is asked of the parts around the core for a step to be calm.       *)

LEMMA MakesCalm ==
  ASSUME LifecycleInv, Subsides, BarrierFits', ReleasesAccounted,
         barrier.destroyed => barrier'.destroyed,
         Orderly, AdapterTypes', adapter.bound \subseteq adapter'.bound,
         \A r \in adapter'.bound :
           r \in adapter.bound \/ (helper'.status[r] # "NONE" /\ r \notin adapter'.cgroup),
         adapter'.receipt \subseteq adapter.receipt \cup owner'.removed,
         adapter'.cgroup \subseteq adapter'.receipt,
         \A r \in adapter'.cgroup :
           r \in adapter.cgroup \/ r \notin adapter'.bound \/ helper'.status[r] = "RELEASED",
         adapter.stopped =>
           adapter'.stopped /\ (helper.session = "stopped" => helper'.session = "stopped")
  PROVE  Calm
<1>1. /\ owner.removed \subseteq owner'.removed /\ HelperFits /\ AdapterFits
      /\ adapter.bound \subseteq Roles /\ adapter.cgroup \subseteq Roles
  BY DEF LifecycleInv, Subsides, AdapterFits, AdapterTypes
<1>2. HelperFits'
  BY <1>1, OrderlyFits
<1>3. AdapterFits'
  <2>1. \A r \in adapter'.bound : helper'.status[r] # "NONE"
    BY <1>1 DEF AdapterFits, Orderly
  <2>2. adapter'.receipt \subseteq owner'.removed
    BY <1>1 DEF AdapterFits
  <2>3. ASSUME NEW r \in adapter'.cgroup, r \in adapter'.bound
        PROVE  helper'.status[r] = "RELEASED"
    <3>1. r \in adapter.bound
      BY <2>3
    <3>2. r \in adapter.cgroup => helper.status[r] = "RELEASED"
      BY <1>1, <3>1 DEF AdapterFits
    <3> QED
      BY <1>1, <2>3, <3>1, <3>2 DEF Orderly
  <2> QED
    BY <2>1, <2>2, <2>3 DEF AdapterFits
<1>4. \A r \in adapter.bound : helper'.baseline[r] = helper.baseline[r]
  BY <1>1 DEF AdapterFits, Orderly
<1>5. StoppedWell => StoppedWell'
  BY <1>1 DEF StoppedWell, Orderly, BoundRoles
<1> QED
  BY <1>2, <1>3, <1>4, <1>5 DEF Calm, Orderly

LEMMA CalmWithAdapter ==
  ASSUME LifecycleInv, Subsides, BarrierFits', ReleasesAccounted,
         barrier.destroyed => barrier'.destroyed, Orderly, adapter' = adapter,
         adapter.stopped /\ helper.session = "stopped" => helper'.session = "stopped"
  PROVE  Calm /\ core.cgroup \subseteq adapter'.cgroup
<1>1. AdapterTypes /\ AdapterTypes' /\ AdapterFits
  BY DEF LifecycleInv, AdapterFits, AdapterTypes
<1> QED
  BY <1>1, MakesCalm DEF AdapterFits, LifecycleInv, CoreFits

LEMMA InvParts ==
  ASSUME LifecycleInv
  PROVE  /\ OwnerFits /\ BarrierFits /\ HelperFits /\ HelperTypes /\ AdapterFits /\ AdapterTypes
         /\ CoreFits /\ CoreTypes /\ CoreShape(core) /\ PositionFits /\ todo \in Seq(Operation)
BY DEF LifecycleInv, HelperFits, AdapterFits, CoreFits, CoreTypes, PositionFits

\* Nothing happens around the core.
LEMMA OnlyCoreIsCalm ==
  ASSUME LifecycleInv, UNCHANGED <<dockerVars, barrierVars, helperVars, adapter>>
  PROVE  Calm /\ core.cgroup \subseteq adapter'.cgroup
<1>1. /\ UNCHANGED dockerVars /\ UNCHANGED barrierVars /\ UNCHANGED helperVars /\ adapter' = adapter
      /\ barrier' = barrier /\ helper' = helper /\ ReleasesAccounted
  BY DEF barrierVars, helperVars, ReleasesAccounted
<1>2. Subsides
  BY <1>1, InvParts, NothingSubsides
<1>3. BarrierFits'
  BY InvParts DEF BarrierFits, barrierVars
<1>4. Orderly
  BY <1>1, InvParts, NoRequestIsOrderly
<1> QED
  BY <1>1, <1>2, <1>3, <1>4, CalmWithAdapter

-----------------------------------------------------------------------------
(* The success path.                                                       *)

LEMMA OperationRuns ==
  ASSUME LifecycleInv, NEW op, NEW r, At(op, r)
  PROVE  /\ Current = Step(op, r) /\ ~core.hung
         /\ core.phase \in {"running", "terminal"}
         /\ op \notin Cleaning \cup {"return"} => core.phase = "running"
<1>1. Current = Step(op, r) /\ ~core.hung /\ core.phase \in {"running", "terminal"}
  BY InvParts DEF At, Step, CoreTypes
<1>2. ASSUME core.phase = "terminal" PROVE op \in Cleaning \cup {"return"}
  <2>1. PICK p \in 1..17 : TerminalProgram[p] = Step(op, r)
    BY <1>1, <1>2, InvParts, TerminalPosition
  <2> QED
    BY <2>1, TerminalSteps DEF Step, Cleaning
<1> QED
  BY <1>1, <1>2

LEMMA ExecutionFails ==
  ASSUME CoreShape(core),
         ExecutionFaults \/ ExecutionRefused \/ (\E code : Throws(code) \/ Raise(core, code))
  PROVE  Raised(core)
<1>1. \E code : Raise(core, code)
  BY DEF ExecutionFaults, ExecutionRefused, Throws
<1> QED
  BY <1>1, RaiseCleansUp

\* Where an operation has nothing to add to what has been done.
LEMMA NothingToAchieve ==
  ASSUME NEW p \in 1..38, p \notin {1, 2, 4, 5, 7, 9, 10, 15, 17, 20, 22, 24, 25, 27, 28, 33, 35, 36}
  PROVE  Achieves(p)
<1>1. ASSUME NEW r \in Roles
      PROVE  SetupAt(r) \in {2, 7, 25} /\ CleanupAt(r) \in {14, 19, 32}
  BY RoleNames DEF SetupAt, CleanupAt
<1> QED
  BY <1>1 DEF Achieves

LEMMA RunningOperation ==
  ASSUME LifecycleInv, Calm, core.cgroup \subseteq adapter'.cgroup,
         NEW op, op \notin Cleaning \cup {"return", "sampleRole"}, NEW r, At(op, r),
         Proceed(core) \/ Raised(core) \/ GoTo(core, Tail(todo)),
         \A p \in 1..38 :
           SuccessProgram[p] = Step(op, r) /\ GoneOn(core, Tail(todo)) => Achieves(p)
  PROVE  LifecycleInv'
<1>1. Current = Step(op, r) /\ ~core.hung /\ core.phase = "running"
  BY OperationRuns
<1>2. PICK p \in 1..39 : /\ RestOf(todo, SuccessProgram, p) /\ Reached(p)
                         /\ SuccessProgram[p] = Step(op, r)
  BY <1>1, InvParts, SuccessPosition
<1>3. p \in 1..38
  <2>1. SuccessProgram[39].op = "return" /\ SuccessProgram[p].op = op
    BY <1>2, SuccessSteps DEF Step
  <2> QED
    BY <2>1
<1>4. Raised(core) \/ GoneOn(core, Tail(todo))
  BY InvParts, ProceedEnds, GoToIsGoneOn
<1>5. Claims(core)
  BY <1>1, InvParts, CoreClaims
<1>6. GoneOn(core, Tail(todo)) => Achieves(p)
  BY <1>2, <1>3
<1> QED
  BY <1>1, <1>2, <1>3, <1>4, <1>5, <1>6, RunningGoesOn

LEMMA WaitKeepsInv ==
  ASSUME LifecycleInv, NEW r \in Roles, WaitRoleBarrierHeld(r)
  PROVE  LifecycleInv'
<1>1. /\ At("waitRoleBarrierHeld", r) /\ UNCHANGED dockerVars /\ UNCHANGED helperVars
      /\ adapter' = adapter /\ helper' = helper
  BY DEF WaitRoleBarrierHeld, Begins, helperVars
<1>2. AwaitHeld(r) \/ AwaitHeldFails(r)
  BY DEF WaitRoleBarrierHeld
<1>3. BarrierFits' /\ frames' = frames /\ (barrier.destroyed => barrier'.destroyed)
  BY <1>2, InvParts, BarrierMoves
<1>4. Subsides /\ Orderly
  BY <1>1, InvParts, NothingSubsides, NoRequestIsOrderly
<1>5. Calm /\ core.cgroup \subseteq adapter'.cgroup
  <2>1. /\ ReleasesAccounted
        /\ adapter.stopped /\ helper.session = "stopped" => helper'.session = "stopped"
    BY <1>1, <1>3 DEF ReleasesAccounted
  <2> QED
    BY <1>1, <1>3, <1>4, <2>1, CalmWithAdapter
<1>6. Proceed(core) \/ Raised(core)
  BY InvParts, ExecutionFails DEF WaitRoleBarrierHeld, Returns
<1>7. ASSUME NEW p \in 1..38, SuccessProgram[p] = Step("waitRoleBarrierHeld", r)
      PROVE  Achieves(p)
  <2>1. p \in {3, 8, 26}
    BY <1>7, SuccessPositions DEF SetupAt
  <2> QED
    BY <2>1, NothingToAchieve
<1>8. "waitRoleBarrierHeld" \notin Cleaning \cup {"return", "sampleRole"}
  BY DEF Cleaning
<1> QED
  BY <1>1, <1>5, <1>6, <1>7, <1>8, RunningOperation

LEMMA BindKeepsInv ==
  ASSUME LifecycleInv, NEW r \in Roles, BindRoleIdentityAndCgroup(r)
  PROVE  LifecycleInv'
<1>1. /\ At("bindRoleIdentityAndCgroup", r) /\ UNCHANGED dockerVars /\ UNCHANGED barrierVars
      /\ barrier' = barrier /\ ReleasesAccounted
  BY DEF BindRoleIdentityAndCgroup, Begins, barrierVars, ReleasesAccounted
<1>2. BarrierFits' /\ Subsides
  BY <1>1, InvParts, NothingSubsides DEF BarrierFits, barrierVars
<1> DEFINE bound == [adapter EXCEPT !.owned = @ \cup {r}, !.bound = @ \cup {r}]
           reobserved == [bound EXCEPT !.reobserved = @ \cup {r}]
<1>3. CASE /\ Running(r) /\ Bind(r) /\ adapter' \in {bound, reobserved} /\ Live
           /\ Proceed(core) \/ (adapter' \in {bound, reobserved} /\ ExecutionFaults)
           /\ adapter' = reobserved \/ ExecutionFaults
  <2>1. Orderly /\ helper'.status[r] = "BOUND"
    BY <1>3, InvParts, BindIsOrderly
  <2>2. /\ AdapterTypes' /\ adapter'.bound = adapter.bound \cup {r}
        /\ adapter'.receipt = adapter.receipt /\ adapter'.cgroup = adapter.cgroup
        /\ adapter'.stopped = adapter.stopped
    <3>1. /\ bound = [f \in {"owned", "bound", "reobserved", "released", "receipt", "cgroup",
                             "stopped"} |-> bound[f]]
          /\ bound.bound = adapter.bound \cup {r} /\ bound.receipt = adapter.receipt
          /\ bound.cgroup = adapter.cgroup /\ bound.stopped = adapter.stopped
      BY InvParts DEF AdapterTypes
    <3> HIDE DEF bound
    <3>2. /\ reobserved = [f \in {"owned", "bound", "reobserved", "released", "receipt", "cgroup",
                                  "stopped"} |-> reobserved[f]]
          /\ reobserved.bound = bound.bound /\ reobserved.receipt = bound.receipt
          /\ reobserved.cgroup = bound.cgroup /\ reobserved.stopped = bound.stopped
      BY <3>1
    <3> HIDE DEF reobserved
    <3> QED
      BY <1>3, <3>1, <3>2, InvParts DEF AdapterTypes
  <2>3. r \notin adapter.cgroup
    <3>1. box[r] # "absent"
      BY <1>3 DEF Running, RunningStates
    <3> QED
      BY <3>1, InvParts DEF AdapterFits, OwnerFits
  <2>4. Calm
    <3>1. \A q \in adapter'.bound :
            q \in adapter.bound \/ (helper'.status[q] # "NONE" /\ q \notin adapter'.cgroup)
      BY <2>1, <2>2, <2>3
    <3>2. ~adapter.stopped
      BY <1>3 DEF Live
    <3> QED
      BY <1>1, <1>2, <2>1, <2>2, <3>1, <3>2, InvParts, MakesCalm DEF AdapterFits
  <2>5. core.cgroup \subseteq adapter'.cgroup
    BY <2>2, InvParts DEF CoreFits
  <2>6. Proceed(core) \/ Raised(core)
    BY <1>3, InvParts, ExecutionFails
  <2>7. ASSUME NEW p \in 1..38, SuccessProgram[p] = Step("bindRoleIdentityAndCgroup", r)
        PROVE  Achieves(p)
    <3>1. p = SetupAt(r) + 2
      BY <2>7, SuccessPositions
    <3>2. ASSUME NEW q \in Roles
          PROVE  /\ SetupAt(q) \in {2, 7, 25} /\ CleanupAt(q) \in {14, 19, 32}
                 /\ SetupAt(q) = SetupAt(r) => q = r
      BY RoleNames DEF SetupAt, CleanupAt
    <3> QED
      BY <2>2, <3>1, <3>2 DEF Achieves
  <2>8. "bindRoleIdentityAndCgroup" \notin Cleaning \cup {"return", "sampleRole"}
    BY DEF Cleaning
  <2> QED
    BY <1>1, <2>4, <2>5, <2>6, <2>7, <2>8, RunningOperation
<1>4. CASE /\ RequestFails \/ UNCHANGED helperVars
           /\ adapter' = adapter /\ (ExecutionFaults \/ ExecutionRefused)
  <2>1. Orderly /\ (helper.session = "stopped" => helper'.session = "stopped")
    BY <1>4, InvParts, FailedRequestIsOrderly DEF RequestFails
  <2>2. Calm /\ core.cgroup \subseteq adapter'.cgroup
    <3>1. /\ ReleasesAccounted /\ (barrier.destroyed => barrier'.destroyed)
          /\ adapter' = adapter
      BY <1>1, <1>4
    <3> QED
      BY <1>2, <2>1, <3>1, CalmWithAdapter
  <2>3. Raised(core)
    BY <1>4, InvParts, ExecutionFails
  <2>4. Claims(core) /\ core.phase # "done"
    BY <1>1, <2>2, InvParts, OperationRuns, CoreClaims DEF At
  <2> QED
    BY <2>2, <2>3, <2>4, RaiseKeepsInv
<1> QED
  BY <1>3, <1>4 DEF BindRoleIdentityAndCgroup, Returns

LEMMA RunIsOutlived ==
  ASSUME LifecycleInv, UNCHANGED <<dockerVars, barrierVars, helperVars, adapter>>,
         core.phase = "running", ~core.hung, Raised(core)
  PROVE  LifecycleInv'
BY InvParts, OnlyCoreIsCalm, CoreClaims, RaiseKeepsInv

LEMMA AbortedKeepsInv ==
  ASSUME LifecycleInv, RaisesWhenAborted
  PROVE  LifecycleInv'
BY InvParts, RunIsOutlived, ExecutionFails DEF RaisesWhenAborted

LEMMA ObservedKeepsInv ==
  ASSUME LifecycleInv, NEW r \in Roles, ExecutionObserved(r)
  PROVE  LifecycleInv'
<1>1. /\ At("executionObserved", r) /\ Proceed(core)
      /\ UNCHANGED <<dockerVars, barrierVars, helperVars, adapter>>
  BY DEF ExecutionObserved, Returns
<1>2. Calm /\ core.cgroup \subseteq adapter'.cgroup
  BY <1>1, OnlyCoreIsCalm
<1>3. ASSUME NEW p \in 1..38, SuccessProgram[p] = Step("executionObserved", r)
      PROVE  Achieves(p)
  <2>1. p \in {12, 13, 30, 31}
    <3>1. SuccessProgram[p].op = "executionObserved" /\ p \in 1..39
      BY <1>3 DEF Step
    <3> QED
      BY <3>1, SuccessPositions
  <2> QED
    BY <2>1, NothingToAchieve
<1>4. "executionObserved" \notin Cleaning \cup {"return", "sampleRole"}
  BY DEF Cleaning
<1> QED
  BY <1>1, <1>2, <1>3, <1>4, RunningOperation

LEMMA RequirementKeepsInv ==
  ASSUME LifecycleInv, RequireCleanup
  PROVE  LifecycleInv'
<1>1. /\ At("requireCleanup", "all")
      /\ UNCHANGED <<dockerVars, barrierVars, helperVars, adapter>>
      /\ IF core.sticky THEN Raise(core, "LIFECYCLE_OPERATION_FAILED") ELSE GoTo(core, Tail(todo))
  BY DEF RequireCleanup
<1>2. Calm /\ core.cgroup \subseteq adapter'.cgroup
  BY <1>1, OnlyCoreIsCalm
<1>3. CASE core.sticky
  <2>1. Raised(core)
    BY <1>1, <1>3, InvParts, ExecutionFails
  <2>2. Claims(core) /\ core.phase # "done"
    BY <1>1, <1>2, InvParts, OperationRuns, CoreClaims DEF At
  <2> QED
    BY <1>2, <2>1, <2>2, RaiseKeepsInv
<1>4. CASE ~core.sticky
  <2>1. GoTo(core, Tail(todo))
    BY <1>1, <1>4
  <2>2. ASSUME NEW p \in 1..38, SuccessProgram[p] = Step("requireCleanup", "all"),
               GoneOn(core, Tail(todo))
        PROVE  Achieves(p)
    <3>1. p \in {24, 37}
      <4>1. "worker" \in Roles
        BY RoleNames
      <4> QED
        BY <2>2, <4>1, SuccessPositions
    <3>2. ~core'.sticky
      BY <1>4, <2>2 DEF GoneOn, SameClaims
    <3>3. ASSUME NEW q \in Roles PROVE SetupAt(q) \in {2, 7, 25} /\ CleanupAt(q) \in {14, 19, 32}
      BY RoleNames DEF SetupAt, CleanupAt
    <3> QED
      BY <3>1, <3>2, <3>3 DEF Achieves
  <2>3. "requireCleanup" \notin Cleaning \cup {"return", "sampleRole"}
    BY DEF Cleaning
  <2> QED
    BY <1>1, <1>2, <2>1, <2>2, <2>3, RunningOperation
<1> QED
  BY <1>3, <1>4

-----------------------------------------------------------------------------
(* The operations that bring a role to run.                                *)

\* Where the invariant is shown part by part, without a calm step.
LEMMA RunningArrives ==
  ASSUME PositionFits, OwnerFits', BarrierFits', HelperFits', AdapterFits', CoreFits',
         NEW c, c.phase = "running", ~c.hung, NEW p \in 1..38,
         RestOf(todo, SuccessProgram, p), OpenAt(p), core'.cgroup = core.cgroup,
         Raised(c) \/ (GoneOn(c, Tail(todo)) /\ DoneBy(p)' /\ Achieves(p))
  PROVE  LifecycleInv'
<1>1. CASE Raised(c)
  BY <1>1, RaisedFits DEF LifecycleInv
<1>2. CASE GoneOn(c, Tail(todo)) /\ DoneBy(p)' /\ Achieves(p)
  <2>1. DoneBy(p + 1)'
    BY <1>2, NextIsDone
  <2>2. OpenAt(p + 1)'
    BY NextIsOpen
  <2>3. Reached(p + 1)'
    BY <2>1, <2>2 DEF Reached
  <2>4. Tail(todo) \in Seq(Operation) /\ RestOf(Tail(todo), SuccessProgram, p + 1)
    <3>1. todo \in Seq(Operation) /\ p \in Nat /\ Len(SuccessProgram) = 39
      BY SuccessSteps DEF PositionFits
    <3>2. p < Len(SuccessProgram)
      BY <3>1
    <3> QED
      BY <3>1, <3>2, RestAfterOne, ProgramsAreSequences
  <2>5. p + 1 \in 1..39
    OBVIOUS
  <2>6. PositionFits'
    BY <1>2, <2>3, <2>4, <2>5, GoneOnInSuccess
  <2> QED
    BY <2>6 DEF LifecycleInv
<1> QED
  BY <1>1, <1>2

LEMMA Places ==
  ASSUME NEW r \in Roles
  PROVE  /\ SetupAt(r) \in {2, 7, 25} /\ CleanupAt(r) \in {14, 19, 32}
         /\ SetupAt(r) + 4 < CleanupAt(r)
         /\ \A q \in Roles : SetupAt(q) = SetupAt(r) => q = r
         /\ \A q \in Roles : CleanupAt(q) = CleanupAt(r) => q = r
BY RoleNames DEF SetupAt, CleanupAt

LEMMA BaselineKeepsInv ==
  ASSUME LifecycleInv, NEW r \in Roles, ReadRoleBaseline(r)
  PROVE  LifecycleInv'
<1> DEFINE c == [core EXCEPT !.baseline[r] = helper.baseline[r], !.latest[r] = helper.baseline[r]]
<1>1. /\ At("readRoleBaseline", r)
      /\ Proceed(c) \/ Raise(core, "LIFECYCLE_OPERATION_FAILED")
      /\ UNCHANGED <<dockerVars, barrierVars, helperVars, adapter>>
  BY DEF ReadRoleBaseline, Begins, Returns, ExecutionRefused
<1>2. core.phase = "running" /\ ~core.hung /\ Current = Step("readRoleBaseline", r)
  BY <1>1, OperationRuns DEF Cleaning
<1>3. CASE Raise(core, "LIFECYCLE_OPERATION_FAILED")
  BY <1>1, <1>2, <1>3, RunIsOutlived, ExecutionFails, InvParts
<1>4. CASE Proceed(c)
  <2>1. PICK p \in 1..39 : /\ RestOf(todo, SuccessProgram, p) /\ Reached(p)
                           /\ SuccessProgram[p] = Step("readRoleBaseline", r)
    BY <1>2, InvParts, SuccessPosition
  <2>2. p = SetupAt(r) + 3 /\ p \in 1..38
    BY <2>1, SuccessPositions, Places
  <2>3. /\ helper.baseline[r] \in Int
        /\ core.baseline \in [Roles -> Int] /\ core.latest \in [Roles -> Int]
    BY InvParts DEF HelperTypes, CoreTypes
  <2>4. /\ CoreShape(c) /\ c.phase = core.phase /\ c.result = core.result
        /\ c.started = core.started /\ c.cgroup = core.cgroup
        /\ c.baseline = [core.baseline EXCEPT ![r] = helper.baseline[r]]
        /\ c.latest = [core.latest EXCEPT ![r] = helper.baseline[r]]
        /\ c.thrown = core.thrown /\ c.sticky = core.sticky /\ c.stopped = core.stopped
        /\ c.hung = core.hung
    BY InvParts DEF CoreShape, CoreFields
  <2> HIDE DEF c
  <2>5. Raised(c) \/ GoneOn(c, Tail(todo))
    BY <1>4, <2>4, ProceedEnds
  <2>6. /\ CoreShape(core') /\ core'.phase \in {"running", "terminal"}
        /\ core'.result = core.result /\ core'.started = core.started
        /\ core'.cgroup = core.cgroup /\ core'.stopped = core.stopped
        /\ core'.sticky = core.sticky /\ core'.hung = core.hung /\ core'.thrown \in BOOLEAN
        /\ core'.baseline = c.baseline /\ core'.latest = c.latest
    <3>1. core.thrown \in BOOLEAN
      BY InvParts DEF CoreTypes
    <3> QED
      BY <1>2, <2>4, <2>5, <3>1 DEF Raised, GoneOn, SameClaims
  <2>7. /\ core'.baseline \in [Roles -> Int] /\ core'.latest \in [Roles -> Int]
        /\ core'.baseline[r] = helper.baseline[r]
        /\ \A q \in Roles : q # r => core'.baseline[q] = core.baseline[q]
                                     /\ core'.latest[q] = core.latest[q]
    BY <2>3, <2>4, <2>6
  <2>8. Calm
    BY <1>1, OnlyCoreIsCalm
  <2>9. /\ box' = box /\ owner' = owner /\ frames' = frames /\ helper' = helper /\ cpu' = cpu
        /\ adapter' = adapter
    BY <1>1 DEF dockerVars, barrierVars, helperVars
  <2>10. CoreFits'
    <3>1. core.result = "none"
      BY <1>2, InvParts DEF CoreFits
    <3>2. CoreTypes'
      BY <2>6, <2>7, <3>1, InvParts DEF CoreTypes
    <3>3. \A q \in Roles : q \in frames'.release => Accounted(q)'
      <4>1. \A q \in Roles : q \in frames.release => Accounted(q)
        BY InvParts DEF CoreFits
      <4> QED
        BY <2>6, <2>7, <2>9, <4>1 DEF Accounted
    <3>4. core'.stopped => StoppedWell'
      BY <2>6, <2>8, InvParts DEF CoreFits, Calm
    <3>5. Clean' <=> Clean
      BY <2>9 DEF Clean
    <3> QED
      BY <2>6, <2>9, <3>1, <3>2, <3>3, <3>4, <3>5, InvParts DEF CoreFits
  <2>11. DoneBy(p)'
    <3>1. ASSUME NEW q \in Roles, q # r, Final(q) PROVE Final(q)'
      BY <2>7, <2>9, <3>1 DEF Final
    <3>2. ASSUME NEW q \in Roles
          PROVE  /\ p > SetupAt(q) => q \in core'.started
                 /\ p > SetupAt(q) + 2 => q \in adapter'.bound
                 /\ p > SetupAt(q) + 3 => core'.baseline[q] = helper'.baseline[q]
                 /\ p > CleanupAt(q) + 1 /\ ~core'.sticky => Final(q)'
                 /\ p > CleanupAt(q) + 3 /\ ~core'.sticky => q \in core'.cgroup
      <4>1. q = r => p < CleanupAt(q)
        BY <2>2, Places
      <4>2. SetupAt(q) \in Nat /\ CleanupAt(q) \in Nat
        BY DEF SetupAt, CleanupAt
      <4> QED
        BY <2>1, <2>6, <2>7, <2>9, <3>1, <4>1, <4>2 DEF Reached, DoneBy
    <3>3. p \notin 34..39
      BY <2>2, Places
    <3> QED
      BY <2>1, <2>6, <2>9, <3>2, <3>3 DEF Reached, DoneBy
  <2>12. Achieves(p)
    <3>1. \A q \in Roles : /\ p = SetupAt(q) + 3 => q = r
                           /\ p # SetupAt(q) /\ p # SetupAt(q) + 2
                           /\ p # CleanupAt(q) + 1 /\ p # CleanupAt(q) + 3
      BY <2>2, Places
    <3>2. p \notin {1, 24, 33, 36}
      BY <2>2, Places
    <3> QED
      BY <2>7, <2>9, <3>1, <3>2 DEF Achieves
  <2> QED
    <3>1. c.phase = "running" /\ ~c.hung
      BY <1>2, <2>4
    <3> QED
      BY <2>1, <2>2, <2>5, <2>6, <2>8, <2>10, <2>11, <2>12, <3>1, InvParts, RunningArrives
         DEF Calm, Subsides, Reached
<1> QED
  BY <1>1, <1>3, <1>4

LEMMA ReleaseKeepsInv ==
  ASSUME LifecycleInv, NEW r \in Roles, ReleaseRoleBarrier(r)
  PROVE  LifecycleInv'
<1>1. At("releaseRoleBarrier", r) /\ UNCHANGED dockerVars
  BY DEF ReleaseRoleBarrier, Begins
<1>2. core.phase = "running" /\ ~core.hung /\ Current = Step("releaseRoleBarrier", r)
  BY <1>1, OperationRuns DEF Cleaning
<1>3. Subsides
  BY <1>1, InvParts, NothingSubsides
<1> DEFINE released == [adapter EXCEPT !.released = @ \cup {r}]
<1>4. \/ ReleaseBarrier(r) \/ ReleaseBarrierFails(r) \/ UNCHANGED barrierVars
  BY DEF ReleaseRoleBarrier
<1>5. BarrierFits' /\ (barrier.destroyed => barrier'.destroyed)
      /\ (frames'.release = frames.release \/ frames'.release = frames.release \cup {r})
  BY <1>4, InvParts, BarrierMoves
<1>6. Accounted(r)
  <2>1. PICK p \in 1..39 : Reached(p) /\ SuccessProgram[p] = Step("releaseRoleBarrier", r)
    BY <1>2, InvParts, SuccessPosition
  <2>2. p = SetupAt(r) + 4 /\ SetupAt(r) \in Nat
    BY <2>1, SuccessPositions DEF SetupAt
  <2> QED
    BY <2>1, <2>2 DEF Accounted, Reached, DoneBy
<1>7. ReleasesAccounted
  BY <1>5, <1>6 DEF ReleasesAccounted
<1>8. Calm /\ core.cgroup \subseteq adapter'.cgroup
  <2>1. CASE Live /\ Activate(r) /\ adapter' = released
    <3>1. Orderly
      BY <2>1, InvParts, RoleRequestsAreOrderly
    <3>2. /\ AdapterTypes' /\ adapter'.bound = adapter.bound
          /\ adapter'.receipt = adapter.receipt /\ adapter'.cgroup = adapter.cgroup
          /\ ~adapter.stopped
      BY <2>1, InvParts DEF AdapterTypes, Live
    <3>3. Calm
      BY <1>3, <1>5, <1>7, <3>1, <3>2, InvParts, MakesCalm DEF AdapterFits
    <3> QED
      BY <3>2, <3>3, InvParts DEF CoreFits
  <2>2. CASE UNCHANGED helperVars /\ adapter' = adapter
    <3>1. Orderly /\ helper' = helper
      BY <2>2, InvParts, NoRequestIsOrderly DEF helperVars
    <3>2. adapter.stopped /\ helper.session = "stopped" => helper'.session = "stopped"
      BY <3>1
    <3> QED
      BY <1>3, <1>5, <1>7, <2>2, <3>1, <3>2, CalmWithAdapter
  <2> QED
    BY <2>1, <2>2 DEF ReleaseRoleBarrier
<1>9. Proceed(core) \/ Raised(core)
  BY InvParts, ExecutionFails DEF ReleaseRoleBarrier, Returns
<1>10. ASSUME NEW p \in 1..38, SuccessProgram[p] = Step("releaseRoleBarrier", r)
       PROVE  Achieves(p)
  <2>1. p \in {6, 11, 29}
    BY <1>10, SuccessPositions DEF SetupAt
  <2> QED
    BY <2>1, NothingToAchieve
<1>11. "releaseRoleBarrier" \notin Cleaning \cup {"return", "sampleRole"}
  BY DEF Cleaning
<1> QED
  BY <1>1, <1>8, <1>9, <1>10, <1>11, RunningOperation

LEMMA CreationKeepsInv ==
  ASSUME LifecycleInv, CreateOwnedContainers
  PROVE  LifecycleInv'
<1>1. /\ At("createOwnedContainers", "all") /\ (CreateAll \/ CreateFails)
      /\ adapter' = adapter /\ frames' = frames /\ barrier' = barrier /\ helper' = helper /\ cpu' = cpu
      /\ (CreateAll /\ Proceed(core)) \/ ExecutionFaults
  BY DEF CreateOwnedContainers, Begins, Returns, barrierVars, helperVars
<1>2. core.phase = "running" /\ ~core.hung /\ Current = Step("createOwnedContainers", "all")
  BY <1>1, OperationRuns DEF Cleaning
<1>3. PICK p \in 1..39 : /\ RestOf(todo, SuccessProgram, p) /\ Reached(p)
                         /\ SuccessProgram[p] = Step("createOwnedContainers", "all")
  BY <1>2, InvParts, SuccessPosition
<1>4. p = 1
  <2>1. "worker" \in Roles
    BY RoleNames
  <2> QED
    BY <1>3, <2>1, SuccessPositions
<1>5. NothingYet /\ core.started = {} /\ core.cgroup = {}
  BY <1>3, <1>4 DEF Reached, OpenAt, NothingYet
<1>6. /\ OwnerFits' /\ (CreateAll => owner'.created)
      /\ \A x \in Resources : box'[x] \in {"absent", "created"}
  BY <1>1, <1>5, CreationFits
<1>7. owner.removed = {}
  BY <1>5 DEF NothingYet
<1>8. BarrierFits' /\ HelperFits' /\ AdapterFits'
  BY <1>1, <1>7, InvParts
     DEF BarrierFits, HelperFits, HelperTypes, AdapterFits, AdapterTypes
<1>9. Raised(core) \/ (CreateAll /\ GoneOn(core, Tail(todo)))
  BY <1>1, InvParts, ProceedEnds, ExecutionFails
<1>10. /\ CoreShape(core') /\ core'.phase \in {"running", "terminal"}
       /\ SameClaims(core) /\ core'.thrown \in BOOLEAN
  BY <1>2, <1>9, InvParts DEF Raised, GoneOn, CoreTypes
<1>11. CoreFits'
  <2>1. core.result = "none" /\ CoreTypes'
    BY <1>2, <1>10, InvParts DEF CoreFits, CoreTypes, SameClaims
  <2>2. ~core.stopped
    BY <1>7, RoleNames, InvParts DEF CoreFits, StoppedWell
  <2>3. \A r \in Roles : r \notin frames.release
    BY <1>5, InvParts DEF CoreFits, Accounted
  <2>4. \A r \in Roles : box'[r] \in {"absent", "created"}
    BY <1>6 DEF Resources
  <2>5. Clean'
    BY <2>4, RoleNames DEF Clean
  <2> QED
    BY <1>1, <1>5, <1>10, <2>1, <2>2, <2>3, <2>4, <2>5, InvParts DEF CoreFits, SameClaims
<1>12. ASSUME CreateAll PROVE DoneBy(p)' /\ Achieves(p)
  BY <1>4, <1>6, <1>12, Places DEF DoneBy, Achieves
<1> QED
  BY <1>2, <1>3, <1>4, <1>6, <1>8, <1>9, <1>10, <1>11, <1>12, InvParts, RunningArrives
     DEF Reached, SameClaims

LEMMA StartKeepsInv ==
  ASSUME LifecycleInv, NEW r \in Roles, StartRoleHeld(r)
  PROVE  LifecycleInv'
<1> DEFINE c == [core EXCEPT !.started = @ \cup {r}, !.active = @ \cup {r}]
<1>1. /\ At("startRoleHeld", r) /\ UNCHANGED <<barrierVars, helperVars, adapter>>
      /\ \/ Live /\ StartHeld(r) /\ (GoTo(c, Tail(todo)) \/ ExecutionFaults)
         \/ UNCHANGED dockerVars /\ (ExecutionFaults \/ ExecutionRefused)
  BY DEF StartRoleHeld, Begins, StartFails, Goes
<1>2. core.phase = "running" /\ ~core.hung /\ Current = Step("startRoleHeld", r)
  BY <1>1, OperationRuns DEF Cleaning
<1>3. CASE UNCHANGED dockerVars /\ (ExecutionFaults \/ ExecutionRefused)
  BY <1>1, <1>2, <1>3, RunIsOutlived, ExecutionFails, InvParts
<1>4. CASE Live /\ StartHeld(r) /\ (GoTo(c, Tail(todo)) \/ ExecutionFaults)
  <2>1. PICK p \in 1..39 : /\ RestOf(todo, SuccessProgram, p) /\ Reached(p)
                           /\ SuccessProgram[p] = Step("startRoleHeld", r)
    BY <1>2, InvParts, SuccessPosition
  <2>2. p = SetupAt(r) /\ p \in 1..38
    BY <2>1, SuccessPositions, Places
  <2>3. /\ OwnerFits' /\ owner' = owner /\ late' = late
        /\ box[r] = "created" /\ box'[r] = "starting"
        /\ \A x \in Resources : x # r => box'[x] = box[x]
    BY <1>4, InvParts, StartFits
  <2>4. /\ frames' = frames /\ barrier' = barrier /\ helper' = helper /\ cpu' = cpu
        /\ adapter' = adapter
    BY <1>1 DEF barrierVars, helperVars
  <2>5. BarrierFits' /\ HelperFits' /\ AdapterFits'
    BY <2>3, <2>4, InvParts DEF BarrierFits, HelperFits, HelperTypes, AdapterFits, AdapterTypes
  <2>6. /\ CoreShape(c) /\ c.phase = core.phase /\ c.result = core.result
        /\ c.started = core.started \cup {r} /\ c.cgroup = core.cgroup
        /\ c.baseline = core.baseline /\ c.latest = core.latest
        /\ c.thrown = core.thrown /\ c.sticky = core.sticky /\ c.stopped = core.stopped
        /\ c.hung = core.hung
    BY InvParts DEF CoreShape, CoreFields
  <2> HIDE DEF c
  <2>7. Raised(core) \/ GoneOn(c, Tail(todo))
    BY <1>4, <2>6, InvParts, GoToIsGoneOn, ExecutionFails
  <2>8. /\ CoreShape(core') /\ core'.phase \in {"running", "terminal"}
        /\ core'.result = core.result
        /\ core'.started = core.started \/ core'.started = core.started \cup {r}
        /\ core'.cgroup = core.cgroup /\ core'.stopped = core.stopped
        /\ core'.sticky = core.sticky /\ core'.hung = core.hung /\ core'.thrown \in BOOLEAN
        /\ core'.baseline = core.baseline /\ core'.latest = core.latest
    <3>1. core.thrown \in BOOLEAN
      BY InvParts DEF CoreTypes
    <3> QED
      BY <1>2, <2>6, <2>7, <3>1 DEF Raised, GoneOn, SameClaims
  <2>9. \A q \in Roles : q # r => box'[q] = box[q]
    BY <2>3 DEF Resources
  <2>10. CoreFits'
    <3>1. core.result = "none"
      BY <1>2, InvParts DEF CoreFits
    <3>2. CoreTypes'
      BY <2>8, <3>1, InvParts DEF CoreTypes
    <3>3. \A q \in core'.started : box'[q] # "created" /\ owner'.created
      <4>1. owner.created
        BY <1>4 DEF StartHeld
      <4>2. \A q \in core.started : q \in Roles /\ box[q] # "created"
        BY InvParts DEF CoreFits, CoreTypes
      <4> QED
        BY <2>3, <2>8, <2>9, <4>1, <4>2
    <3>4. \A q \in Roles : box'[q] = "executing" => q \in frames'.release
      BY <2>3, <2>4, <2>9, InvParts DEF CoreFits
    <3>5. \A q \in Roles : q \in frames'.release => Accounted(q)'
      BY <2>4, <2>8, InvParts DEF CoreFits, Accounted
    <3>6. ~core'.stopped
      BY <1>4, <2>8, InvParts DEF CoreFits, StoppedWell, Live
    <3>7. ~Clean' => helper'.status["worker"] = "RELEASED" /\ helper'.status["egress"] = "RELEASED"
      <4>1. CASE r = "verifier"
        <5>1. p = 25 /\ SetupAt("worker") = 7 /\ SetupAt("egress") = 2
          BY <2>2, <4>1 DEF SetupAt
        <5>2. "worker" \in Roles /\ "egress" \in Roles
          BY RoleNames
        <5>3. \A q \in {"worker", "egress"} : q \in core.cgroup /\ q \in adapter.bound
          BY <2>1, <5>1, <5>2 DEF Reached, DoneBy
        <5> QED
          BY <2>4, <5>3, InvParts DEF CoreFits, AdapterFits
      <4>2. CASE r # "verifier"
        BY <2>4, <2>9, <4>2, RoleNames, InvParts DEF CoreFits, Clean
      <4> QED
        BY <4>1, <4>2
    <3> QED
      BY <1>2, <2>4, <2>8, <3>1, <3>2, <3>3, <3>4, <3>5, <3>6, <3>7, InvParts DEF CoreFits
  <2>11. ASSUME GoneOn(c, Tail(todo)) PROVE DoneBy(p)' /\ Achieves(p)
    <3>1. core'.started = core.started \cup {r}
      BY <2>6, <2>11 DEF GoneOn, SameClaims
    <3>2. ASSUME NEW q \in Roles, q # r, Final(q) PROVE Final(q)'
      BY <2>4, <2>8, <2>9, <3>2 DEF Final
    <3>3. ASSUME NEW q \in Roles
          PROVE  /\ p > SetupAt(q) => q \in core'.started
                 /\ p > SetupAt(q) + 2 => q \in adapter'.bound
                 /\ p > SetupAt(q) + 3 => core'.baseline[q] = helper'.baseline[q]
                 /\ p > CleanupAt(q) + 1 /\ ~core'.sticky => Final(q)'
                 /\ p > CleanupAt(q) + 3 /\ ~core'.sticky => q \in core'.cgroup
      <4>1. q = r => p < CleanupAt(q)
        BY <2>2, Places
      <4>2. SetupAt(q) \in Nat /\ CleanupAt(q) \in Nat
        BY DEF SetupAt, CleanupAt
      <4> QED
        BY <2>1, <2>4, <2>8, <3>1, <3>2, <4>1, <4>2 DEF Reached, DoneBy
    <3>4. p \in {2, 7, 25}
      BY <2>2, Places
    <3>5. DoneBy(p)'
      BY <2>1, <2>3, <2>8, <3>3, <3>4 DEF Reached, DoneBy
    <3>6. \A q \in Roles : /\ p = SetupAt(q) => q = r
                           /\ p # SetupAt(q) + 2 /\ p # SetupAt(q) + 3
                           /\ p # CleanupAt(q) + 1 /\ p # CleanupAt(q) + 3
      BY <2>2, Places
    <3>7. Achieves(p)
      BY <3>1, <3>4, <3>6 DEF Achieves
    <3> QED
      BY <3>5, <3>7
  <2>12. Raised(c) \/ (GoneOn(c, Tail(todo)) /\ DoneBy(p)' /\ Achieves(p)) \/ Raised(core)
    BY <2>7, <2>11
  <2>13. c.phase = "running" /\ ~c.hung
    BY <1>2, <2>6
  <2> QED
    BY <1>2, <2>1, <2>2, <2>3, <2>5, <2>8, <2>10, <2>12, <2>13, InvParts, RunningArrives
       DEF Reached
<1> QED
  BY <1>1, <1>3, <1>4

-----------------------------------------------------------------------------
(* Observation.                                                            *)

LEMMA RoundOfSamples ==
  /\ SampleActiveRoles \in Seq(Operation) /\ Len(SampleActiveRoles) \in 0..3
  /\ \A i \in 1..Len(SampleActiveRoles) : SampleActiveRoles[i].op = "sampleRole"
<1> DEFINE one(r) == SampleIfActive(r)
<1>1. ASSUME NEW r \in {"egress", "worker", "verifier"}
      PROVE  /\ one(r) \in Seq(Operation) /\ Len(one(r)) \in 0..1
             /\ \A i \in 1..Len(one(r)) : one(r)[i].op = "sampleRole"
  <2>1. [op |-> "sampleRole", role |-> r] \in Operation
    BY DEF Operation
  <2> QED
    BY <2>1 DEF SampleIfActive, Do
<1> DEFINE e == one("egress") w == one("worker") v == one("verifier")
<1>2. /\ e \in Seq(Operation) /\ w \in Seq(Operation) /\ v \in Seq(Operation)
      /\ Len(e) \in 0..1 /\ Len(w) \in 0..1 /\ Len(v) \in 0..1
      /\ \A i \in 1..Len(e) : e[i].op = "sampleRole"
      /\ \A i \in 1..Len(w) : w[i].op = "sampleRole"
      /\ \A i \in 1..Len(v) : v[i].op = "sampleRole"
  BY <1>1
<1> HIDE DEF one, e, w, v
<1>3. /\ e \o w \in Seq(Operation) /\ Len(e \o w) \in 0..2
      /\ \A i \in 1..Len(e \o w) : (e \o w)[i].op = "sampleRole"
  BY <1>2
<1>4. /\ (e \o w) \o v \in Seq(Operation) /\ Len((e \o w) \o v) \in 0..3
      /\ \A i \in 1..Len((e \o w) \o v) : ((e \o w) \o v)[i].op = "sampleRole"
  BY <1>2, <1>3
<1> QED
  BY <1>4 DEF SampleActiveRoles, one, e, w, v

\* A round of samples before a position at which the loop is left or continued.
LEMMA RoundBefore ==
  ASSUME NEW s \in Seq(Operation), NEW p \in {12, 13, 30, 31}, RestOf(s, SuccessProgram, p)
  PROVE  /\ SampleActiveRoles \o s \in Seq(Operation)
         /\ SamplesThenRest(SampleActiveRoles \o s, p)
<1> DEFINE a == SampleActiveRoles
           n == Len(a)
<1>1. /\ a \in Seq(Operation) /\ n \in 0..3 /\ \A i \in 1..n : a[i].op = "sampleRole"
  BY RoundOfSamples
<1>2. Len(SuccessProgram) = 39
  BY SuccessSteps
<1>3. /\ Len(s) = 40 - p /\ \A i \in 1..Len(s) : s[i] = SuccessProgram[p + i - 1]
  BY <1>2 DEF RestOf
<1> HIDE DEF a
<1>4. a \o s \in Seq(Operation) /\ Len(a \o s) = n + 40 - p
  BY <1>1, <1>3
<1>5. \A i \in 1..n : (a \o s)[i].op = "sampleRole"
  BY <1>1
<1>6. ASSUME NEW i \in (n + 1)..Len(a \o s)
      PROVE  (a \o s)[i] = SuccessProgram[p + i - 1 - n]
  <2>1. i - n \in 1..Len(s) /\ i \in 1..Len(a \o s) /\ ~(i <= n)
    BY <1>1, <1>3, <1>4
  <2>2. (a \o s)[i] = s[i - n]
    BY <1>1, <2>1
  <2>3. s[i - n] = SuccessProgram[p + (i - n) - 1] /\ p + (i - n) - 1 = p + i - 1 - n
    BY <1>1, <1>3, <2>1
  <2> QED
    BY <2>2, <2>3
<1>7. p \in 1..Len(SuccessProgram) /\ Len(a \o s) = n + Len(SuccessProgram) + 1 - p
  BY <1>1, <1>2, <1>4
<1>8. SamplesThenRest(a \o s, p)
  BY <1>1, <1>5, <1>6, <1>7 DEF SamplesThenRest
<1> QED
  BY <1>4, <1>8 DEF a

LEMMA ObserveKeepsInv ==
  ASSUME LifecycleInv, NEW r \in Roles, ObserveUntilRoleExit(r)
  PROVE  LifecycleInv'
<1>1. /\ At("observeUntilRoleExit", r)
      /\ UNCHANGED <<dockerVars, barrierVars, helperVars, adapter>>
      /\ \/ core' = core /\ todo' = SampleActiveRoles \o todo
         \/ core' = core /\ todo' = SampleActiveRoles \o Tail(todo)
         \/ \E code : Throws(code) \/ Raise(core, code)
  BY DEF ObserveUntilRoleExit, Begins
<1>2. core.phase = "running" /\ ~core.hung /\ Current = Step("observeUntilRoleExit", r)
  BY <1>1, OperationRuns DEF Cleaning
<1>3. CASE \E code : Throws(code) \/ Raise(core, code)
  BY <1>1, <1>2, <1>3, RunIsOutlived, ExecutionFails, InvParts
<1>4. CASE core' = core /\ todo' \in {SampleActiveRoles \o todo, SampleActiveRoles \o Tail(todo)}
  <2>1. PICK p \in 1..39 : /\ RestOf(todo, SuccessProgram, p) /\ Reached(p)
                           /\ SuccessProgram[p] = Step("observeUntilRoleExit", r)
    BY <1>2, InvParts, SuccessPosition
  <2>2. p \in {12, 30}
    <3>1. SuccessProgram[p].op = "observeUntilRoleExit"
      BY <2>1 DEF Step
    <3>2. p \in {12, 13, 30, 31}
      BY <3>1, SuccessPositions
    <3>3. SuccessProgram[13].op = "executionObserved" /\ SuccessProgram[31].op = "executionObserved"
      BY SuccessSteps DEF Step
    <3> QED
      BY <3>1, <3>2, <3>3
  <2>3. Calm /\ core.cgroup \subseteq adapter'.cgroup
    BY <1>1, OnlyCoreIsCalm
  <2>4. ClaimsKept
    BY <1>2, <1>4, <2>3, InvParts DEF ClaimsKept, CoreTypes
  <2>5. CoreFits'
    BY <1>2, <2>3, <2>4, InvParts, CalmKeepsCore
  <2>6. DoneBy(p)'
    BY <1>4, <2>1, <2>2, <2>3, <2>4, InvParts, CalmKeepsDone DEF Reached
  <2>7. DoneBy(p + 1)'
    BY <2>2, <2>6, NextIsDone, NothingToAchieve
  <2>8. OpenAt(p)' /\ OpenAt(p + 1)'
    <3>1. p + 1 > 1 /\ p > 1
      BY <2>2
    <3>2. OpenAt(p)'
      BY <1>4, <2>1, <3>1 DEF Reached, OpenAt
    <3>3. p \in 1..38
      BY <2>2
    <3>4. OpenAt(p + 1)'
      BY <1>4, <2>1, <3>3, NextIsOpen DEF Reached
    <3> QED
      BY <3>2, <3>4
  <2>9. PICK q \in {12, 13, 30, 31} :
          /\ todo' \in Seq(Operation) /\ SamplesThenRest(todo', q) /\ (q = p \/ q = p + 1)
    <3>1. CASE todo' = SampleActiveRoles \o todo
      BY <2>1, <2>2, <3>1, InvParts, RoundBefore
    <3>2. CASE todo' = SampleActiveRoles \o Tail(todo)
      <4>1. Len(SuccessProgram) = 39 /\ p \in Nat /\ p < 39
        BY <2>2, SuccessSteps
      <4>2. Tail(todo) \in Seq(Operation) /\ RestOf(Tail(todo), SuccessProgram, p + 1)
        BY <2>1, <4>1, InvParts, RestAfterOne, ProgramsAreSequences
      <4>3. p + 1 \in {13, 31}
        BY <2>2
      <4> QED
        BY <3>2, <4>2, <4>3, RoundBefore
    <3> QED
      BY <1>4, <3>1, <3>2
  <2>10. Reached(q)' /\ q \in 1..39
    BY <2>6, <2>7, <2>8, <2>9 DEF Reached
  <2>11. PositionFits'
    BY <1>2, <1>4, <2>9, <2>10 DEF PositionFits, InSuccess
  <2> QED
    BY <2>3, <2>5, <2>11 DEF LifecycleInv, Calm, Subsides
<1> QED
  BY <1>1, <1>3, <1>4

LEMMA SampleKeepsInv ==
  ASSUME LifecycleInv, NEW r \in Roles, SampleRole(r)
  PROVE  LifecycleInv'
<1> DEFINE latest == [core.latest EXCEPT ![r] = cpu[r]]
           sampled == [core EXCEPT !.latest = latest]
<1>1. /\ At("sampleRole", r) /\ UNCHANGED dockerVars /\ UNCHANGED barrierVars /\ adapter' = adapter
      /\ \/ Live /\ Sample(r) /\ ((\E code : Raise(sampled, code)) \/ GoTo(sampled, Tail(todo)))
         \/ RequestFails /\ \E code : Throws(code)
         \/ UNCHANGED helperVars /\ \E code : Raise(core, code)
  BY DEF SampleRole, Begins
<1>2. core.phase = "running" /\ ~core.hung /\ Current = Step("sampleRole", r)
  BY <1>1, OperationRuns DEF Cleaning
<1>3. /\ Subsides /\ BarrierFits' /\ ReleasesAccounted /\ (barrier.destroyed => barrier'.destroyed)
  BY <1>1, InvParts, NothingSubsides DEF BarrierFits, barrierVars, ReleasesAccounted
<1>4. CASE (RequestFails \/ UNCHANGED helperVars) /\ \E code : Throws(code) \/ Raise(core, code)
  <2>1. Orderly /\ (helper.session = "stopped" => helper'.session = "stopped")
    BY <1>4, InvParts, FailedRequestIsOrderly DEF RequestFails
  <2>2. Calm /\ core.cgroup \subseteq adapter'.cgroup
    BY <1>1, <1>3, <2>1, CalmWithAdapter
  <2>3. Raised(core)
    BY <1>4, InvParts, ExecutionFails
  <2>4. Claims(core) /\ core.phase # "done"
    BY <1>2, <2>2, InvParts, CoreClaims
  <2> QED
    BY <2>2, <2>3, <2>4, RaiseKeepsInv
<1>5. CASE Live /\ Sample(r) /\ ((\E code : Raise(sampled, code)) \/ GoTo(sampled, Tail(todo)))
  <2>1. Orderly
    BY <1>5, InvParts, RoleRequestsAreOrderly
  <2>2. Calm /\ core.cgroup \subseteq adapter'.cgroup
    BY <1>1, <1>3, <1>5, <2>1, CalmWithAdapter DEF Live
  <2>3. latest \in [Roles -> Int] /\ \A q \in Roles : latest[q] \in {core.latest[q], cpu[q]}
    BY InvParts DEF HelperTypes, CoreTypes
  <2>4. /\ CoreShape(sampled) /\ sampled.phase = core.phase /\ sampled.result = core.result
        /\ sampled.started = core.started /\ sampled.cgroup = core.cgroup
        /\ sampled.baseline = core.baseline /\ sampled.latest = latest
        /\ sampled.thrown = core.thrown /\ sampled.sticky = core.sticky
        /\ sampled.stopped = core.stopped /\ sampled.hung = core.hung
    BY InvParts DEF CoreShape, CoreFields
  <2> HIDE DEF sampled, latest
  <2>5. Claims(sampled)
    BY <1>2, <2>2, <2>3, <2>4, InvParts DEF Claims, CoreTypes
  <2>6. CASE \E code : Raise(sampled, code)
    BY <1>2, <2>2, <2>4, <2>5, <2>6, RaiseCleansUp, RaiseKeepsInv
  <2>7. CASE GoTo(sampled, Tail(todo))
    <3>1. GoneOn(sampled, Tail(todo)) /\ core' = sampled
      BY <2>4, <2>7, GoToIsGoneOn DEF GoTo
    <3>2. ClaimsKept
      BY <1>2, <2>5, <3>1, InvParts, ClaimsAreKept
    <3>3. CoreFits'
      BY <1>2, <2>2, <3>2, InvParts, CalmKeepsCore
    <3>4. PICK p \in 1..39 : SamplesThenRest(todo, p) /\ Reached(p)
      BY <1>2, InvParts DEF PositionFits, InSuccess
    <3>5. Len(SuccessProgram) = 39
      BY SuccessSteps
    <3>6. PICK n \in 0..3 :
            /\ Len(todo) = n + 40 - p
            /\ \A i \in 1..n : todo[i].op = "sampleRole"
            /\ \A i \in (n + 1)..Len(todo) : todo[i] = SuccessProgram[p + i - 1 - n]
            /\ n > 0 => p \in {12, 13, 30, 31}
      BY <3>4, <3>5 DEF SamplesThenRest
    <3>7. n > 0
      <4> SUFFICES ASSUME n = 0 PROVE FALSE
        BY <3>6
      <4>1. 1 \in (n + 1)..Len(todo) /\ p + 1 - 1 - n = p
        BY <3>6
      <4>2. SuccessProgram[p].op = "sampleRole"
        BY <1>2, <3>6, <4>1 DEF Current, Step
      <4> QED
        BY <4>2, SuccessSteps DEF Step
    <3>8. p \in {12, 13, 30, 31}
      BY <3>6, <3>7
    <3> DEFINE rest == Tail(todo)
    <3>9. /\ rest \in Seq(Operation) /\ Len(rest) = n - 1 + 40 - p
          /\ \A i \in 1..Len(rest) : rest[i] = todo[i + 1]
      BY <3>6, <3>7, <3>8, InvParts
    <3> HIDE DEF rest
    <3>10. \A i \in 1..(n - 1) : rest[i].op = "sampleRole"
      BY <3>6, <3>8, <3>9
    <3>11. \A i \in n..Len(rest) : rest[i] = SuccessProgram[p + i - 1 - (n - 1)]
      <4>1. ASSUME NEW i \in n..Len(rest) PROVE rest[i] = SuccessProgram[p + i - 1 - (n - 1)]
        <5>1. i \in 1..Len(rest) /\ i + 1 \in (n + 1)..Len(todo)
              /\ p + (i + 1) - 1 - n = p + i - 1 - (n - 1)
          BY <3>6, <3>7, <3>8, <3>9
        <5> QED
          BY <3>6, <3>9, <5>1
      <4> QED
        BY <4>1
    <3>12. rest[1].op \in {"sampleRole", "observeUntilRoleExit", "executionObserved"}
      <4>1. CASE n = 1
        <5>1. 1 \in n..Len(rest) /\ p + 1 - 1 - (n - 1) = p
          BY <3>8, <3>9, <4>1
        <5>2. rest[1] = SuccessProgram[p]
          BY <3>11, <5>1
        <5> QED
          BY <3>8, <5>2, SuccessPositions
      <4>2. CASE n # 1
        <5>1. 1 \in 1..(n - 1)
          BY <3>7, <4>2
        <5> QED
          BY <3>10, <5>1
      <4> QED
        BY <4>1, <4>2
    <3>13. Due(rest[1], sampled)
      BY <3>12 DEF Due
    <3>14. todo' = SubSeq(rest, 1, Len(rest))
      <4>1. PICK i \in DOMAIN rest : FirstDue(i, rest, sampled) /\ todo' = SubSeq(rest, i, Len(rest))
        BY <2>7 DEF GoTo, rest
      <4>2. i \in 1..Len(rest)
        BY <3>9
      <4>3. i = 1
        BY <3>13, <4>1, <4>2 DEF FirstDue
      <4> QED
        BY <4>1, <4>3
    <3>15. todo' \in Seq(Operation) /\ Len(todo') = Len(rest) /\ \A i \in 1..Len(rest) : todo'[i] = rest[i]
      BY <3>9, <3>14
    <3>16. SamplesThenRest(todo', p)
      <4>1. n - 1 \in 0..3 /\ p \in 1..Len(SuccessProgram)
        BY <3>5, <3>7
      <4>2. Len(todo') = (n - 1) + Len(SuccessProgram) + 1 - p
        BY <3>5, <3>9, <3>15
      <4>3. \A i \in 1..(n - 1) : todo'[i].op = "sampleRole"
        BY <3>8, <3>9, <3>10, <3>15
      <4>4. \A i \in ((n - 1) + 1)..Len(todo') : todo'[i] = SuccessProgram[p + i - 1 - (n - 1)]
        BY <3>7, <3>9, <3>11, <3>15
      <4> QED
        BY <3>8, <4>1, <4>2, <4>3, <4>4 DEF SamplesThenRest
    <3>17. DoneBy(p)'
      <4>1. /\ core.cgroup \subseteq core'.cgroup /\ (core.sticky => core'.sticky)
            /\ core'.latest = latest
        BY <2>4, <3>1
      <4>2. \A q \in Roles : core'.latest[q] \in {core.latest[q], cpu[q]}
        BY <2>3, <4>1
      <4>3. DoneBy(p) /\ ~(p > 33) /\ CoreFits /\ OwnerFits
        BY <3>4, <3>8, InvParts DEF Reached
      <4> QED
        BY <2>2, <3>2, <4>1, <4>2, <4>3, CalmKeepsDone
    <3>18. OpenAt(p)'
      <4>1. core'.cgroup = core.cgroup /\ p # 1
        BY <2>4, <3>1, <3>8
      <4> QED
        BY <3>4, <4>1 DEF Reached, OpenAt
    <3>19. PositionFits'
      <4>1. core'.phase = "running" /\ ~core'.hung
        BY <1>2, <2>4, <3>1
      <4> QED
        BY <3>15, <3>16, <3>17, <3>18, <4>1 DEF PositionFits, InSuccess, Reached
    <3> QED
      BY <2>2, <3>3, <3>19 DEF LifecycleInv, Calm, Subsides
  <2> QED
    BY <1>5, <2>6, <2>7
<1> QED
  BY <1>1, <1>4, <1>5

-----------------------------------------------------------------------------
(* Cleanup.                                                                *)

LEMMA FaultKeepsInv ==
  ASSUME LifecycleInv, Calm, core.cgroup \subseteq adapter'.cgroup,
         NEW op \in Cleaning, NEW r, At(op, r), CleanupFaults \/ CleanupRefused
  PROVE  LifecycleInv'
<1>1. Current = Step(op, r) /\ ~core.hung /\ core.phase # "done"
  BY OperationRuns DEF At
<1>2. CASE Sticks(core)
  <2>1. Claims(core)
    BY <1>1, InvParts, CoreClaims
  <2> QED
    BY <1>1, <1>2, <2>1, SticksKeepsInv
<1>3. CASE core' = [core EXCEPT !.hung = TRUE] /\ todo' = todo
  <2>1. Hangs
    BY <1>3, InvParts DEF Hangs, CoreTypes, CoreShape, CoreFields
  <2> QED
    BY <1>1, <2>1, HangKeepsInv
<1> QED
  BY <1>2, <1>3 DEF CleanupFaults, CleanupRefused

LEMMA ReturnsEnds ==
  ASSUME NEW c, CoreShape(c), CleanupReturns(c)
  PROVE  Raised(c) \/ GoneOn(c, Tail(todo))
<1>1. Proceed(c) \/ GoTo(c, Tail(todo))
  BY DEF CleanupReturns
<1> QED
  BY <1>1, ProceedEnds, GoToIsGoneOn

LEMMA CleanupKeepsInv ==
  ASSUME LifecycleInv, Calm, NEW op \in Cleaning, op # "stopController", NEW r, At(op, r),
         NEW c, Claims(c), Raised(c) \/ GoneOn(c, Tail(todo)),
         c.sticky = core.sticky, core.cgroup \subseteq c.cgroup,
         \A p \in 1..38 : SuccessProgram[p] = Step(op, r) /\ Reached(p) =>
           /\ \A q \in Roles : q \in c.cgroup => q \in core.cgroup \/ p = CleanupAt(q) + 3
           /\ \A q \in Roles : c.latest[q] \in {core.latest[q], cpu[q]}
           /\ p > 33 => c.latest = core.latest /\ (core.thrown => c.thrown)
           /\ core.phase = "running" /\ GoneOn(c, Tail(todo)) => Achieves(p)
  PROVE  LifecycleInv'
<1>1. Current = Step(op, r) /\ ~core.hung /\ core.phase \in {"running", "terminal"}
  BY OperationRuns
<1>2. op # "sampleRole" /\ op # "return"
  BY DEF Cleaning
<1>3. CASE core.phase = "running"
  <2>1. PICK p \in 1..39 : /\ RestOf(todo, SuccessProgram, p) /\ Reached(p)
                           /\ SuccessProgram[p] = Step(op, r)
    BY <1>1, <1>2, <1>3, InvParts, SuccessPosition
  <2>2. p \in 1..38
    <3>1. SuccessProgram[39].op = "return" /\ SuccessProgram[p].op = op
      BY <2>1, SuccessSteps DEF Step
    <3> QED
      BY <1>2, <3>1
  <2>3. /\ \A q \in Roles : q \in c.cgroup => q \in core.cgroup \/ p = CleanupAt(q) + 3
        /\ \A q \in Roles : c.latest[q] \in {core.latest[q], cpu[q]}
        /\ p > 33 => c.latest = core.latest /\ (core.thrown => c.thrown)
        /\ GoneOn(c, Tail(todo)) => Achieves(p)
    BY <1>3, <2>1, <2>2
  <2> QED
    BY <1>3, <2>1, <2>2, <2>3, RunningGoesOn
<1>4. CASE core.phase = "terminal"
  <2>1. PICK p \in 1..17 : RestOf(todo, TerminalProgram, p) /\ TerminalProgram[p] = Step(op, r)
    BY <1>1, <1>4, InvParts, TerminalPosition
  <2>2. TerminalProgram[p].op = op
    BY <2>1 DEF Step
  <2>3. p \in 1..15
    <3>1. TerminalProgram[16].op = "stopController" /\ TerminalProgram[17].op = "return"
      BY TerminalSteps DEF Step
    <3> QED
      BY <1>2, <2>2, <3>1
  <2> QED
    BY <1>4, <2>1, <2>3, CleaningGoesOn
<1> QED
  BY <1>1, <1>3, <1>4

LEMMA StopOrContainKeepsInv ==
  ASSUME LifecycleInv, NEW r \in Roles, StopOrContainRole(r)
  PROVE  LifecycleInv'
<1> DEFINE op == "stopOrContainRole"
           c == [core EXCEPT !.record = FALSE, !.thrown = FALSE]
           rest == IF core.baseline[r] = None THEN Tail(Tail(todo)) ELSE Tail(todo)
<1>1. /\ At(op, r) /\ UNCHANGED barrierVars /\ adapter' = adapter
      /\ \/ GoTo(c, rest) \/ CleanupFaults \/ CleanupRefused
      /\ \/ (StopRole(r) \/ UNCHANGED dockerVars) /\ UNCHANGED helperVars
         \/ Contain(r) \/ ContainFails(r)
  BY DEF StopOrContainRole
<1>2. /\ Current = Step(op, r) /\ ~core.hung /\ core.phase \in {"running", "terminal"}
      /\ op \in Cleaning
  BY <1>1, OperationRuns DEF Cleaning
<1>3. BarrierFits' /\ ReleasesAccounted /\ (barrier.destroyed => barrier'.destroyed)
  BY <1>1, InvParts DEF BarrierFits, barrierVars, ReleasesAccounted
<1>4. Orderly /\ (StopRole(r) \/ UNCHANGED dockerVars)
  BY <1>1, InvParts, NoRequestIsOrderly, RoleRequestsAreOrderly, FailedContainmentIsOrderly
<1>5. Subsides
  BY <1>4, InvParts, StopSubsides, NothingSubsides
<1>6. adapter.stopped /\ helper.session = "stopped" => helper'.session = "stopped"
  <2>1. CASE UNCHANGED helperVars
    BY <2>1 DEF helperVars
  <2>2. CASE Contain(r)
    BY <2>2 DEF Contain, Request
  <2>3. CASE ContainFails(r)
    BY <2>2, <2>3, InvParts, FailedRequestIsOrderly DEF ContainFails
  <2> QED
    BY <1>1, <2>1, <2>2, <2>3
<1>7. Calm /\ core.cgroup \subseteq adapter'.cgroup
  BY <1>1, <1>3, <1>4, <1>5, <1>6, CalmWithAdapter
<1>8. CASE CleanupFaults \/ CleanupRefused
  BY <1>1, <1>2, <1>7, <1>8, FaultKeepsInv
<1>9. CASE GoTo(c, rest)
  <2>1. /\ CoreShape(c) /\ c.phase = core.phase /\ c.result = core.result
        /\ c.started = core.started /\ c.cgroup = core.cgroup
        /\ c.baseline = core.baseline /\ c.latest = core.latest
        /\ c.thrown = FALSE /\ c.sticky = core.sticky /\ c.stopped = core.stopped
        /\ c.hung = core.hung
    BY InvParts DEF CoreShape, CoreFields
  <2> HIDE DEF c
  <2>2. Claims(c)
    BY <1>2, <1>7, <2>1, InvParts DEF Claims, CoreTypes
  <2>3. GoneOn(c, rest)
    BY <1>9, <2>1, GoToIsGoneOn
  <2>4. CASE rest = Tail(todo) /\ core.phase = "running"
    <3>1. ASSUME NEW p \in 1..38, SuccessProgram[p] = Step(op, r)
          PROVE  p \in {14, 19, 32} /\ Achieves(p)
      <4>1. p \in {14, 19, 32}
        BY <3>1, SuccessPositions, Places
      <4> QED
        BY <4>1, NothingToAchieve
    <3>2. \A p \in 1..38 : SuccessProgram[p] = Step(op, r) /\ Reached(p) =>
           /\ \A q \in Roles : q \in c.cgroup => q \in core.cgroup \/ p = CleanupAt(q) + 3
           /\ \A q \in Roles : c.latest[q] \in {core.latest[q], cpu[q]}
           /\ p > 33 => c.latest = core.latest /\ (core.thrown => c.thrown)
           /\ core.phase = "running" /\ GoneOn(c, Tail(todo)) => Achieves(p)
      BY <2>1, <3>1
    <3>3. Raised(c) \/ GoneOn(c, Tail(todo))
      BY <2>3, <2>4
    <3>4. op # "stopController" /\ c.sticky = core.sticky /\ core.cgroup \subseteq c.cgroup
      BY <2>1
    <3> HIDE DEF op
    <3> QED
      BY <1>1, <1>2, <1>7, <2>2, <3>2, <3>3, <3>4, CleanupKeepsInv
  <2>5. CASE core.phase = "terminal"
    <3>1. PICK p \in 1..17 : RestOf(todo, TerminalProgram, p) /\ TerminalProgram[p] = Step(op, r)
      BY <1>2, <2>5, InvParts, TerminalPosition
    <3>2. p \in {1, 6, 11}
      <4>1. TerminalProgram[p].op = "stopOrContainRole"
        BY <3>1 DEF Step
      <4> QED
        BY <4>1, CleaningPositions DEF Cleaning
    <3>3. Len(TerminalProgram) = 17
      BY TerminalSteps
    <3>4. Tail(todo) \in Seq(Operation) /\ RestOf(Tail(todo), TerminalProgram, p + 1)
      <4>1. p \in Nat /\ p < Len(TerminalProgram)
        BY <3>2, <3>3
      <4> QED
        BY <3>1, <4>1, InvParts, RestAfterOne, ProgramsAreSequences
    <3>5. Tail(Tail(todo)) \in Seq(Operation) /\ RestOf(Tail(Tail(todo)), TerminalProgram, p + 2)
      <4>1. p + 1 \in Nat /\ p + 1 < Len(TerminalProgram) /\ (p + 1) + 1 = p + 2
        BY <3>2, <3>3
      <4> QED
        BY <3>4, <4>1, RestAfterOne, ProgramsAreSequences
    <3>6. PICK q \in 1..17 : rest \in Seq(Operation) /\ RestOf(rest, TerminalProgram, q) /\ q # 17
      <4>1. p + 1 \in 1..17 /\ p + 1 # 17 /\ p + 2 \in 1..17 /\ p + 2 # 17
        BY <3>2
      <4> QED
        BY <3>4, <3>5, <4>1
    <3>7. PositionFits'
      BY <1>2, <2>1, <2>3, <2>5, <3>6, GoneOnInTerminal
    <3>8. CoreFits'
      <4>1. ClaimsKept
        BY <1>2, <2>2, <2>3, InvParts, ClaimsAreKept
      <4> QED
        BY <1>2, <1>7, <4>1, InvParts, CalmKeepsCore
    <3> QED
      BY <1>7, <3>7, <3>8 DEF LifecycleInv, Calm, Subsides
  <2>6. ASSUME core.phase = "running" PROVE rest = Tail(todo)
    <3>1. PICK p \in 1..39 : Reached(p) /\ SuccessProgram[p] = Step(op, r)
      BY <1>2, <2>6, InvParts, SuccessPosition
    <3>2. p > SetupAt(r) + 3
      BY <3>1, SuccessPositions, Places
    <3>3. core.baseline[r] = helper.baseline[r]
      BY <3>1, <3>2 DEF Reached, DoneBy
    <3> QED
      BY <3>3, InvParts DEF HelperTypes, None
  <2> QED
    BY <1>2, <2>4, <2>5, <2>6
<1> QED
  BY <1>1, <1>8, <1>9

LEMMA QuiescentKeepsInv ==
  ASSUME LifecycleInv, NEW r \in Roles, ReadQuiescentSample(r)
  PROVE  LifecycleInv'
<1> DEFINE op == "readQuiescentSample"
           latest == [core.latest EXCEPT ![r] = cpu[r]]
           over == CumulativeCpu(latest) > Budget
           c == [core EXCEPT !.latest = latest, !.thrown = over,
                             !.record = core.phase = "running" /\ ~over]
<1>1. /\ At(op, r) /\ UNCHANGED dockerVars /\ UNCHANGED barrierVars /\ adapter' = adapter
      /\ \/ Live /\ ~Running(r) /\ ReadQuiescent(r) /\ CleanupReturns(c)
         \/ Live /\ ReadQuiescent(r) /\ CleanupFaults
         \/ RequestFails /\ (CleanupFaults \/ CleanupRefused)
  BY DEF ReadQuiescentSample
<1>2. /\ Current = Step(op, r) /\ ~core.hung /\ core.phase \in {"running", "terminal"}
      /\ op \in Cleaning
  BY <1>1, OperationRuns DEF Cleaning
<1>3. /\ Subsides /\ BarrierFits' /\ ReleasesAccounted /\ (barrier.destroyed => barrier'.destroyed)
      /\ box' = box
  BY <1>1, InvParts, NothingSubsides DEF BarrierFits, barrierVars, dockerVars, ReleasesAccounted
<1>4. /\ Orderly
      /\ adapter.stopped /\ helper.session = "stopped" => helper'.session = "stopped"
  <2>1. CASE Live /\ ReadQuiescent(r)
    BY <2>1, InvParts, RoleRequestsAreOrderly DEF Live
  <2>2. CASE RequestFails
    BY <2>2, InvParts, FailedRequestIsOrderly
  <2> QED
    BY <1>1, <2>1, <2>2
<1>5. Calm /\ core.cgroup \subseteq adapter'.cgroup
  BY <1>1, <1>3, <1>4, CalmWithAdapter
<1>6. CASE CleanupFaults \/ CleanupRefused
  BY <1>1, <1>2, <1>5, <1>6, FaultKeepsInv
<1>7. CASE ~Running(r) /\ CleanupReturns(c)
  <2>1. /\ latest \in [Roles -> Int] /\ latest[r] = cpu[r] /\ over \in BOOLEAN
        /\ \A q \in Roles : latest[q] \in {core.latest[q], cpu[q]}
    BY InvParts DEF HelperTypes, CoreTypes
  <2>2. /\ CoreShape(c) /\ c.phase = core.phase /\ c.result = core.result
        /\ c.started = core.started /\ c.cgroup = core.cgroup
        /\ c.baseline = core.baseline /\ c.latest = latest
        /\ c.thrown = over /\ c.sticky = core.sticky /\ c.stopped = core.stopped
        /\ c.hung = core.hung
    BY InvParts DEF CoreShape, CoreFields
  <2> HIDE DEF c
  <2>3. Raised(c) \/ GoneOn(c, Tail(todo))
    BY <1>7, <2>2, ReturnsEnds
  <2>4. cpu' = cpu
    BY <1>4 DEF Orderly
  <2>5. CumulativeCpu(latest) \in Int /\ Budget \in Int
    <3>1. \A q \in Roles : latest[q] \in Int /\ core.baseline[q] \in Int
      BY <2>1, InvParts DEF CoreTypes
    <3> HIDE DEF latest
    <3> QED
      BY <3>1, RoleNames, BudgetAssumption DEF CumulativeCpu
  <2>6. over \/ CumulativeCpu(latest) <= Budget
    BY <2>5
  <2> HIDE DEF latest, over
  <2>7. Claims(c)
    BY <1>2, <1>5, <2>1, <2>2, InvParts DEF Claims, CoreTypes
  <2>8. ASSUME NEW p \in 1..38, SuccessProgram[p] = Step(op, r)
        PROVE  p = CleanupAt(r) + 1 /\ p \in {15, 20, 33}
    BY <2>8, SuccessPositions, Places
  <2>9. ASSUME NEW p \in 1..38, SuccessProgram[p] = Step(op, r), Reached(p),
               core.phase = "running", GoneOn(c, Tail(todo))
        PROVE  Achieves(p)
    <3>1. /\ core'.latest = latest /\ core'.baseline = core.baseline
          /\ core'.thrown = over /\ core'.sticky = core.sticky
      BY <2>2, <2>9 DEF GoneOn, SameClaims
    <3>2. p = CleanupAt(r) + 1 /\ p \in {15, 20, 33}
      BY <2>8, <2>9
    <3>3. Final(r)'
      <4>1. r \in core.started
        BY <2>9, <3>2, Places DEF Reached, DoneBy
      <4>2. box[r] # "created" /\ box[r] \notin RunningStates
        BY <1>7, <4>1, InvParts DEF CoreFits, Running
      <4> QED
        BY <1>3, <2>1, <2>4, <3>1, <4>2 DEF Final
    <3>4. (CumulativeCpu(core.latest) <= Budget)' <=> CumulativeCpu(latest) <= Budget
      BY <3>1 DEF CumulativeCpu
    <3>5. core'.thrown \/ (CumulativeCpu(core.latest) <= Budget)'
      BY <2>6, <3>1, <3>4
    <3>6. \A q \in Roles : /\ p = CleanupAt(q) + 1 => q = r
                           /\ p # SetupAt(q) /\ p # SetupAt(q) + 2 /\ p # SetupAt(q) + 3
                           /\ p # CleanupAt(q) + 3
      BY <3>2, Places
    <3> QED
      BY <3>2, <3>3, <3>5, <3>6 DEF Achieves
  <2>10. \A p \in 1..38 : SuccessProgram[p] = Step(op, r) /\ Reached(p) =>
           /\ \A q \in Roles : q \in c.cgroup => q \in core.cgroup \/ p = CleanupAt(q) + 3
           /\ \A q \in Roles : c.latest[q] \in {core.latest[q], cpu[q]}
           /\ p > 33 => c.latest = core.latest /\ (core.thrown => c.thrown)
           /\ core.phase = "running" /\ GoneOn(c, Tail(todo)) => Achieves(p)
    BY <2>1, <2>2, <2>8, <2>9
  <2>11. op # "stopController" /\ c.sticky = core.sticky /\ core.cgroup \subseteq c.cgroup
    BY <2>2
  <2> HIDE DEF op
  <2> QED
    BY <1>1, <1>2, <1>5, <2>3, <2>7, <2>10, <2>11, CleanupKeepsInv
<1> QED
  BY <1>1, <1>6, <1>7

LEMMA RemovalOfOne ==
  ASSUME OwnerFits, NEW r \in Roles
  PROVE  /\ RemoveRole(r) => Subsides /\ r \in owner'.removed
         /\ RemoveRoleFails(r) => Subsides
<1>1. /\ <<r>> \in Seq(Resources) /\ Len(<<r>>) = 1 /\ <<r>>[1] = r
      /\ r \in Resources
  BY DEF Resources
<1>2. ASSUME NEW k \in 0..1, RemoveUpTo(<<r>>, k)
      PROVE  Subsides /\ ToSet(SubSeq(<<r>>, 1, k)) \subseteq owner'.removed
  <2>1. k \in 0..Len(<<r>>)
    BY <1>1
  <2> QED
    BY <1>1, <1>2, <2>1, RemovalSubsides
<1>3. r \in ToSet(SubSeq(<<r>>, 1, 1))
  <2>1. ToSet(SubSeq(<<r>>, 1, 1)) = {<<r>>[i] : i \in 1..1}
    <3>1. 1 \in 0..Len(<<r>>)
      BY <1>1
    <3> DEFINE s == <<r>>
    <3>2. s \in Seq(Resources) /\ 1 \in 0..Len(s)
      BY <1>1, <3>1
    <3> HIDE DEF s
    <3>3. ToSet(SubSeq(s, 1, 1)) = {s[i] : i \in 1..1}
      BY <3>2, PrefixElements
    <3> QED
      BY <3>3 DEF s
  <2> QED
    BY <1>1, <2>1
<1>4. 1 \in 0..1
  OBVIOUS
<1> QED
  BY <1>2, <1>3, <1>4 DEF RemoveRole, RemoveRoleFails

LEMMA DockerKeepsInv ==
  ASSUME LifecycleInv, NEW r \in Roles, ReleaseRoleDocker(r)
  PROVE  LifecycleInv'
<1> DEFINE op == "releaseRoleDocker"
           receipt == [adapter EXCEPT !.receipt = @ \cup {r}]
           c == [core EXCEPT !.docker = @ \cup {r}]
<1>1. /\ At(op, r) /\ UNCHANGED barrierVars /\ UNCHANGED helperVars
      /\ \/ Live /\ RemoveRole(r) /\ adapter' = receipt /\ CleanupReturns(c)
         \/ /\ Live /\ RemoveRoleFails(r) /\ CleanupFaults
            /\ adapter' = IF r \in owner'.removed THEN receipt ELSE adapter
         \/ UNCHANGED dockerVars /\ adapter' = adapter /\ CleanupRefused
  BY DEF ReleaseRoleDocker
<1>2. /\ Current = Step(op, r) /\ ~core.hung /\ core.phase \in {"running", "terminal"}
      /\ op \in Cleaning
  BY <1>1, OperationRuns DEF Cleaning
<1>3. /\ BarrierFits' /\ ReleasesAccounted /\ (barrier.destroyed => barrier'.destroyed)
      /\ Orderly /\ helper'.session = helper.session
  BY <1>1, InvParts, NoRequestIsOrderly DEF BarrierFits, barrierVars, helperVars, ReleasesAccounted
<1>4. Subsides /\ (RemoveRole(r) => r \in owner'.removed)
  BY <1>1, InvParts, RemovalOfOne, NothingSubsides
<1>5. /\ receipt = [f \in {"owned", "bound", "reobserved", "released", "receipt", "cgroup",
                           "stopped"} |-> receipt[f]]
      /\ receipt.bound = adapter.bound /\ receipt.receipt = adapter.receipt \cup {r}
      /\ receipt.cgroup = adapter.cgroup /\ receipt.stopped = adapter.stopped
  BY InvParts DEF AdapterTypes
<1> HIDE DEF receipt
<1>6. Calm /\ core.cgroup \subseteq adapter'.cgroup
  <2>1. \/ adapter' = adapter
        \/ adapter' = receipt /\ r \in owner'.removed
    BY <1>1, <1>4
  <2>2. /\ AdapterTypes' /\ adapter'.bound = adapter.bound /\ adapter'.cgroup = adapter.cgroup
        /\ adapter'.stopped = adapter.stopped
        /\ adapter.receipt \subseteq adapter'.receipt
        /\ adapter'.receipt \subseteq adapter.receipt \cup owner'.removed
    BY <1>5, <2>1, InvParts DEF AdapterTypes
  <2>3. adapter'.cgroup \subseteq adapter'.receipt
    BY <2>2, InvParts DEF AdapterFits
  <2>4. Calm
    BY <1>3, <1>4, <2>2, <2>3, MakesCalm
  <2> QED
    BY <2>2, <2>4, InvParts DEF CoreFits
<1>7. CASE CleanupFaults \/ CleanupRefused
  BY <1>1, <1>2, <1>6, <1>7, FaultKeepsInv
<1>8. CASE CleanupReturns(c)
  <2>2. /\ CoreShape(c) /\ c.phase = core.phase /\ c.result = core.result
        /\ c.started = core.started /\ c.cgroup = core.cgroup
        /\ c.baseline = core.baseline /\ c.latest = core.latest
        /\ c.thrown = core.thrown /\ c.sticky = core.sticky /\ c.stopped = core.stopped
        /\ c.hung = core.hung
    BY InvParts DEF CoreShape, CoreFields
  <2> HIDE DEF c
  <2>3. Raised(c) \/ GoneOn(c, Tail(todo))
    BY <1>8, <2>2, ReturnsEnds
  <2>4. Claims(c)
    BY <1>2, <1>6, <2>2, InvParts DEF Claims, CoreTypes
  <2>5. ASSUME NEW p \in 1..38, SuccessProgram[p] = Step(op, r)
        PROVE  Achieves(p)
    <3>1. p \in {16, 21, 34}
      BY <2>5, SuccessPositions, Places
    <3> QED
      BY <3>1, NothingToAchieve
  <2>6. \A p \in 1..38 : SuccessProgram[p] = Step(op, r) /\ Reached(p) =>
           /\ \A q \in Roles : q \in c.cgroup => q \in core.cgroup \/ p = CleanupAt(q) + 3
           /\ \A q \in Roles : c.latest[q] \in {core.latest[q], cpu[q]}
           /\ p > 33 => c.latest = core.latest /\ (core.thrown => c.thrown)
           /\ core.phase = "running" /\ GoneOn(c, Tail(todo)) => Achieves(p)
    BY <2>2, <2>5
  <2>7. op # "stopController" /\ c.sticky = core.sticky /\ core.cgroup \subseteq c.cgroup
    BY <2>2
  <2> HIDE DEF op
  <2> QED
    BY <1>1, <1>2, <1>6, <2>3, <2>4, <2>6, <2>7, CleanupKeepsInv
<1> QED
  BY <1>1, <1>7, <1>8

LEMMA CgroupKeepsInv ==
  ASSUME LifecycleInv, NEW r \in Roles, ReleaseRoleCgroup(r)
  PROVE  LifecycleInv'
<1> DEFINE op == "releaseRoleCgroup"
           released == [adapter EXCEPT !.cgroup = @ \cup {r}]
           c == [core EXCEPT !.cgroup = @ \cup {r}, !.active = @ \ {r}]
           unbound == Live /\ r \in adapter.receipt \ adapter.bound
           bound == Live /\ r \in adapter.bound \cap adapter.receipt
<1>1. /\ At(op, r) /\ UNCHANGED barrierVars /\ UNCHANGED dockerVars
      /\ \/ /\ \/ unbound /\ UNCHANGED helperVars
               \/ bound /\ Release(r)
            /\ adapter' = released /\ CleanupReturns(c)
         \/ bound /\ Release(r) /\ adapter' = released /\ CleanupFaults
         \/ (Poison \/ UNCHANGED helperVars) /\ adapter' = adapter /\ (CleanupFaults \/ CleanupRefused)
  BY DEF ReleaseRoleCgroup
<1>2. /\ Current = Step(op, r) /\ ~core.hung /\ core.phase \in {"running", "terminal"}
      /\ op \in Cleaning
  BY <1>1, OperationRuns DEF Cleaning
<1>3. /\ BarrierFits' /\ ReleasesAccounted /\ (barrier.destroyed => barrier'.destroyed)
      /\ Subsides
  BY <1>1, InvParts, NothingSubsides DEF BarrierFits, barrierVars, ReleasesAccounted
<1>4. /\ released = [f \in {"owned", "bound", "reobserved", "released", "receipt", "cgroup",
                           "stopped"} |-> released[f]]
      /\ released.bound = adapter.bound /\ released.receipt = adapter.receipt
      /\ released.cgroup = adapter.cgroup \cup {r} /\ released.stopped = adapter.stopped
  BY InvParts DEF AdapterTypes
<1> HIDE DEF released
<1>5. CASE /\ \/ unbound /\ UNCHANGED helperVars
              \/ bound /\ Release(r)
           /\ adapter' = released /\ (CleanupReturns(c) \/ CleanupFaults)
  <2>1. /\ Orderly /\ ~adapter.stopped /\ r \in adapter.receipt
        /\ r \in adapter.bound => helper'.status[r] = "RELEASED"
    <3>1. CASE unbound /\ UNCHANGED helperVars
      BY <3>1, InvParts, NoRequestIsOrderly DEF Live
    <3>2. CASE bound /\ Release(r)
      BY <3>2, InvParts, RoleRequestsAreOrderly DEF Live
    <3> QED
      BY <1>5, <3>1, <3>2
  <2>2. /\ AdapterTypes' /\ adapter'.bound = adapter.bound /\ adapter'.receipt = adapter.receipt
        /\ adapter'.cgroup = adapter.cgroup \cup {r} /\ adapter'.stopped = adapter.stopped
    BY <1>4, <1>5, InvParts DEF AdapterTypes
  <2>3. adapter'.cgroup \subseteq adapter'.receipt
    BY <2>1, <2>2, InvParts DEF AdapterFits
  <2>4. \A q \in adapter'.cgroup :
          q \in adapter.cgroup \/ q \notin adapter'.bound \/ helper'.status[q] = "RELEASED"
    BY <2>1, <2>2
  <2>5. Calm
    BY <1>3, <2>1, <2>2, <2>3, <2>4, MakesCalm
  <2>6. core.cgroup \subseteq adapter'.cgroup
    BY <2>2, InvParts DEF CoreFits
  <2>7. CASE CleanupFaults
    BY <1>1, <1>2, <2>5, <2>6, <2>7, FaultKeepsInv
  <2>8. CASE CleanupReturns(c)
    <3>1. /\ CoreShape(c) /\ c.phase = core.phase /\ c.result = core.result
          /\ c.started = core.started /\ c.cgroup = core.cgroup \cup {r}
          /\ c.baseline = core.baseline /\ c.latest = core.latest
          /\ c.thrown = core.thrown /\ c.sticky = core.sticky /\ c.stopped = core.stopped
          /\ c.hung = core.hung
      BY InvParts DEF CoreShape, CoreFields
    <3> HIDE DEF c
    <3>2. Raised(c) \/ GoneOn(c, Tail(todo))
      BY <2>8, <3>1, ReturnsEnds
    <3>3. Claims(c)
      BY <1>2, <2>2, <2>6, <3>1, InvParts DEF Claims, CoreTypes
    <3>4. ASSUME NEW p \in 1..38, SuccessProgram[p] = Step(op, r)
          PROVE  p = CleanupAt(r) + 3 /\ (GoneOn(c, Tail(todo)) => Achieves(p))
      <4>1. p = CleanupAt(r) + 3 /\ p \in {17, 22, 35}
        BY <3>4, SuccessPositions, Places
      <4>2. \A q \in Roles : /\ p = CleanupAt(q) + 3 => q = r
                             /\ p # SetupAt(q) /\ p # SetupAt(q) + 2 /\ p # SetupAt(q) + 3
                             /\ p # CleanupAt(q) + 1
        BY <4>1, Places
      <4>3. GoneOn(c, Tail(todo)) => r \in core'.cgroup
        BY <3>1 DEF GoneOn, SameClaims
      <4> QED
        BY <4>1, <4>2, <4>3 DEF Achieves
    <3>5. \A p \in 1..38 : SuccessProgram[p] = Step(op, r) /\ Reached(p) =>
             /\ \A q \in Roles : q \in c.cgroup => q \in core.cgroup \/ p = CleanupAt(q) + 3
             /\ \A q \in Roles : c.latest[q] \in {core.latest[q], cpu[q]}
             /\ p > 33 => c.latest = core.latest /\ (core.thrown => c.thrown)
             /\ core.phase = "running" /\ GoneOn(c, Tail(todo)) => Achieves(p)
      BY <3>1, <3>4
    <3>6. op # "stopController" /\ c.sticky = core.sticky /\ core.cgroup \subseteq c.cgroup
      BY <3>1
    <3> HIDE DEF op
    <3> QED
      BY <1>1, <1>2, <2>5, <3>2, <3>3, <3>5, <3>6, CleanupKeepsInv
  <2> QED
    BY <1>5, <2>7, <2>8
<1>6. CASE /\ Poison \/ UNCHANGED helperVars
           /\ adapter' = adapter /\ (CleanupFaults \/ CleanupRefused)
  <2>1. Orderly /\ (helper.session = "stopped" => helper'.session = "stopped")
    BY <1>6, InvParts, FailedRequestIsOrderly DEF RequestFails
  <2>2. Calm /\ core.cgroup \subseteq adapter'.cgroup
    BY <1>3, <1>6, <2>1, CalmWithAdapter
  <2> QED
    BY <1>1, <1>2, <1>6, <2>2, FaultKeepsInv
<1> QED
  BY <1>1, <1>5, <1>6

LEMMA FinishKeepsInv ==
  ASSUME LifecycleInv, NEW r \in Roles, FinishRoleCleanup(r)
  PROVE  LifecycleInv'
<1> DEFINE op == "finishRoleCleanup"
           code == IF core.failure = "LIFECYCLE_OPERATION_FAILED" THEN "CPU_BUDGET_EXCEEDED"
                                                                 ELSE core.failure
           c == [core EXCEPT !.thrown = FALSE, !.failure = code]
<1>1. /\ At(op, r) /\ UNCHANGED <<dockerVars, barrierVars, helperVars, adapter>>
      /\ IF core.phase = "running" THEN Raise(core, "CPU_BUDGET_EXCEEDED") ELSE GoTo(c, Tail(todo))
  BY DEF FinishRoleCleanup
<1>2. /\ Current = Step(op, r) /\ ~core.hung /\ core.phase \in {"running", "terminal"}
      /\ op \in Cleaning
  BY <1>1, OperationRuns DEF Cleaning
<1>3. CASE core.phase = "running"
  BY <1>1, <1>2, <1>3, RunIsOutlived, ExecutionFails, InvParts
<1>4. CASE core.phase = "terminal"
  <2>1. /\ CoreShape(c) /\ c.phase = core.phase /\ c.result = core.result
        /\ c.started = core.started /\ c.cgroup = core.cgroup
        /\ c.baseline = core.baseline /\ c.latest = core.latest
        /\ c.thrown = FALSE /\ c.sticky = core.sticky /\ c.stopped = core.stopped
        /\ c.hung = core.hung
    BY InvParts DEF CoreShape, CoreFields
  <2>2. GoTo(c, Tail(todo))
    BY <1>1, <1>4
  <2> HIDE DEF c
  <2>3. GoneOn(c, Tail(todo))
    BY <2>1, <2>2, GoToIsGoneOn
  <2>4. Calm /\ core.cgroup \subseteq adapter'.cgroup
    BY <1>1, OnlyCoreIsCalm
  <2>5. Claims(c)
    BY <1>2, <2>1, <2>4, InvParts DEF Claims, CoreTypes
  <2>6. PICK p \in 1..17 : RestOf(todo, TerminalProgram, p) /\ TerminalProgram[p] = Step(op, r)
    BY <1>2, <1>4, InvParts, TerminalPosition
  <2>7. p \in 1..15
    <3>1. TerminalProgram[p].op = "finishRoleCleanup"
      BY <2>6 DEF Step
    <3> QED
      BY <3>1, TerminalSteps DEF Step
  <2> QED
    BY <1>4, <2>3, <2>4, <2>5, <2>6, <2>7, CleaningGoesOn
<1> QED
  BY <1>2, <1>3, <1>4

-----------------------------------------------------------------------------
(* The controller.                                                         *)

LEMMA RemovalOfNetworks ==
  ASSUME OwnerFits
  PROVE  /\ RemoveNetworks => Subsides /\ Resources \subseteq owner'.removed
         /\ RemoveNetworksFails => Subsides
<1> DEFINE s == NetworkRemovalOrder
<1>1. /\ s \in Seq(Resources) /\ Len(s) = 2 /\ s[1] = "outbound-network" /\ s[2] = "worker-network"
  BY Orders
<1> HIDE DEF s
<1>2. ASSUME NEW k \in 0..Len(s), RemoveUpTo(s, k)
      PROVE  Subsides /\ ToSet(SubSeq(s, 1, k)) \subseteq owner'.removed
  BY <1>1, <1>2, RemovalSubsides
<1>3. ASSUME RemoveNetworks PROVE Subsides /\ Resources \subseteq owner'.removed
  <2>1. AllRolesRemoved /\ RemoveUpTo(s, 2) /\ 2 \in 0..Len(s)
    BY <1>1, <1>3 DEF RemoveNetworks, s
  <2>2. Subsides /\ ToSet(SubSeq(s, 1, 2)) \subseteq owner'.removed
    BY <1>2, <2>1
  <2>3. ToSet(SubSeq(s, 1, 2)) = {s[i] : i \in 1..2}
    BY <1>1, <2>1, PrefixElements
  <2>4. Networks \subseteq owner'.removed
    <3>1. s[1] \in owner'.removed /\ s[2] \in owner'.removed
      BY <2>2, <2>3
    <3> QED
      BY <1>1, <3>1, RoleNames
  <2> QED
    BY <2>1, <2>2, <2>4 DEF AllRolesRemoved, Subsides, Resources
<1>4. ASSUME RemoveNetworksFails PROVE Subsides
  BY <1>2, <1>4, NothingSubsides DEF RemoveNetworksFails, s
<1> QED
  BY <1>3, <1>4

LEMMA StopControllerKeepsInv ==
  ASSUME LifecycleInv, StopController
  PROVE  LifecycleInv'
<1> DEFINE op == "stopController"
           stopped == [adapter EXCEPT !.stopped = TRUE]
           c == [core EXCEPT !.stopped = TRUE, !.record = core.phase = "running"]
<1>1. /\ At(op, "all")
      /\ \/ /\ Live /\ StopHelper /\ RemoveNetworks /\ DestroyBarrier /\ adapter' = stopped
            /\ helper.session = "open" /\ CleanupReturns(c)
         \/ /\ Live /\ adapter' = adapter /\ (CleanupFaults \/ CleanupRefused)
            /\ StopHelper \/ StopHelperFails \/ TerminateHelper
            /\ RemoveNetworks \/ RemoveNetworksFails
            /\ DestroyBarrierFails
         \/ UNCHANGED <<dockerVars, barrierVars, helperVars, adapter>> /\ CleanupRefused
  BY DEF StopController
<1>2. /\ Current = Step(op, "all") /\ ~core.hung /\ core.phase \in {"running", "terminal"}
      /\ op \in Cleaning
  BY <1>1, OperationRuns DEF Cleaning
<1>3. "worker" \in Roles
  BY RoleNames
<1>4. CASE /\ Live /\ adapter' = adapter /\ (CleanupFaults \/ CleanupRefused)
           /\ StopHelper \/ StopHelperFails \/ TerminateHelper
           /\ RemoveNetworks \/ RemoveNetworksFails
           /\ DestroyBarrierFails
  <2>1. Orderly
    BY <1>4, InvParts, StopIsOrderly
  <2>2. Subsides
    BY <1>4, InvParts, RemovalOfNetworks
  <2>3. BarrierFits' /\ ReleasesAccounted /\ (barrier.destroyed => barrier'.destroyed)
    BY <1>3, <1>4, InvParts, BarrierMoves DEF ReleasesAccounted
  <2>4. Calm /\ core.cgroup \subseteq adapter'.cgroup
    BY <1>4, <2>1, <2>2, <2>3, CalmWithAdapter DEF Live
  <2> QED
    BY <1>1, <1>2, <1>4, <2>4, FaultKeepsInv
<1>5. CASE UNCHANGED <<dockerVars, barrierVars, helperVars, adapter>> /\ CleanupRefused
  BY <1>1, <1>2, <1>5, OnlyCoreIsCalm, FaultKeepsInv
<1>6. CASE /\ Live /\ StopHelper /\ RemoveNetworks /\ DestroyBarrier /\ adapter' = stopped
           /\ helper.session = "open" /\ CleanupReturns(c)
  <2>1. /\ Orderly /\ helper'.session = "stopped" /\ helper'.status = helper.status
        /\ BoundRoles = {}
    BY <1>6, InvParts, StopIsOrderly
  <2>2. Subsides /\ Resources \subseteq owner'.removed
    BY <1>6, InvParts, RemovalOfNetworks
  <2>3. BarrierFits' /\ ReleasesAccounted /\ barrier'.destroyed
    BY <1>3, <1>6, InvParts, BarrierMoves DEF ReleasesAccounted
  <2>4. /\ AdapterTypes' /\ adapter'.bound = adapter.bound /\ adapter'.receipt = adapter.receipt
        /\ adapter'.cgroup = adapter.cgroup /\ adapter'.stopped /\ ~adapter.stopped
    BY <1>6, InvParts DEF AdapterTypes, Live
  <2>5. Calm
    <3>1. adapter'.cgroup \subseteq adapter'.receipt
      BY <2>4, InvParts DEF AdapterFits
    <3> QED
      BY <2>1, <2>2, <2>3, <2>4, <3>1, MakesCalm
  <2>6. core.cgroup \subseteq adapter'.cgroup
    BY <2>4, InvParts DEF CoreFits
  <2>7. StoppedWell'
    BY <2>1, <2>2, <2>3, <2>4, RoleNames DEF StoppedWell, BoundRoles
  <2>8. /\ CoreShape(c) /\ c.phase = core.phase /\ c.result = core.result
        /\ c.started = core.started /\ c.cgroup = core.cgroup
        /\ c.baseline = core.baseline /\ c.latest = core.latest
        /\ c.thrown = core.thrown /\ c.sticky = core.sticky /\ c.stopped = TRUE
        /\ c.hung = core.hung
    BY InvParts DEF CoreShape, CoreFields
  <2> HIDE DEF c
  <2>9. Raised(c) \/ GoneOn(c, Tail(todo))
    BY <1>6, <2>8, ReturnsEnds
  <2>10. Claims(c)
    BY <1>2, <2>6, <2>7, <2>8, InvParts DEF Claims, CoreTypes
  <2>11. CASE core.phase = "running"
    <3>1. PICK p \in 1..39 : /\ RestOf(todo, SuccessProgram, p) /\ Reached(p)
                             /\ SuccessProgram[p] = Step(op, "all")
      BY <1>2, <2>11, InvParts, SuccessPosition
    <3>2. p = 38
      BY <1>3, <3>1, SuccessPositions
    <3>3. Achieves(p)
      BY <3>2, NothingToAchieve
    <3> QED
      BY <2>5, <2>8, <2>9, <2>10, <2>11, <3>1, <3>2, <3>3, RunningGoesOn
  <2>12. CASE core.phase = "terminal"
    <3>1. PICK p \in 1..17 : RestOf(todo, TerminalProgram, p) /\ TerminalProgram[p] = Step(op, "all")
      BY <1>2, <2>12, InvParts, TerminalPosition
    <3>2. p \in 1..16
      <4>1. TerminalProgram[p].op = op
        BY <3>1 DEF Step
      <4> QED
        BY <4>1, CleaningPositions DEF Cleaning
    <3> QED
      BY <2>5, <2>8, <2>9, <2>10, <2>12, <3>1, <3>2, CleaningGoesOn
  <2> QED
    BY <1>2, <2>11, <2>12
<1> QED
  BY <1>1, <1>4, <1>5, <1>6

\* What the core was doing when it hung.
LEMMA HungInCleaning ==
  ASSUME LifecycleInv, core.hung
  PROVE  /\ core.phase \in {"running", "terminal"}
         /\ \E op \in Cleaning, r \in {"egress", "worker", "verifier", "all"} : Current = Step(op, r)
<1>1. core.phase \in {"running", "terminal"} /\ Current.op \in Cleaning /\ todo \in Seq(Operation)
  BY InvParts DEF CoreFits, CoreTypes, PositionFits, Current
<1>2. todo # <<>>
  <2>1. CASE core.phase = "running"
    <3>1. PICK p \in 1..39 : SamplesThenRest(todo, p)
      BY <2>1, InvParts DEF PositionFits, InSuccess
    <3>2. PICK n \in 0..3 : Len(todo) = n + Len(SuccessProgram) + 1 - p
      BY <3>1 DEF SamplesThenRest
    <3>3. Len(SuccessProgram) = 39
      BY SuccessSteps
    <3>4. Len(todo) > 0
      BY <3>2, <3>3
    <3> QED
      BY <3>4
  <2>2. CASE core.phase = "terminal"
    <3>1. PICK p \in 1..17 : RestOf(todo, TerminalProgram, p)
      BY <2>2, InvParts DEF PositionFits, InTerminal
    <3>2. Len(TerminalProgram) = 17
      BY TerminalSteps
    <3>3. Len(todo) > 0
      BY <3>1, <3>2 DEF RestOf
    <3> QED
      BY <3>3
  <2> QED
    BY <1>1, <2>1, <2>2
<1>3. Current \in Operation
  BY <1>1, <1>2 DEF Current
<1>4. /\ Current = [op |-> Current.op, role |-> Current.role]
      /\ Current.role \in {"egress", "worker", "verifier", "all"}
  BY <1>3 DEF Operation
<1> QED
  BY <1>1, <1>4 DEF Step

LEMMA ForceKeepsInv ==
  ASSUME LifecycleInv, ForceTerminate
  PROVE  LifecycleInv'
<1> DEFINE order == RoleOrder \o NetworkRemovalOrder
<1>1. order \in Seq(Resources) /\ Len(order) = 5 /\ \A x \in Resources : \E i \in 1..5 : order[i] = x
  BY Orders
<1> DEFINE forced == [core EXCEPT !.forced = TRUE]
           all == [adapter EXCEPT !.receipt = Roles]
           stopped == [adapter EXCEPT !.receipt = Roles, !.stopped = TRUE]
           some(k) == [adapter EXCEPT !.receipt = @ \cup (Roles \cap ToSet(SubSeq(order, 1, k)))]
<1>2. /\ core.hung /\ Live /\ todo' = todo
      /\ core' = forced \/ core' = [forced EXCEPT !.sticky = TRUE]
      /\ \/ /\ RemoveUpTo(order, 5) /\ TerminateHelper /\ (DestroyBarrier \/ DestroyBarrierFails)
            /\ adapter' \in {all, stopped}
         \/ /\ \E k \in 0..5 : RemoveUpTo(order, k) /\ adapter' = some(k)
            /\ UNCHANGED <<barrierVars, helperVars>>
  BY <1>1 DEF ForceTerminate
<1> HIDE DEF order
<1>3. ASSUME NEW k \in 0..5, RemoveUpTo(order, k)
      PROVE  Subsides /\ ToSet(SubSeq(order, 1, k)) \subseteq owner'.removed
  BY <1>1, <1>3, InvParts, RemovalSubsides
<1>4. ASSUME RemoveUpTo(order, 5) PROVE Resources \subseteq owner'.removed
  <2>1. 5 \in 0..5 /\ 5 \in 0..Len(order)
    BY <1>1
  <2>2. ToSet(SubSeq(order, 1, 5)) = {order[i] : i \in 1..5}
    <3>1. order \in Seq(Resources) /\ 5 \in 0..Len(order)
      BY <1>1, <2>1
    <3> QED
      BY <3>1, PrefixElements
  <2>3. ToSet(SubSeq(order, 1, 5)) \subseteq owner'.removed
    BY <1>3, <1>4, <2>1
  <2> QED
    BY <1>1, <2>2, <2>3
<1>5. /\ Subsides /\ Orderly /\ BarrierFits' /\ ReleasesAccounted
      /\ barrier.destroyed => barrier'.destroyed
  <2>1. Subsides
    <3>1. 5 \in 0..5
      OBVIOUS
    <3> QED
      BY <1>2, <1>3, <3>1
  <2>2. Orderly
    BY <1>2, InvParts, NoRequestIsOrderly, StopIsOrderly
  <2>3. DestroyBarrier \/ DestroyBarrierFails \/ UNCHANGED barrierVars
    BY <1>2
  <2>4. "worker" \in Roles
    BY RoleNames
  <2>5. BarrierFits' /\ frames' = frames /\ (barrier.destroyed => barrier'.destroyed)
    BY <2>3, <2>4, InvParts, BarrierMoves
  <2> QED
    BY <2>1, <2>2, <2>5 DEF ReleasesAccounted
<1>6. /\ AdapterTypes' /\ adapter'.bound = adapter.bound /\ adapter'.cgroup = adapter.cgroup
      /\ adapter.receipt \subseteq adapter'.receipt
      /\ adapter'.receipt \subseteq adapter.receipt \cup owner'.removed
      /\ ~adapter.stopped
  <2>1. CASE RemoveUpTo(order, 5) /\ adapter' \in {all, stopped}
    <3>1. Roles \subseteq owner'.removed
      BY <1>4, <2>1 DEF Resources
    <3>2. /\ adapter' = [f \in {"owned", "bound", "reobserved", "released", "receipt", "cgroup",
                                "stopped"} |-> adapter'[f]]
          /\ adapter'.bound = adapter.bound /\ adapter'.cgroup = adapter.cgroup
          /\ adapter'.receipt = Roles /\ adapter'.stopped \in BOOLEAN
      BY <2>1, InvParts DEF AdapterTypes
    <3> QED
      BY <1>2, <3>1, <3>2, InvParts DEF AdapterTypes, Live
  <2>2. CASE \E k \in 0..5 : RemoveUpTo(order, k) /\ adapter' = some(k)
    <3>1. PICK k \in 0..5 : RemoveUpTo(order, k) /\ adapter' = some(k)
      BY <2>2
    <3> DEFINE more == adapter.receipt \cup (Roles \cap ToSet(SubSeq(order, 1, k)))
    <3>2. adapter' = [adapter EXCEPT !.receipt = more]
      BY <3>1
    <3>3. more \subseteq Roles
      BY InvParts DEF AdapterTypes
    <3>4. more \subseteq adapter.receipt \cup owner'.removed /\ adapter.receipt \subseteq more
      BY <1>3, <3>1
    <3> HIDE DEF more
    <3>5. /\ adapter' = [f \in {"owned", "bound", "reobserved", "released", "receipt", "cgroup",
                                "stopped"} |-> adapter'[f]]
          /\ adapter'.bound = adapter.bound /\ adapter'.cgroup = adapter.cgroup
          /\ adapter'.receipt = more /\ adapter'.stopped = adapter.stopped
      BY <3>2, InvParts DEF AdapterTypes
    <3> QED
      BY <1>2, <3>3, <3>4, <3>5, InvParts DEF AdapterTypes, Live
  <2> QED
    BY <1>2, <2>1, <2>2
<1>7. Calm
  <2>1. adapter'.cgroup \subseteq adapter'.receipt
    BY <1>6, InvParts DEF AdapterFits
  <2> QED
    BY <1>5, <1>6, <2>1, MakesCalm
<1>8. core.cgroup \subseteq adapter'.cgroup
  BY <1>6, InvParts DEF CoreFits
<1>9. PICK op \in Cleaning, r \in {"egress", "worker", "verifier", "all"} : Current = Step(op, r)
  BY <1>2, HungInCleaning
<1>10. Hangs
  <2>1. /\ CoreShape(forced) /\ forced.hung = TRUE /\ forced.phase = core.phase
        /\ forced.result = core.result /\ forced.started = core.started
        /\ forced.cgroup = core.cgroup /\ forced.baseline = core.baseline
        /\ forced.latest = core.latest /\ forced.thrown = core.thrown
        /\ forced.sticky = core.sticky /\ forced.stopped = core.stopped
    <3>1. core.hung = TRUE
      BY <1>2, InvParts DEF CoreTypes
    <3> QED
      BY <3>1, InvParts DEF CoreShape, CoreFields
  <2> HIDE DEF forced
  <2>2. core.sticky \in BOOLEAN
    BY InvParts DEF CoreTypes
  <2>3. CASE core' = forced
    BY <1>2, <2>1, <2>2, <2>3 DEF Hangs
  <2>4. CASE core' = [forced EXCEPT !.sticky = TRUE]
    <3>1. /\ CoreShape(core') /\ core'.hung = forced.hung /\ core'.phase = forced.phase
          /\ core'.result = forced.result /\ core'.started = forced.started
          /\ core'.cgroup = forced.cgroup /\ core'.baseline = forced.baseline
          /\ core'.latest = forced.latest /\ core'.thrown = forced.thrown
          /\ core'.sticky = TRUE /\ core'.stopped = forced.stopped
      BY <2>1, <2>4 DEF CoreShape, CoreFields
    <3> QED
      BY <1>2, <2>1, <3>1 DEF Hangs
  <2> QED
    BY <1>2, <2>3, <2>4
<1> QED
  BY <1>2, <1>7, <1>8, <1>9, <1>10, HungInCleaning, HangKeepsInv

LEMMA SettleKeepsInv ==
  ASSUME LifecycleInv, SettleAfterForce
  PROVE  LifecycleInv'
<1> DEFINE c == [core EXCEPT !.hung = FALSE]
<1>1. /\ core.hung /\ Sticks(c)
      /\ UNCHANGED <<dockerVars, barrierVars, helperVars, adapter>>
  BY DEF SettleAfterForce
<1>2. /\ CoreShape(c) /\ c.phase = core.phase /\ c.result = core.result
      /\ c.started = core.started /\ c.cgroup = core.cgroup
      /\ c.baseline = core.baseline /\ c.latest = core.latest
      /\ c.thrown = core.thrown /\ c.sticky = core.sticky /\ c.stopped = core.stopped
      /\ c.hung = FALSE
  BY InvParts DEF CoreShape, CoreFields
<1> HIDE DEF c
<1>3. Calm /\ core.cgroup \subseteq adapter'.cgroup
  BY <1>1, OnlyCoreIsCalm
<1>4. Claims(c)
  BY <1>2, <1>3, InvParts DEF Claims, CoreTypes
<1>5. PICK op \in Cleaning, r \in {"egress", "worker", "verifier", "all"} : Current = Step(op, r)
  BY <1>1, HungInCleaning
<1>6. core.phase # "done"
  BY <1>1, HungInCleaning
<1> QED
  BY <1>1, <1>2, <1>3, <1>4, <1>5, <1>6, SticksKeepsInv

\* The run is over.
LEMMA EndKeepsInv ==
  ASSUME LifecycleInv, UNCHANGED <<dockerVars, barrierVars, helperVars, adapter>>,
         core.phase # "done", NEW result \in {"COMPLETED", "FAILED", "FATAL"},
         \/ core' = [core EXCEPT !.phase = "done", !.result = result] /\ ~core.hung
         \/ core' = [core EXCEPT !.hung = FALSE, !.phase = "done", !.result = result],
         todo' = <<>>,
         result = "COMPLETED" \/ (result = "FAILED" /\ ~core.sticky) => core.stopped,
         result = "COMPLETED" =>
           /\ CumulativeCpu(core.latest) <= Budget
           /\ \A r \in Roles : Final(r) /\ core.baseline[r] = helper.baseline[r]
  PROVE  LifecycleInv'
<1>1. /\ CoreShape(core') /\ core'.phase = "done" /\ core'.result = result
      /\ core'.started = core.started /\ core'.cgroup = core.cgroup
      /\ core'.baseline = core.baseline /\ core'.latest = core.latest
      /\ core'.thrown = core.thrown /\ core'.sticky = core.sticky
      /\ core'.stopped = core.stopped /\ ~core'.hung /\ core'.hung \in BOOLEAN
  BY InvParts DEF CoreShape, CoreFields, CoreTypes
<1>2. /\ box' = box /\ owner' = owner /\ frames' = frames /\ helper' = helper /\ cpu' = cpu
      /\ adapter' = adapter
  BY DEF dockerVars, barrierVars, helperVars
<1>3. Calm
  BY OnlyCoreIsCalm
<1>4. CoreFits'
  <2>1. CoreTypes'
    BY <1>1, InvParts DEF CoreTypes
  <2>2. core'.stopped => StoppedWell'
    BY <1>1, <1>3, InvParts DEF CoreFits, Calm
  <2>3. \A r \in Roles : r \in frames'.release => Accounted(r)'
    <3>1. \A r \in Roles : Accounted(r) => Accounted(r)'
      BY <1>1, <1>2 DEF Accounted
    <3> QED
      BY <1>2, <3>1, InvParts DEF CoreFits
  <2>4. core'.result = "COMPLETED" =>
          /\ (CumulativeCpu(core.latest) <= Budget)'
          /\ \A r \in Roles : Final(r)' /\ core'.baseline[r] = helper'.baseline[r]
    BY <1>1, <1>2 DEF Final, CumulativeCpu
  <2>5. Clean' <=> Clean
    BY <1>2 DEF Clean
  <2>6. /\ core'.result # "none" <=> core'.phase = "done"
        /\ core'.result = "COMPLETED" \/ (core'.result = "FAILED" /\ ~core'.sticky) => core'.stopped
    BY <1>1
  <2> QED
    BY <1>1, <1>2, <2>1, <2>2, <2>3, <2>4, <2>5, <2>6, InvParts DEF CoreFits
<1>5. PositionFits'
  BY <1>1 DEF PositionFits
<1> QED
  BY <1>3, <1>4, <1>5 DEF LifecycleInv, Calm, Subsides

LEMMA UnsettledKeepsInv ==
  ASSUME LifecycleInv, Unsettled
  PROVE  LifecycleInv'
<1>1. /\ core.hung /\ todo' = <<>>
      /\ core' = [core EXCEPT !.hung = FALSE, !.phase = "done", !.result = "FATAL"]
      /\ UNCHANGED <<dockerVars, barrierVars, helperVars, adapter>>
  BY DEF Unsettled
<1>2. core.phase # "done"
  BY <1>1, HungInCleaning
<1> QED
  BY <1>1, <1>2, EndKeepsInv

LEMMA ReturnKeepsInv ==
  ASSUME LifecycleInv, Return
  PROVE  LifecycleInv'
<1> DEFINE result == IF core.phase = "running" THEN "COMPLETED" ELSE "FAILED"
<1>1. /\ At("return", "all") /\ UNCHANGED <<dockerVars, barrierVars, helperVars, adapter>>
      /\ IF core.phase = "running" /\ (core.sticky \/ ~core.stopped)
           THEN Raise(core, "LIFECYCLE_OPERATION_FAILED")
           ELSE core' = [core EXCEPT !.phase = "done", !.result = result] /\ todo' = <<>>
  BY DEF Return
<1>2. /\ Current = Step("return", "all") /\ ~core.hung
      /\ core.phase \in {"running", "terminal"}
  BY <1>1, OperationRuns
<1>3. CASE core.phase = "running" /\ (core.sticky \/ ~core.stopped)
  BY <1>1, <1>2, <1>3, RunIsOutlived, ExecutionFails, InvParts
<1>4. CASE core.phase = "running" /\ ~core.sticky /\ core.stopped
  <2>1. PICK p \in 1..39 : Reached(p) /\ SuccessProgram[p] = Step("return", "all")
    BY <1>2, <1>4, InvParts, SuccessPosition
  <2>2. p = 39
    <3>1. "worker" \in Roles
      BY RoleNames
    <3> QED
      BY <2>1, <3>1, SuccessPositions
  <2>3. /\ CumulativeCpu(core.latest) <= Budget
        /\ \A r \in Roles : Final(r) /\ core.baseline[r] = helper.baseline[r]
    BY <1>4, <2>1, <2>2, Places DEF Reached, DoneBy
  <2>4. result = "COMPLETED"
    BY <1>4
  <2> QED
    BY <1>1, <1>2, <1>4, <2>3, <2>4, EndKeepsInv
<1>5. CASE core.phase = "terminal"
  <2>1. PICK p \in 1..17 : /\ p = 17 => core.stopped \/ core.sticky
                           /\ TerminalProgram[p] = Step("return", "all")
    BY <1>2, <1>5, InvParts, TerminalPosition
  <2>2. p = 17
    <3>1. TerminalProgram[p].op = "return"
      BY <2>1 DEF Step
    <3> QED
      BY <3>1, TerminalSteps DEF Step
  <2>3. core.stopped \/ core.sticky
    BY <2>1, <2>2
  <2>4. result = "FAILED"
    BY <1>5
  <2> QED
    BY <1>1, <1>2, <1>5, <2>3, <2>4, EndKeepsInv
<1> QED
  BY <1>2, <1>3, <1>4, <1>5, InvParts DEF CoreTypes

-----------------------------------------------------------------------------
(* The containers, and the specification.                                  *)

\* What happens while the core does nothing: a container runs or a late creation arrives.
LEMMA OutsideKeepsInv ==
  ASSUME LifecycleInv, OwnerFits', BarrierFits', owner' = owner,
         frames'.release = frames.release, barrier' = barrier, helper' = helper,
         adapter' = adapter, core' = core, todo' = todo, cpu' \in [Roles -> Nat],
         core.phase = "running" \/ core.result = "COMPLETED" => \A r \in Roles : Final(r) => Final(r)',
         \A r \in Roles : box'[r] = "executing" => r \in frames.release,
         \A r \in core.started : box'[r] # "created",
         ~Clean' => ~Clean,
         core.phase = "running" => ~OpenAt(1)
  PROVE  LifecycleInv'
<1>1. HelperFits' /\ AdapterFits'
  BY InvParts DEF HelperFits, HelperTypes, AdapterFits, AdapterTypes
<1>2. CoreFits'
  <2>1. CoreTypes'
    BY InvParts DEF CoreTypes
  <2>2. core'.stopped => StoppedWell'
    BY InvParts DEF CoreFits, StoppedWell, BoundRoles
  <2>3. \A r \in Roles : r \in frames'.release => Accounted(r)'
    BY InvParts DEF CoreFits, Accounted
  <2>4. core'.result = "COMPLETED" =>
          /\ (CumulativeCpu(core.latest) <= Budget)'
          /\ \A r \in Roles : Final(r)' /\ core'.baseline[r] = helper'.baseline[r]
    <3>1. ASSUME core.result = "COMPLETED" PROVE \A r \in Roles : Final(r)'
      BY <3>1, InvParts DEF CoreFits
    <3> QED
      BY <3>1, InvParts DEF CoreFits, CumulativeCpu
  <2>5. \A r \in core'.started : box'[r] # "created" /\ owner'.created
    BY InvParts DEF CoreFits
  <2> QED
    BY <2>1, <2>2, <2>3, <2>4, <2>5, InvParts DEF CoreFits
<1>3. PositionFits'
  <2>1. ASSUME core.phase = "running" PROVE InSuccess'
    <3>1. PICK p \in 1..39 : SamplesThenRest(todo, p) /\ Reached(p)
      BY <2>1, InvParts DEF PositionFits, InSuccess
    <3>2. p # 1
      BY <2>1, <3>1 DEF Reached
    <3>3. ASSUME NEW r \in Roles, Final(r) PROVE Final(r)'
      BY <2>1, <3>3
    <3>4. DoneBy(p)'
      <4>1. (CumulativeCpu(core.latest) <= Budget)' <=> CumulativeCpu(core.latest) <= Budget
        BY DEF CumulativeCpu
      <4> QED
        BY <3>1, <3>3, <4>1 DEF Reached, DoneBy
    <3>5. OpenAt(p)'
      BY <3>1, <3>2 DEF Reached, OpenAt
    <3> QED
      BY <3>1, <3>4, <3>5 DEF InSuccess, Reached
  <2> QED
    BY <2>1, InvParts DEF PositionFits, InTerminal
<1> QED
  BY <1>1, <1>2, <1>3 DEF LifecycleInv

LEMMA RoleStepKeepsInv ==
  ASSUME LifecycleInv, NEW r \in Roles,
         RoleReportsHeld(r) \/ RoleExecutes(r) \/ RoleExits(r) \/ RoleFails(r),
         UNCHANGED <<helperVars, adapter, core, todo>>
  PROVE  LifecycleInv'
<1>1. /\ OwnerFits' /\ BarrierFits' /\ owner' = owner /\ late' = late
      /\ box[r] \in RunningStates /\ box'[r] \in RunningStates \cup {"exited", "failed"}
      /\ \A x \in Resources : x # r => box'[x] = box[x]
      /\ box'[r] = "executing" => r \in frames.release
      /\ frames'.release = frames.release /\ barrier' = barrier
  BY InvParts, ContainerFits
<1>2. /\ helper' = helper /\ cpu' = cpu /\ adapter' = adapter /\ core' = core /\ todo' = todo
      /\ cpu' \in [Roles -> Nat]
  BY InvParts DEF helperVars, HelperTypes
<1>3. \A q \in Roles : q # r => box'[q] = box[q]
  BY <1>1 DEF Resources
<1>4. \A q \in Roles : Final(q) => Final(q)'
  BY <1>1, <1>2, <1>3 DEF Final
<1>5. \A q \in Roles : box'[q] = "executing" => q \in frames.release
  BY <1>1, <1>3, InvParts DEF CoreFits
<1>6. \A q \in core.started : box'[q] # "created"
  <2>1. \A q \in core.started : q \in Roles /\ box[q] # "created"
    BY InvParts DEF CoreFits, CoreTypes
  <2> QED
    BY <1>1, <1>3, <2>1 DEF RunningStates
<1>7. ~Clean' => ~Clean
  BY <1>1, <1>3, RoleNames DEF Clean, RunningStates
<1>8. ~OpenAt(1)
  BY <1>1 DEF OpenAt, RunningStates, Resources
<1> QED
  BY <1>1, <1>2, <1>4, <1>5, <1>6, <1>7, <1>8, OutsideKeepsInv

LEMMA CpuKeepsInv ==
  ASSUME LifecycleInv, NEW r \in Roles, RoleUsesCpu(r),
         UNCHANGED <<dockerVars, barrierVars, adapter, core, todo>>
  PROVE  LifecycleInv'
<1>1. /\ box' = box /\ owner' = owner /\ late' = late /\ frames' = frames /\ barrier' = barrier
      /\ adapter' = adapter /\ core' = core /\ todo' = todo
  BY DEF dockerVars, barrierVars
<1>2. box[r] \in RunningStates /\ helper' = helper /\ cpu' = [cpu EXCEPT ![r] = cpu[r] + 1]
  BY DEF RoleUsesCpu, RunningStates
<1>3. cpu' \in [Roles -> Nat] /\ \A q \in Roles : q # r => cpu'[q] = cpu[q]
  BY <1>2, InvParts DEF HelperTypes
<1>4. OwnerFits' /\ BarrierFits'
  BY <1>1, InvParts DEF OwnerFits, OwnerTypes, BarrierFits
<1>5. \A q \in Roles : Final(q) => Final(q)'
  BY <1>1, <1>2, <1>3 DEF Final
<1>6. /\ \A q \in Roles : box'[q] = "executing" => q \in frames.release
      /\ \A q \in core.started : box'[q] # "created"
  BY <1>1, InvParts DEF CoreFits
<1>7. ~Clean' => ~Clean
  BY <1>1 DEF Clean
<1>8. ~OpenAt(1)
  BY <1>2 DEF OpenAt, RunningStates, Resources
<1> QED
  BY <1>1, <1>2, <1>3, <1>4, <1>5, <1>6, <1>7, <1>8, OutsideKeepsInv

LEMMA DaemonKeepsInv ==
  ASSUME LifecycleInv, NEW x \in Resources, DaemonCreates(x),
         UNCHANGED <<barrierVars, helperVars, adapter, core, todo>>
  PROVE  LifecycleInv'
<1>1. /\ OwnerFits' /\ owner' = owner /\ ~owner.created /\ x \notin owner.removed
      /\ \A y \in Resources : y # x => box'[y] = box[y]
      /\ box'[x] = "created" /\ box[x] = "absent" /\ x \in late
  BY InvParts, DaemonFits DEF DaemonCreates
<1>2. /\ frames' = frames /\ barrier' = barrier /\ helper' = helper /\ cpu' = cpu
      /\ adapter' = adapter /\ core' = core /\ todo' = todo
      /\ cpu' \in [Roles -> Nat]
  BY InvParts DEF barrierVars, helperVars, HelperTypes
<1>3. BarrierFits'
  BY <1>2, InvParts DEF BarrierFits
<1>4. ~OpenAt(1)
  BY <1>1 DEF OpenAt
<1>5. core.phase # "running"
  <2> SUFFICES ASSUME core.phase = "running" PROVE FALSE
    OBVIOUS
  <2>1. PICK p \in 1..39 : Reached(p)
    BY InvParts DEF PositionFits, InSuccess
  <2>2. p = 1
    BY <1>1, <2>1 DEF Reached, DoneBy
  <2> QED
    BY <1>4, <2>1, <2>2 DEF Reached
<1>6. core.result # "COMPLETED"
  BY <1>1, InvParts DEF CoreFits, StoppedWell
<1>7. \A r \in core.started : FALSE
  BY <1>1, InvParts DEF CoreFits
<1>8. \A r \in Roles : box'[r] = box[r] \/ (box[r] = "absent" /\ box'[r] = "created")
  BY <1>1 DEF Resources
<1>9. \A r \in Roles : box'[r] = "executing" => r \in frames.release
  BY <1>8, InvParts DEF CoreFits
<1>10. ~Clean' => ~Clean
  BY <1>8, RoleNames DEF Clean
<1> QED
  BY <1>1, <1>2, <1>3, <1>4, <1>5, <1>6, <1>7, <1>9, <1>10, OutsideKeepsInv

LEMMA InitFits ==
  ASSUME Init
  PROVE  LifecycleInv
<1>1. /\ box = [x \in Resources |-> "absent"] /\ late = {}
      /\ owner = [known |-> {}, unresolved |-> {}, removed |-> {}, created |-> FALSE]
      /\ frames = [held |-> {}, release |-> {}]
      /\ barrier = [status |-> [r \in Roles |-> "PREPARED"], destroyed |-> FALSE]
      /\ cpu = [r \in Roles |-> 0]
      /\ helper = [session |-> "open", status |-> [r \in Roles |-> "NONE"],
                   baseline |-> [r \in Roles |-> 0]]
      /\ adapter = [owned |-> {}, bound |-> {}, reobserved |-> {}, released |-> {}, receipt |-> {},
                    cgroup |-> {}, stopped |-> FALSE]
      /\ todo = SuccessProgram
  BY DEF Init, OwnerInit, BarrierInit, HelperInit
<1>2. /\ CoreShape(core) /\ core.phase = "running" /\ core.result = "none"
      /\ core.started = {} /\ core.cgroup = {} /\ core.stopped = FALSE /\ core.sticky = FALSE
      /\ core.thrown = FALSE /\ core.hung = FALSE
      /\ core.baseline = [r \in Roles |-> None] /\ core.latest = [r \in Roles |-> None]
  BY DEF Init, CoreShape, CoreFields
<1>3. OwnerFits
  BY <1>1 DEF OwnerFits, OwnerTypes, BoxStates
<1>4. BarrierFits
  BY <1>1 DEF BarrierFits
<1>5. HelperFits
  BY <1>1 DEF HelperFits, HelperTypes, RoleStatus
<1>6. AdapterFits
  BY <1>1 DEF AdapterFits, AdapterTypes
<1>7. \A r \in Roles : box[r] = "absent"
  BY <1>1 DEF Resources
<1>8. CoreFits
  <2>1. CoreTypes
    <3>1. None \in Int
      BY DEF None
    <3>2. core.baseline \in [Roles -> Int] /\ core.latest \in [Roles -> Int]
      BY <1>2, <3>1
    <3>3. {} \subseteq Roles /\ FALSE \in BOOLEAN
      OBVIOUS
    <3> QED
      BY <1>2, <3>2, <3>3 DEF CoreTypes
  <2>2. Clean
    BY <1>7, RoleNames DEF Clean
  <2> QED
    BY <1>1, <1>2, <1>7, <2>1, <2>2 DEF CoreFits
<1>9. PositionFits
  <2>1. RestOf(todo, SuccessProgram, 1)
    BY <1>1, ProgramsAreSequences, SuccessSteps DEF RestOf
  <2>2. DoneBy(1)
    BY Places DEF DoneBy
  <2>3. OpenAt(1)
    BY <1>1, <1>2 DEF OpenAt
  <2>4. SamplesThenRest(todo, 1)
    BY <2>1, NoSampleBefore
  <2> QED
    BY <1>1, <1>2, <2>2, <2>3, <2>4, ProgramsAreSequences DEF PositionFits, InSuccess, Reached
<1> QED
  BY <1>3, <1>4, <1>5, <1>6, <1>8, <1>9 DEF LifecycleInv

LEMMA CoreStepKeepsInv ==
  ASSUME LifecycleInv, CoreStep
  PROVE  LifecycleInv'
<1>1. ASSUME NEW r \in Roles,
             \/ StartRoleHeld(r) \/ WaitRoleBarrierHeld(r) \/ BindRoleIdentityAndCgroup(r)
             \/ ReadRoleBaseline(r) \/ ReleaseRoleBarrier(r)
             \/ ObserveUntilRoleExit(r) \/ SampleRole(r) \/ ExecutionObserved(r)
      PROVE  LifecycleInv'
  BY <1>1, StartKeepsInv, WaitKeepsInv, BindKeepsInv, BaselineKeepsInv, ReleaseKeepsInv,
     ObserveKeepsInv, SampleKeepsInv, ObservedKeepsInv
<1>2. ASSUME NEW r \in Roles,
             \/ StopOrContainRole(r) \/ ReadQuiescentSample(r) \/ ReleaseRoleDocker(r)
             \/ ReleaseRoleCgroup(r) \/ FinishRoleCleanup(r)
      PROVE  LifecycleInv'
  BY <1>2, StopOrContainKeepsInv, QuiescentKeepsInv, DockerKeepsInv, CgroupKeepsInv, FinishKeepsInv
<1> QED
  BY <1>1, <1>2, CreationKeepsInv, RequirementKeepsInv, StopControllerKeepsInv, ForceKeepsInv,
     SettleKeepsInv, UnsettledKeepsInv, AbortedKeepsInv, ReturnKeepsInv DEF CoreStep

LEMMA UnchangedKeepsInv ==
  ASSUME LifecycleInv, UNCHANGED <<dockerVars, barrierVars, helperVars, adapter, core, todo>>
  PROVE  LifecycleInv'
<1>1. /\ box' = box /\ late' = late /\ owner' = owner /\ frames' = frames /\ barrier' = barrier
      /\ cpu' = cpu /\ helper' = helper /\ adapter' = adapter /\ core' = core /\ todo' = todo
  BY DEF dockerVars, barrierVars, helperVars
<1>2. OwnerFits' /\ BarrierFits'
  BY <1>1, InvParts DEF OwnerFits, OwnerTypes, BarrierFits
<1>3. HelperFits' /\ AdapterFits'
  BY <1>1, InvParts DEF HelperFits, HelperTypes, AdapterFits, AdapterTypes
<1>4. CoreFits'
  BY <1>1, InvParts
     DEF CoreFits, CoreTypes, Accounted, StoppedWell, BoundRoles, Clean, Final, CumulativeCpu
<1>5. PositionFits'
  <2>1. ASSUME NEW p \in 1..39, Reached(p)
        PROVE  Reached(p)'
    <3>1. DoneBy(p)'
      BY <1>1, <2>1 DEF Reached, DoneBy, Final, CumulativeCpu
    <3>2. OpenAt(p)'
      BY <1>1, <2>1 DEF Reached, OpenAt
    <3> QED
      BY <3>1, <3>2 DEF Reached
  <2>2. InSuccess => InSuccess'
    BY <1>1, <2>1 DEF InSuccess
  <2>3. InTerminal => InTerminal'
    BY <1>1 DEF InTerminal
  <2> QED
    BY <1>1, <2>2, <2>3, InvParts DEF PositionFits
<1> QED
  BY <1>2, <1>3, <1>4, <1>5 DEF LifecycleInv

LEMMA StepKeepsInv ==
  ASSUME LifecycleInv, [Next]_vars
  PROVE  LifecycleInv'
<1>1. CASE CoreStep
  BY <1>1, CoreStepKeepsInv
<1>2. CASE Containers
  BY <1>2, RoleStepKeepsInv, CpuKeepsInv, DaemonKeepsInv DEF Containers, coreVars
<1>3. CASE Abort \/ UNCHANGED vars
  BY <1>3, UnchangedKeepsInv DEF Abort, vars, coreVars
<1> QED
  BY <1>1, <1>2, <1>3 DEF Next, Done

\* In every reachable state the owner, the barrier, the helper, the adapter and the core hold of
\* each other what the position of the core in its program says has been done.
THEOREM DedicatedInvariant == Spec => []LifecycleInv
<1>1. Init => LifecycleInv
  BY InitFits
<1>2. LifecycleInv /\ [Next]_vars => LifecycleInv'
  BY StepKeepsInv
<1> QED
  BY <1>1, <1>2, PTL DEF Spec

-----------------------------------------------------------------------------
(* What follows.                                                           *)

\* What the owner removed is gone, and nothing of it can still arrive.
LEMMA RemovedIsGone ==
  ASSUME OwnerFits, NEW x \in owner.removed
  PROVE  box[x] = "absent" /\ x \notin late
BY DEF OwnerFits

LEMMA AllRemovedIsGone ==
  ASSUME OwnerFits, Resources \subseteq owner.removed
  PROVE  late = {} /\ \A x \in Resources : box[x] = "absent"
BY RemovedIsGone DEF OwnerFits, OwnerTypes

\* The helper lets go of the cgroup of a role, and is terminated by force, only when the daemon
\* holds no container of it and cannot create one any more.
THEOREM HelperLetsGoLast == Spec => []ReleasedOnlyWhenAbsent
<1>1. LifecycleInv => ReleasedOnlyWhenAbsent
  <2> SUFFICES ASSUME LifecycleInv PROVE ReleasedOnlyWhenAbsent
    OBVIOUS
  <2>1. ASSUME NEW r \in Roles, helper.status[r] = "RELEASED"
        PROVE  box[r] = "absent" /\ r \notin late
    BY <2>1, InvParts, RemovedIsGone DEF HelperFits
  <2>2. ASSUME helper.session = "terminated"
        PROVE  late = {} /\ \A x \in Resources : box[x] = "absent"
    BY <2>2, InvParts, AllRemovedIsGone DEF HelperFits
  <2> QED
    BY <2>1, <2>2 DEF ReleasedOnlyWhenAbsent
<1> QED
  BY <1>1, DedicatedInvariant, PTL

\* While the verifier runs, the worker and the egress proxy are gone and their cgroups released.
THEOREM VerifierRunsLast == Spec => []VerifierAlone
<1>1. LifecycleInv => VerifierAlone
  <2> SUFFICES ASSUME LifecycleInv, Running("verifier"), NEW r \in {"worker", "egress"}
               PROVE  box[r] = "absent" /\ helper.status[r] = "RELEASED"
    BY DEF VerifierAlone
  <2>1. ~Clean
    BY DEF Running, RunningStates, Clean
  <2>2. helper.status[r] = "RELEASED" /\ r \in Roles
    BY <2>1, InvParts, RoleNames DEF CoreFits
  <2> QED
    BY <2>2, InvParts, RemovedIsGone DEF HelperFits
<1> QED
  BY <1>1, DedicatedInvariant, PTL

\* A role executes only once it is started, its cgroup is bound and not released, and its baseline
\* is what the core bills it from.
THEOREM EveryExecutionIsBilled == Spec => []AccountedExecution
<1>1. LifecycleInv => AccountedExecution
  <2> SUFFICES ASSUME LifecycleInv, NEW r \in Roles, box[r] = "executing"
               PROVE  /\ r \in core.started /\ helper.status[r] \notin {"NONE", "RELEASED"}
                      /\ core.baseline[r] = helper.baseline[r]
    BY DEF AccountedExecution
  <2>1. r \in core.started /\ r \in adapter.bound /\ core.baseline[r] = helper.baseline[r]
    BY InvParts DEF CoreFits, Accounted
  <2>2. helper.status[r] # "NONE"
    BY <2>1, InvParts DEF AdapterFits
  <2>3. helper.status[r] # "RELEASED"
    BY InvParts, RemovedIsGone DEF HelperFits
  <2> QED
    BY <2>1, <2>2, <2>3
<1> QED
  BY <1>1, DedicatedInvariant, PTL

\* A completed run, and a failed one without a cleanup failure, leave nothing behind; a completed
\* run has counted all the CPU of its roles, within the budget.
THEOREM ResultsAreTrue == Spec => []ResultIsTrue
<1>1. LifecycleInv => ResultIsTrue
  <2> SUFFICES ASSUME LifecycleInv PROVE ResultIsTrue
    OBVIOUS
  <2>1. ASSUME core.result = "COMPLETED" \/ (core.result = "FAILED" /\ ~core.sticky)
        PROVE  /\ late = {} /\ \A x \in Resources : box[x] = "absent"
               /\ helper.session = "stopped" /\ BoundRoles = {} /\ barrier.destroyed
    <3>1. StoppedWell
      BY <2>1, InvParts DEF CoreFits
    <3> QED
      BY <3>1, InvParts, AllRemovedIsGone DEF StoppedWell
  <2>2. ASSUME core.result = "COMPLETED"
        PROVE  /\ CumulativeCpu(cpu) <= Budget
               /\ \A r \in Roles : core.latest[r] = cpu[r] /\ core.baseline[r] = helper.baseline[r]
    <3>1. /\ CumulativeCpu(core.latest) <= Budget
          /\ \A r \in Roles : core.latest[r] = cpu[r] /\ core.baseline[r] = helper.baseline[r]
      BY <2>2, InvParts DEF CoreFits, Final
    <3>2. CumulativeCpu(cpu) = CumulativeCpu(core.latest)
      BY <3>1, RoleNames DEF CumulativeCpu
    <3> QED
      BY <3>1, <3>2
  <2> QED
    BY <2>1, <2>2 DEF ResultIsTrue
<1> QED
  BY <1>1, DedicatedInvariant, PTL
=============================================================================
