----------------------------- MODULE PolicyStore -----------------------------
(***************************************************************************)
(* The durable policy projects of SQLitePolicyRepository,                  *)
(* src/persistence/sqlite.ts: the rows of projects with their versions and *)
(* decisions, the tombstones of retired anonymous workspaces, and every    *)
(* operation that writes them.                                             *)
(*                                                                         *)
(* Several processes share one database file.  createProject and the two   *)
(* deletions do all their reading inside one BEGIN IMMEDIATE transaction   *)
(* and are one step.  appendVersion and transitionState check a call       *)
(* against what they read before their transaction: they are two steps,    *)
(* and call[p] holds what the second one writes.                           *)
(*                                                                         *)
(* Titles, golden cases and the rules of an interpretation are left out;   *)
(* what is kept of an interpretation is the selection of each ambiguity.   *)
(* The time of a call is its caller's: any element of Time.                *)
(***************************************************************************)
EXTENDS Naturals, FiniteSets

CONSTANTS
  Process,       \* server processes that opened the same database file
  Policy,        \* project identifiers
  Reserved,      \* those of the anonymous workspaces
  Text,          \* policy source texts
  Ambiguity, Option,
  Time,
  Capacity,      \* maximumProjects of anonymous workspaces
  MaxVersion,    \* bound: versions a project can reach
  AskedMoves,    \* lifecycle moves that callers of transitionState ask for
  None

\* The ambiguities of an interpreted text, each with its selected option or,
\* while it is open, None.
Interpretation == UNION {[A -> Option \cup {None}] : A \in SUBSET Ambiguity}
Decision == [ambiguity: Ambiguity, option: Option, at: Time]

ASSUME ReservedAssumption == Reserved \subseteq Policy
ASSUME TimesAssumption == Time \subseteq Nat
ASSUME NumbersAssumption == Capacity \in Nat /\ MaxVersion \in Nat
ASSUME NotInterpretedAssumption ==
  /\ None \notin Option
  /\ None \notin Interpretation \cup Decision
       \cup [ambiguity: Ambiguity, option: Option]

VARIABLES
  projects,   \* a function on the identifiers of the stored projects
  retired,    \* identifiers with a tombstone
  call        \* the call each process is between its checks and its write of

vars == <<projects, retired, call>>

-----------------------------------------------------------------------------
(* Rows                                                                    *)

LifecycleState ==
  {"DRAFT", "INTERPRETING", "NEEDS_DECISION", "READY_TO_COMPILE", "COMPILED",
   "DRIFT_DETECTED", "REPAIRING", "VERIFYING", "VERIFIED",
   "INTERPRETATION_FAILED", "COMPILATION_FAILED", "EXECUTION_FAILED",
   "REPAIR_FAILED", "VERIFICATION_FAILED"}

CanTransition ==
  {<<"DRAFT", "INTERPRETING">>,
   <<"INTERPRETING", "NEEDS_DECISION">>, <<"INTERPRETING", "READY_TO_COMPILE">>,
   <<"INTERPRETING", "INTERPRETATION_FAILED">>,
   <<"NEEDS_DECISION", "READY_TO_COMPILE">>, <<"NEEDS_DECISION", "INTERPRETING">>,
   <<"READY_TO_COMPILE", "COMPILED">>, <<"READY_TO_COMPILE", "NEEDS_DECISION">>,
   <<"READY_TO_COMPILE", "COMPILATION_FAILED">>,
   <<"COMPILED", "DRIFT_DETECTED">>, <<"COMPILED", "VERIFYING">>,
   <<"COMPILED", "EXECUTION_FAILED">>,
   <<"DRIFT_DETECTED", "REPAIRING">>, <<"DRIFT_DETECTED", "VERIFYING">>,
   <<"REPAIRING", "VERIFYING">>, <<"REPAIRING", "REPAIR_FAILED">>,
   <<"VERIFYING", "VERIFIED">>, <<"VERIFYING", "VERIFICATION_FAILED">>,
   <<"INTERPRETATION_FAILED", "INTERPRETING">>,
   <<"COMPILATION_FAILED", "READY_TO_COMPILE">>,
   <<"EXECUTION_FAILED", "COMPILED">>,
   <<"REPAIR_FAILED", "REPAIRING">>,
   <<"VERIFICATION_FAILED", "VERIFYING">>,
   <<"VERIFICATION_FAILED", "NEEDS_DECISION">>}

\* stateForPolicyCandidate, and DRAFT for a text that was not interpreted.
FirstState(ir) ==
  IF ir = None THEN "DRAFT"
  ELSE IF \E a \in DOMAIN ir : ir[a] = None THEN "NEEDS_DECISION"
  ELSE "READY_TO_COMPILE"

\* A row of policy_versions with the row of policy_decisions that leads to it,
\* if there is one: both are inserted by one transaction and the table has at
\* most one for each version.  Its parent is the version before it.
Version == [text: Text, ir: Interpretation \cup {None},
            decision: Decision \cup {None}, state: LifecycleState, created: Time]

NewVersion(text, ir, decision, at) ==
  [text |-> text, ir |-> ir, decision |-> decision, state |-> FirstState(ir),
   created |-> at]

NoCall == [op |-> "NONE"]
Call == {NoCall}
  \cup [op: {"APPEND"}, policy: Policy, expected: Nat, version: Version]
  \cup [op: {"TRANSITION"}, policy: Policy, version: Nat,
        move: CanTransition, at: Time]

Stored == DOMAIN projects
StoredWorkspaces == Stored \cap Reserved

Project(versions) == [current: Nat, updated: Time, versions: {versions}]
ProjectOK(pr) ==
  /\ pr \in Project(pr.versions)
  /\ DOMAIN pr.versions \subseteq Nat
  /\ pr.versions \in [DOMAIN pr.versions -> Version]

\* The types of the rows and of open calls.
PolicyTypeOK ==
  /\ Stored \subseteq Policy
  /\ \A id \in Stored : ProjectOK(projects[id])
  /\ retired \subseteq Reserved
  /\ call \in [Process -> Call]

Init ==
  /\ projects = [id \in {} |-> None]
  /\ retired = {}
  /\ call = [p \in Process |-> NoCall]

-----------------------------------------------------------------------------
(* Creation and deletion                                                   *)

Idle(p) == call[p] = NoCall

CanCreateIgnoringTombstone(id) ==                                \* mutant
  /\ id \notin Stored
  /\ id \in Reserved => Cardinality(StoredWorkspaces) < Capacity
\* PROJECT_EXISTS; for a workspace also PROJECT_RETIRED and PROJECT_CAPACITY.
CanCreate(id) ==
  /\ id \notin Stored
  /\ id \in Reserved => /\ id \notin retired
                        /\ Cardinality(StoredWorkspaces) < Capacity

CreateProject(p, id, text, ir, t) ==
  /\ Idle(p)
  /\ CanCreate(id)
  /\ projects' = [x \in Stored \cup {id} |->
                    IF x = id
                      THEN [current |-> 1, updated |-> t,
                            versions |-> [v \in {1} |->
                                            NewVersion(text, ir, None, t)]]
                      ELSE projects[x]]
  /\ UNCHANGED <<retired, call>>

RemoveProject(id) == projects' = [x \in Stored \ {id} |-> projects[x]]

DeleteProject(p, id) ==
  /\ Idle(p)
  /\ id \in Stored \ Reserved
  /\ RemoveProject(id)
  /\ UNCHANGED <<retired, call>>

\* deleteAnonymousWorkspaceIfGeneration.  The generation it compares tells the
\* lives of one identifier apart, and its caller's beforeDelete may refuse:
\* either way a stored workspace is deleted or is left as it is.
DeleteAnonymousWorkspace(p, id) ==
  /\ Idle(p)
  /\ id \in StoredWorkspaces
  /\ RemoveProject(id)
  /\ retired' = retired \cup {id}
  /\ UNCHANGED call

-----------------------------------------------------------------------------
(* Appending a version                                                     *)

BeginAppendOf(p, id, version) ==
  call' = [call EXCEPT ![p] =
             [op |-> "APPEND", policy |-> id,
              expected |-> projects[id].current, version |-> version]]

Current(id) == projects[id].versions[projects[id].current]

\* The version a caller expects is the current one when appendVersion looks.
CanExtend(p, id, t) ==
  /\ Idle(p)
  /\ id \in Stored
  /\ projects[id].current < MaxVersion
  /\ Current(id).created <= t

\* Without a decision record, the same text keeps its selections.
KeepsSelections(parent, text, ir) ==
  text = parent.text /\ parent.ir # None /\ ir # None => ir = parent.ir

BeginAppend(p, id, text, ir, t) ==
  /\ CanExtend(p, id, t)
  /\ KeepsSelections(Current(id), text, ir)
  /\ BeginAppendOf(p, id, NewVersion(text, ir, None, t))
  /\ UNCHANGED <<projects, retired>>

\* validateDecisionRecord reproduces the decision from the parent it read:
\* only the selection of one ambiguity changes, and it does change.
DecisionFitsIdempotent(parent, d, t) ==                          \* mutant
  /\ parent.ir # None
  /\ d.ambiguity \in DOMAIN parent.ir
  /\ parent.created <= d.at /\ d.at <= t
DecisionFits(parent, d, t) ==
  /\ parent.ir # None
  /\ d.ambiguity \in DOMAIN parent.ir
  /\ parent.ir[d.ambiguity] # d.option
  /\ parent.created <= d.at /\ d.at <= t
Resolved(ir, d) == [ir EXCEPT ![d.ambiguity] = d.option]

BeginDecision(p, id, d, t) ==
  /\ CanExtend(p, id, t)
  /\ DecisionFits(Current(id), d, t)
  /\ BeginAppendOf(p, id, NewVersion(Current(id).text,
                                     Resolved(Current(id).ir, d), d, t))
  /\ UNCHANGED <<projects, retired>>

AppendReplyLastWins(c) ==                                        \* mutant
  IF c.policy \in Stored /\ c.expected \in DOMAIN projects[c.policy].versions
    THEN "OK" ELSE "STORAGE_FAILURE"
\* The transaction inserts the version first.  A parent or project that is gone
\* fails the foreign keys, a version that is there the primary key; the update
\* of the project then wants the version the caller expects.
AppendReply(c) ==
  IF \/ c.policy \notin Stored
     \/ c.expected \notin DOMAIN projects[c.policy].versions
     \/ c.expected + 1 \in DOMAIN projects[c.policy].versions
    THEN "STORAGE_FAILURE"
  ELSE IF projects[c.policy].current # c.expected THEN "STALE_VERSION"
  ELSE "OK"

Appended(pr, c) ==
  [current |-> c.expected + 1,
   updated |-> c.version.created,
   versions |-> [v \in DOMAIN pr.versions \cup {c.expected + 1} |->
                   IF v = c.expected + 1 THEN c.version ELSE pr.versions[v]]]

AppendVersion(p) ==
  /\ call[p].op = "APPEND"
  /\ AppendReply(call[p]) = "OK"
  /\ projects' = [projects EXCEPT ![call[p].policy] = Appended(@, call[p])]
  /\ call' = [call EXCEPT ![p] = NoCall]
  /\ UNCHANGED retired

RefuseAppend(p) ==
  /\ call[p].op = "APPEND"
  /\ AppendReply(call[p]) # "OK"
  /\ call' = [call EXCEPT ![p] = NoCall]
  /\ UNCHANGED <<projects, retired>>

-----------------------------------------------------------------------------
(* Lifecycle transitions and crashes                                       *)

BeginTransition(p, id, move, t) ==
  /\ Idle(p)
  /\ id \in Stored
  /\ move \in CanTransition
  /\ projects[id].updated <= t
  /\ call' = [call EXCEPT ![p] =
                [op |-> "TRANSITION", policy |-> id,
                 version |-> projects[id].current, move |-> move, at |-> t]]
  /\ UNCHANGED <<projects, retired>>

\* The transaction compares the state of the version, not the current version.
CanMove(c) ==
  /\ c.policy \in Stored
  /\ c.version \in DOMAIN projects[c.policy].versions
  /\ projects[c.policy].versions[c.version].state = c.move[1]

Moved(pr, c) ==
  [pr EXCEPT !.versions[c.version].state = c.move[2], !.updated = c.at]

TransitionState(p) ==
  /\ call[p].op = "TRANSITION"
  /\ projects' = IF CanMove(call[p])
                   THEN [projects EXCEPT
                           ![call[p].policy] = Moved(@, call[p])]
                   ELSE projects
  /\ call' = [call EXCEPT ![p] = NoCall]
  /\ UNCHANGED retired

\* A process dies, or restarts, or its writer lock stays busy: a call between
\* its checks and its transaction writes nothing.
Crash(p) ==
  /\ call' = [call EXCEPT ![p] = NoCall]
  /\ UNCHANGED <<projects, retired>>

Next ==
  \E p \in Process :
    \/ \E id \in Policy, text \in Text, ir \in Interpretation \cup {None},
          t \in Time :
         \/ CreateProject(p, id, text, ir, t)
         \/ BeginAppend(p, id, text, ir, t)
    \/ \E id \in Policy, d \in Decision, t \in Time : BeginDecision(p, id, d, t)
    \/ AppendVersion(p)
    \/ RefuseAppend(p)
    \/ \E id \in Policy, move \in AskedMoves, t \in Time :
         BeginTransition(p, id, move, t)
    \/ TransitionState(p)
    \/ \E id \in Policy :
         \/ DeleteProject(p, id)
         \/ DeleteAnonymousWorkspace(p, id)
    \/ Crash(p)

Spec == Init /\ [][Next]_vars

-----------------------------------------------------------------------------
(* Properties                                                              *)

\* The current version of a project is the latest of a gapless chain, although
\* appendVersion looks for it before its transaction, and in a workspace the
\* times of the chain never run backwards.
VersionsFormOneChain ==
  \A id \in Stored : LET pr == projects[id] IN
    /\ pr.current >= 1 /\ DOMAIN pr.versions = 1..pr.current
    /\ id \in Reserved =>
         \A v \in 2..pr.current :
           pr.versions[v - 1].created <= pr.versions[v].created

\* What listDecisionRecords demands of a decision on every read: it was made
\* after its parent and before its version, on the parent's text, and changed
\* the selection it names and no other.
Reproduces(parent, next) ==
  LET d == next.decision IN
  /\ parent.created <= d.at /\ d.at <= next.created
  /\ next.text = parent.text
  /\ parent.ir # None /\ next.ir # None
  /\ DOMAIN next.ir = DOMAIN parent.ir
  /\ d.ambiguity \in DOMAIN parent.ir
  /\ parent.ir[d.ambiguity] # d.option
  /\ \A a \in DOMAIN parent.ir :
       next.ir[a] = IF a = d.ambiguity THEN d.option ELSE parent.ir[a]

\* Every decision a workspace stores can be reproduced from the version before
\* it, although it was validated against a parent that was read before the
\* transaction: no append slips in between, and no workspace is created again.
\* (A plain project can be, by a deletion and a creation in between.)
DecisionsReproduce ==
  \A id \in StoredWorkspaces : LET versions == projects[id].versions IN
    \A v \in DOMAIN versions :
      versions[v].decision # None =>
        v - 1 \in DOMAIN versions /\ Reproduces(versions[v - 1], versions[v])

\* "Only the current policy version may transition state."
OnlyCurrentVersionTransitions ==
  [][\A id \in Stored : id \in DOMAIN projects' =>
       \A v \in DOMAIN projects[id].versions :
         projects'[id].versions[v].state # projects[id].versions[v].state
           => v = projects[id].current]_vars

-----------------------------------------------------------------------------
(* The store as its callers see it                                         *)

Choice(d) ==
  IF d = None THEN None ELSE [ambiguity |-> d.ambiguity, option |-> d.option]
EntryOf(v) == [text |-> v.text, ir |-> v.ir, decided |-> Choice(v.decision)]
HistoryOf(id) ==
  IF id \in Stored
    THEN [v \in 1..projects[id].current |-> EntryOf(projects[id].versions[v])]
    ELSE <<>>
StageOf(id) == IF id \in Stored THEN "LIVE"
               ELSE IF id \in retired THEN "RETIRED" ELSE "ABSENT"

History == INSTANCE PolicyHistory WITH
  Workspace <- Reserved,
  stage     <- [id \in Reserved |-> StageOf(id)],
  history   <- [id \in Reserved |-> HistoryOf(id)]

\* Each workspace is an append-only history whose selections change by recorded
\* decisions only, within capacity, and retired for good, whatever appends race
\* with each other and with expiry.
ImplementsHistory == History!HistorySpec
=============================================================================
