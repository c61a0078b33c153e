------------------------- MODULE WorkspaceRetention -------------------------
(***************************************************************************)
(* Anonymous workspaces and their repair runs, which live in two databases *)
(* that no transaction spans: the requests of app/lib/                     *)
(* policy-workspace-store.ts and of the routes under app/api/policies.     *)
(*                                                                         *)
(* A request that admits a run, or that retires a workspace, begins a      *)
(* policy transaction and calls the repair-run ledger inside it: the       *)
(* ledger commits at once, the policy transaction later or, after a crash  *)
(* or an exception, never.  Each database access is one step; request[p]   *)
(* is the policy transaction a process is inside of.  The ledger is its    *)
(* promise, RepairRunLifecycle.                                            *)
(*                                                                         *)
(* Whether a workspace is older than its 24 hours is up to the clock of    *)
(* each process: it is a free choice here, as long as it exists.           *)
(***************************************************************************)
EXTENDS RepairRunLifecycle, FiniteSets

CONSTANTS
  Workspace,    \* the identifiers of the workspaces, one for each session
  Capacity,     \* POLICYTWIN_MAX_ANONYMOUS_WORKSPACES
  MaxVersion    \* bound: versions a workspace can reach

ASSUME CapacityAssumption == Capacity \in Nat /\ MaxVersion \in Nat
ASSUME NoRowAssumption == None \notin [workspace: Workspace, version: Nat]

VARIABLES
  current,    \* the current version of a stored workspace
  retired,    \* workspaces with a tombstone
  bound,      \* what the row of a run says it is for, or None
  request     \* the policy transaction each process is inside of

retentionVars == <<lifecycleVars, current, retired, bound, request>>

Binding == [workspace: Workspace, version: Nat]

NoRequest == [step |-> "NONE"]
Request == {NoRequest}
  \cup [step: {"PRUNE", "DELETE"}, workspace: Workspace]
  \cup [step: {"ADMIT"}, for: Binding]
  \cup [step: {"START"}, for: Binding, run: RunId]

Stored == DOMAIN current
RunsOf(w) == {r \in RunId : bound[r] # None /\ bound[r].workspace = w}

RetentionTypeOK ==
  /\ LifecycleTypeOK
  /\ Stored \subseteq Workspace
  /\ current \in [Stored -> Nat]
  /\ retired \subseteq Workspace
  /\ bound \in [RunId -> Binding \cup {None}]
  /\ request \in [Process -> Request]

RetentionInit ==
  /\ LifecycleInit
  /\ current = [w \in {} |-> 0]
  /\ retired = {}
  /\ bound = [r \in RunId |-> None]
  /\ request = [p \in Process |-> NoRequest]

-----------------------------------------------------------------------------
(* Policy transactions                                                     *)

Idle(p) == request[p] = NoRequest

PolicyFileFreeForReaders == TRUE                                 \* mutant
\* BEGIN IMMEDIATE takes the one writer lock of the policy file.
PolicyFileFree == \A p \in Process : Idle(p)

Continue(p, req) == request' = [request EXCEPT ![p] = req]
End(p) == Continue(p, NoRequest)

\* ensureSeededSessionWorkspace: the first request of a session.
CreateWorkspace(p, w) ==
  /\ PolicyFileFree
  /\ w \notin Stored \cup retired
  /\ Cardinality(Stored) < Capacity
  /\ current' = [x \in Stored \cup {w} |-> IF x = w THEN 1 ELSE current[x]]
  /\ UNCHANGED <<lifecycleVars, retired, bound, request>>

\* An amended text or a decision; its own checks are those of PolicyStore.
AppendVersion(p, w) ==
  /\ PolicyFileFree
  /\ w \in Stored
  /\ current[w] < MaxVersion
  /\ current' = [current EXCEPT ![w] = @ + 1]
  /\ UNCHANGED <<lifecycleVars, retired, bound, request>>

-----------------------------------------------------------------------------
(* Retirement: deleteExpiredAnonymousWorkspace                             *)

BeginRetirement(p, w) ==
  /\ Idle(p) /\ PolicyFileFree
  /\ w \in Stored
  /\ Continue(p, [step |-> "PRUNE", workspace |-> w])
  /\ UNCHANGED <<lifecycleVars, current, retired, bound>>

RetainedUnlessPoisoned(w) == {r \in RunsOf(w) : status[r] \in Open} \* mutant
\* retainedFailStopRuns: runs that keep their workspace.
Retained(w) == {r \in RunsOf(w) : status[r] \in Closing}

\* pruneTerminalRunsForPolicy commits in the ledger; with runs retained, the
\* policy transaction then ends without a write.
PruneRuns(p) ==
  /\ request[p].step = "PRUNE"
  /\ LET w == request[p].workspace
         gone == {r \in RunsOf(w) : status[r] \in Finished}
     IN /\ Forget(gone)
        /\ bound' = [r \in RunId |-> IF r \in gone THEN None ELSE bound[r]]
        /\ IF Retained(w) = {}
             THEN Continue(p, [step |-> "DELETE", workspace |-> w])
             ELSE End(p)
  /\ UNCHANGED <<current, retired>>

DeleteWorkspace(p) ==
  /\ request[p].step = "DELETE"
  /\ LET w == request[p].workspace
     IN /\ current' = [x \in Stored \ {w} |-> current[x]]
        /\ retired' = retired \cup {w}
  /\ End(p)
  /\ UNCHANGED <<lifecycleVars, bound>>

-----------------------------------------------------------------------------
(* Admission: POST repair-runs                                             *)

\* withAnonymousWorkspaceGeneration, and the version the page was showing.
BeginAdmission(p, w) ==
  /\ Idle(p) /\ PolicyFileFree
  /\ w \in Stored
  /\ Continue(p, [step |-> "ADMIT",
                  for |-> [workspace |-> w, version |-> current[w]]])
  /\ UNCHANGED <<lifecycleVars, current, retired, bound>>

\* createOrGetRun in coordinator.start.
AdmitRun(p, r) ==
  /\ request[p].step = "ADMIT"
  /\ Admit(p, r)
  /\ bound' = [bound EXCEPT ![r] = request[p].for]
  /\ Continue(p, [step |-> "START", for |-> request[p].for, run |-> r])
  /\ UNCHANGED <<current, retired>>

\* The rest of coordinator.start: the port is ready, or it is not.
StartRun(p) ==
  /\ request[p].step = "START"
  /\ \/ Start(p, request[p].run)
     \/ Block(p, request[p].run)
  /\ End(p)
  /\ UNCHANGED <<current, retired, bound>>

\* A ledger call is refused or answers with a stored run, an exception rolls
\* the policy transaction back, or the process dies: what the ledger has
\* committed stays.
Abandon(p) ==
  /\ ~Idle(p)
  /\ End(p)
  /\ UNCHANGED <<lifecycleVars, current, retired, bound>>

-----------------------------------------------------------------------------
(* Executions, between the requests of their process; and recovery         *)

Execute(p, r) ==
  /\ Idle(p)
  /\ \/ Record(p, r) \/ AwaitCleanup(p, r)
     \/ Succeed(p, r) \/ Fail(p, r) \/ Poison(p, r)
  /\ UNCHANGED <<current, retired, bound, request>>

Recover(r) ==
  /\ Fence(r)
  /\ UNCHANGED <<current, retired, bound, request>>

RetentionNext ==
  \/ \E p \in Process :
       \/ \E w \in Workspace :
            \/ CreateWorkspace(p, w) \/ AppendVersion(p, w)
            \/ BeginRetirement(p, w) \/ BeginAdmission(p, w)
       \/ PruneRuns(p) \/ DeleteWorkspace(p)
       \/ \E r \in RunId : AdmitRun(p, r) \/ Execute(p, r)
       \/ StartRun(p) \/ Abandon(p)
  \/ \E r \in RunId : Recover(r)

RetentionSpec == RetentionInit /\ [][RetentionNext]_retentionVars

-----------------------------------------------------------------------------
(* Properties                                                              *)

\* The ledger never holds a run without its workspace, whichever of the two
\* databases a crash or an exception leaves behind: expiry neither loses an
\* open or poisoned run nor leaves finished ones that nothing can delete.
RunsHaveTheirWorkspace ==
  \A r \in RunId : status[r] # "ABSENT" =>
    /\ bound[r] # None
    /\ bound[r].workspace \in Stored
    /\ bound[r].version <= current[bound[r].workspace]

\* A run is admitted, and its worker started, only for the version that is
\* current at that moment, although other processes append versions.
RunsUseTheCurrentVersion ==
  [][\A r \in RunId :
       (status[r] # status'[r] /\ status'[r] \in {"QUEUED", "RUNNING"}) =>
          bound'[r].version = current'[bound'[r].workspace]]_retentionVars
=============================================================================
