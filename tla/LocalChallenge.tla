----------------------------- MODULE LocalChallenge -----------------------------
(***************************************************************************)
(* The local challenge (scripts/local-challenge.mjs): under the run lock   *)
(* it recovers what an interrupted run has left, repairs a fresh           *)
(* workspace, and replaces the published evidence by that of a repair that *)
(* passed.  Any input or output may fail and the process may die between   *)
(* any two steps; removing a directory is not atomic.                      *)
(***************************************************************************)
EXTENDS ChallengeLock, RepairOrchestration

CONSTANT MaxFaults      \* bound: inputs and outputs that fail

VARIABLES final,        \* the published evidence directory
          backups,      \* directories challenge-evidence-backup-<run>
          section,      \* where each process is in runLocalChallengeLocked
          faults,       \* faults so far
          latest        \* history: the evidence validated last in its place

evidenceVars == <<final, backups, faults, latest>>
vars == <<lockVars, evidenceVars, repair, section>>

NoEvidence == [run |-> 0]
Evidence(p) == [run |-> own[p], patch |-> repair[p].patch, whole |-> TRUE]
Damaged(e) == [e EXCEPT !.whole = FALSE]
Whole(e) == e # NoEvidence /\ e.whole
\* existsSync of the backup directory of this run.
Mine(p) == {b \in backups : b.of = own[p]}

Outside == [at |-> "start", preserve |-> FALSE]
Init ==
  /\ LockInit
  /\ final = NoEvidence /\ latest = NoEvidence /\ backups = {} /\ faults = 0
  /\ repair  = [p \in Process |-> None]
  /\ section = [p \in Process |-> Outside]

In(p, at) == Holds(p) /\ section[p].at = at
Go(p, at) == section' = [section EXCEPT ![p].at = at]
\* An input or output fails and the program goes on at another place.
Fault(p, at) == faults < MaxFaults /\ faults' = faults + 1 /\ Go(p, at)
InSection == UNCHANGED lockVars
Untouched == UNCHANGED <<final, backups, latest>>

-----------------------------------------------------------------------------
(* Before the model is called                                              *)

\* The operation ends, well or not: withLocalChallengeRunLock releases.
Leave(p) ==
  /\ Holds(p) /\ Enter(p, "release")
  /\ section' = [section EXCEPT ![p] = Outside]
  /\ repair'  = [repair EXCEPT ![p] = None]
  /\ UNCHANGED <<active, tombstones, own, tries, left, desk, nonces>>

\* checkLocalChallenge reads the published evidence and writes nothing; the
\* build that a run begins with may fail.
CheckOrBuildFails(p) == In(p, "start") /\ Leave(p) /\ UNCHANGED evidenceVars

RecoveryIsUnclear ==                                              \* mutant
  Cardinality(backups) # 1 \/ \E b \in backups : ~Whole(b.evidence)
\* Only one whole backup and nothing in its place can be put back.
NeedsManualRecovery ==
  \/ final # NoEvidence
  \/ Cardinality(backups) # 1
  \/ \E b \in backups : ~Whole(b.evidence)
\* recoverInterruptedChallengeEvidence.
Recover(p) ==
  /\ In(p, "start")
  /\ IF backups = {}
       THEN Go(p, "prepare") /\ UNCHANGED <<lockVars, evidenceVars, repair>>
     ELSE IF NeedsManualRecovery
       THEN Leave(p) /\ UNCHANGED evidenceVars
     ELSE /\ \E b \in backups : final' = b.evidence
          /\ backups' = {} /\ Go(p, "prepare")
          /\ UNCHANGED <<lockVars, faults, latest, repair>>

\* Provenance, tools and inputs; then the workspace and the backend.
Prepare(p) ==
  /\ In(p, "prepare") /\ UNCHANGED evidenceVars
  /\ \/ Leave(p)
     \/ /\ Go(p, "repair") /\ InSection
        /\ repair' = [repair EXCEPT ![p] = Orchestrating]

Orchestrate(p) ==
  /\ In(p, "repair") /\ OrchestrationStep(p)
  /\ UNCHANGED <<lockVars, evidenceVars, section>>
CommandLeftovers(p) ==
  /\ In(p, "repair") /\ StrayWrite(p)
  /\ UNCHANGED <<lockVars, evidenceVars, section>>

-----------------------------------------------------------------------------
(* Promotion                                                               *)

\* A report that is not PASS, or a repository that has changed meanwhile,
\* publishes nothing.  Otherwise the evidence is written beside its place.
Conclude(p) ==
  /\ In(p, "repair") /\ InSection /\ Untouched /\ UNCHANGED <<repair, faults>>
  /\ \/ repair[p].stage \in {"failed", "passed"} /\ Go(p, "cleanup")
     \/ repair[p].stage = "passed" /\ Go(p, "setAside")

SetAside(p) ==
  /\ In(p, "setAside") /\ InSection /\ UNCHANGED <<latest, repair>>
  /\ \/ /\ Go(p, "promote") /\ UNCHANGED faults
        /\ final' = NoEvidence
        /\ backups' = backups \cup (IF final = NoEvidence THEN {}
                                    ELSE {[of |-> own[p], evidence |-> final]})
     \/ Fault(p, "cleanup") /\ UNCHANGED <<final, backups>>

Promote(p) ==
  /\ In(p, "promote") /\ InSection /\ UNCHANGED <<backups, latest, repair>>
  /\ \/ final' = Evidence(p) /\ Go(p, "validate") /\ UNCHANGED faults
     \/ Fault(p, "rollBack") /\ UNCHANGED final

Validate(p) ==
  /\ In(p, "validate") /\ InSection /\ UNCHANGED <<final, backups, repair>>
  /\ \/ Whole(final) /\ Go(p, "discard") /\ latest' = final /\ UNCHANGED faults
     \/ Fault(p, "rollBack") /\ UNCHANGED latest

\* rmSync of the backup: its files go one after another.
BeginDiscard(p) ==
  /\ In(p, "discard") /\ InSection /\ UNCHANGED <<final, latest, repair, faults>>
  /\ backups' = (backups \ Mine(p)) \cup
                  {[b EXCEPT !.evidence = Damaged(@)] : b \in Mine(p)}
  /\ Go(p, "discarding")
EndDiscard(p) ==
  /\ In(p, "discarding") /\ InSection /\ UNCHANGED <<final, latest, repair>>
  /\ \/ backups' = backups \ Mine(p) /\ Go(p, "cleanup") /\ UNCHANGED faults
     \/ /\ faults < MaxFaults /\ faults' = faults + 1 /\ UNCHANGED backups
        /\ section' = [section EXCEPT ![p] = [at |-> "cleanup",
                                              preserve |-> Mine(p) # {}]]

\* preserveEvidenceBackup, once the promotion has failed.
Preserve(p) == Mine(p) # {}

\* The catch block: the new directory is removed, the old one comes back.
RollBack(p) ==
  /\ In(p, "rollBack") /\ InSection
  /\ final' = IF final = NoEvidence THEN final ELSE Damaged(final)
  /\ section' = [section EXCEPT ![p] = [at |-> "restore",
                                        preserve |-> Preserve(p)]]
  /\ UNCHANGED <<backups, latest, repair, faults>>
Restore(p) ==
  /\ In(p, "restore") /\ InSection /\ UNCHANGED <<latest, repair>>
  /\ \/ /\ \E b \in Mine(p) : final' = b.evidence /\ backups' = backups \ {b}
        /\ section' = [section EXCEPT ![p] = [at |-> "cleanup",
                                              preserve |-> FALSE]]
        /\ UNCHANGED faults
     \/ /\ Mine(p) = {} /\ final' = NoEvidence /\ Go(p, "cleanup")
        /\ UNCHANGED <<backups, faults>>
     \/ /\ Fault(p, "cleanup") /\ final' \in {final, NoEvidence}
        /\ UNCHANGED backups

\* The finally block.  A failure before its last statement skips that one.
CleanUp(p) ==
  /\ In(p, "cleanup") /\ Leave(p) /\ UNCHANGED <<final, latest>>
  /\ \/ /\ backups' = IF section[p].preserve THEN backups ELSE backups \ Mine(p)
        /\ UNCHANGED faults
     \/ faults < MaxFaults /\ faults' = faults + 1 /\ UNCHANGED backups

-----------------------------------------------------------------------------
(* Specification                                                           *)

Dies(p) ==
  /\ Crash(p) /\ UNCHANGED evidenceVars
  /\ section' = [section EXCEPT ![p] = Outside]
  /\ repair'  = [repair EXCEPT ![p] = None]

LockMoves ==
  /\ \/ \E p \in Process : StartProcess(p) \/ LockStep(p)
     \/ \E o \in Operator : Observe(o) \/ Retire(o)
     \/ DescendantsEnd
  /\ UNCHANGED <<evidenceVars, repair, section>>

SectionStep(p) ==
  \/ CheckOrBuildFails(p) \/ Recover(p) \/ Prepare(p) \/ Orchestrate(p)
  \/ CommandLeftovers(p) \/ Conclude(p) \/ SetAside(p) \/ Promote(p)
  \/ Validate(p) \/ BeginDiscard(p) \/ EndDiscard(p) \/ RollBack(p)
  \/ Restore(p) \/ CleanUp(p)

Next == LockMoves \/ \E p \in Process : SectionStep(p) \/ Dies(p)
Spec == Init /\ [][Next]_vars

-----------------------------------------------------------------------------
(* Properties                                                              *)

\* Whoever works under the lock owns the directory "active", nobody else does
\* so, and no child of a dead run is still at work.
SectionHasOneProcess ==
  \A p \in Process : Holds(p) =>
    /\ active = Owner(p)
    /\ left = {}
    /\ \A q \in Process \ {p} : ~Holds(q)

\* The evidence that was validated last is complete in its place or in a
\* backup, whatever failed or died since; and a run that calls the model has
\* it in place.
EvidenceSurvives ==
  latest # NoEvidence =>
    /\ final = latest \/ \E b \in backups : b.evidence = latest
    /\ \A p \in Process :
         Holds(p) /\ section[p].at \in {"prepare", "repair"} => final = latest

\* A PASS report is about the workspace as it is: the source decides the whole
\* corpus as the policy does, the test is the server's, what was executed is
\* built from that source, nothing else has changed, and what was reviewed is
\* the difference that will be published.
PassIsEarned ==
  \A p \in Process : repair[p].stage = "passed" =>
    LET t == repair[p].tree IN
    /\ t["src"].is = "right" /\ t["test"].is = "seeded"
    /\ t["dist"].is = t["src"].is
    /\ t["other"] = FreshWorkspace["other"]
    /\ t["stray"] = FreshWorkspace["stray"]
    /\ repair[p].patch = Patch(t)
=============================================================================
