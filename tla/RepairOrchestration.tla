-------------------------- MODULE RepairOrchestration --------------------------
(***************************************************************************)
(* One bounded repair (src/codex/orchestrate.ts) over the SDK backend      *)
(* (src/codex/sdk-adapter.ts), in a workspace that is a fresh copy of the  *)
(* seeded fixture.  The model plans, repairs and reviews in turns; the     *)
(* program snapshots the workspace around every turn, runs two commands    *)
(* and the accepted corpus, and allows one more attempt.                   *)
(*                                                                         *)
(* A workspace is what the snapshots see: for each entry its content, and  *)
(* a stamp that stands for its modification time.  Nothing outside a turn  *)
(* or a command writes to it, except between the commands and the corpus   *)
(* verification, where the program compares trees.                         *)
(***************************************************************************)
EXTENDS Naturals, FiniteSets

CONSTANT MaxRepairAttempts    \* input.maxRepairAttempts

VARIABLE repair   \* what each process has of its current orchestration

-----------------------------------------------------------------------------
(* Workspaces                                                              *)

Paths   == {"src", "test", "other", "stray", "dist"}
Planned == {"src", "test"}
Sources == {"buggy", "partial", "right", "unsafe"}
Tests   == {"skipped", "seeded", "own"}
\* What an entry may hold.  "partial" satisfies the seeded assertions but not
\* the whole corpus; "unsafe" leaves the subset the challenge executes.
Contents(p) == CASE p = "src"   -> Sources
                 [] p = "test"  -> Tests
                 [] p = "other" -> {"kept", "edited", "absent"}
                 [] p = "stray" -> {"absent", "present"}
                 [] p = "dist"  -> Sources \cup {"absent"}

Entry(c, n) == [is |-> c, stamp |-> n]
\* createRepairWorkspace: the baseline without its transient directories.
FreshWorkspace ==
  [p \in Paths |-> CASE p = "src"   -> Entry("buggy", 0)
                     [] p = "test"  -> Entry("skipped", 0)
                     [] p = "other" -> Entry("kept", 0)
                     [] OTHER       -> Entry("absent", 0)]
Written(t, p, c) == [t EXCEPT ![p] = Entry(c, @.stamp + 1)]
\* What may become of a workspace during a turn that should not write to it.
Meddled(t) ==
  {t} \cup UNION {{Written(t, p, c) : c \in Contents(p)} : p \in Paths}
\* What else a turn that may write may do.
Strayed(t) == {Written(t, "other", "edited"), Written(t, "other", "absent"),
               Written(t, "stray", "present")}

Present(t) == {p \in Paths : t[p].is # "absent"}
Added(before, after)    == Present(after) \ Present(before)
Deleted(before, after)  == Present(before) \ Present(after)
Modified(before, after) ==
  {p \in Present(before) \cap Present(after) : before[p] # after[p]}
ContentModified(before, after) ==
  {p \in Present(before) \cap Present(after) : before[p].is # after[p].is}
\* A rewrite with the same content shows as a newer modification time.
MetadataOnly(before, after) ==
  Modified(before, after) \ ContentModified(before, after)
\* assertNoSnapshotChange, and the comparison of two tree hashes.
Unchanged(before, after) == before = after
SameTree(before, after)  == before = after

-----------------------------------------------------------------------------
(* The state of one orchestration                                          *)

None == [stage |-> "none"]
Orchestrating ==
  [stage |-> "cartography", attempt |-> 1, tree |-> FreshWorkspace,
   baseline |-> FreshWorkspace, before |-> FreshWorkspace,
   events |-> {}, observed |-> [attempt |-> 0], passed |-> TRUE,
   tested |-> FreshWorkspace]

At(p, stage) == repair[p].stage = stage
Become(p, r) == repair' = [repair EXCEPT ![p] = r]
\* The report of a failure: the workspace is poisoned and will be discarded.
Fail(p, code) == Become(p, [stage |-> "failed", code |-> code])
Patch(t) == [p \in Planned |-> t[p].is]

-----------------------------------------------------------------------------
(* The turns of the model                                                  *)

\* A turn ends with an answer its parser accepts; or it is refused, for its
\* events, its thread, its limits or its time, or for what the parser finds.
Answers == {"accepted", "refused"}
\* runReadOnlyPhase: whatever the answer, the workspace must be as before.
ReadOnlyPhase(p, result, code) ==
  \E answer \in Answers, after \in Meddled(repair[p].tree) :
    IF Unchanged(repair[p].tree, after) /\ answer = "accepted"
      THEN Become(p, result)
    ELSE Fail(p, code)

\* cartograph, whose snapshot is the baseline of the rest.
Cartograph(p) ==
  /\ At(p, "cartography")
  /\ ReadOnlyPhase(p, [repair[p] EXCEPT !.stage = "execution"],
                   "CARTOGRAPHY_INVALID")

\* The first turn of repair may write files itself ...
ExecutionTurn(p) ==
  /\ At(p, "execution")
  /\ LET r == repair[p] IN
     \/ \E src \in Sources \cup {"kept"}, test \in Tests \cup {"kept"} :
          LET one   == IF src = "kept" THEN r.tree
                       ELSE Written(r.tree, "src", src)
              both  == IF test = "kept" THEN one ELSE Written(one, "test", test)
          IN \E after \in {both} \cup Strayed(both) :
             IF MetadataOnly(r.before, after) # {}
               THEN Fail(p, "REPAIR_INVALID")
             ELSE IF ContentModified(r.before, after) = {}
               THEN Become(p, [r EXCEPT !.stage = "edits", !.tree = after])
             ELSE \E reported \in {ContentModified(r.before, after), {"test"}} :
                    Become(p, [r EXCEPT !.stage = "report", !.tree = after,
                                        !.events = reported])
     \/ Fail(p, "REPAIR_INVALID")

\* ... or answer with the content of both files, which applyTypedRepairEdits
\* writes whether it is new or not.
ApplyTypedRepairEdits(p, src, test) ==
  /\ At(p, "edits")
  /\ LET r     == repair[p]
         after == Written(Written(r.tree, "src", src), "test", test)
     IN IF \/ MetadataOnly(r.before, after) # {}
           \/ ContentModified(r.before, after) = {}
          THEN Fail(p, "REPAIR_INVALID")
        ELSE Become(p, [r EXCEPT !.stage = "report", !.tree = after,
                                 !.events = Planned])
RefuseTypedRepairEdits(p) == At(p, "edits") /\ Fail(p, "REPAIR_INVALID")

\* What repair demands of the workspace it has observed, and orchestrateRepair
\* of the files it reports.
RepairIsObserved(r) ==
  LET changed == ContentModified(r.before, r.tree)
      total   == ContentModified(r.baseline, r.tree)
  IN /\ Added(r.before, r.tree) = {} /\ Deleted(r.before, r.tree) = {}
     /\ Modified(r.before, r.tree) \subseteq Planned
     /\ MetadataOnly(r.before, r.tree) = {}
     /\ changed # {} /\ r.events = changed
     /\ r.tree["test"].is = "seeded"
     /\ Added(r.baseline, r.tree) \subseteq {"dist"}
     /\ Deleted(r.baseline, r.tree) = {}
     /\ total = Planned

\* The second turn only reports.
ReportTurn(p) ==
  /\ At(p, "report")
  /\ LET r == repair[p] IN
     IF RepairIsObserved(r)
       THEN ReadOnlyPhase(p, [r EXCEPT !.stage = "fixture-typecheck",
                                !.observed = [attempt |-> r.attempt,
                                              patch   |-> Patch(r.tree)]],
                          "REPAIR_INVALID")
     ELSE Fail(p, "REPAIR_INVALID")

-----------------------------------------------------------------------------
(* Commands, corpus and review                                             *)

\* assertSafeLocalChallengeRepair: what the challenge is ready to execute.
SafeRepair(t) == t["src"].is # "unsafe" /\ t["test"].is = "seeded"

\* fixture-typecheck builds dist; when it fails it may have built or not.
Typecheck(p) ==
  /\ At(p, "fixture-typecheck")
  /\ LET r     == repair[p]
         built == Written(r.tree, "dist", r.tree["src"].is)
     IN \E after \in {r.tree, built}, ok \in BOOLEAN :
          /\ ok => after = built /\ SafeRepair(r.tree)
          /\ ~SafeRepair(r.tree) => after = r.tree
          /\ Become(p, [r EXCEPT !.stage = "fixture-test", !.tree = after,
                                 !.tested = after, !.passed = ok])

TestsPass(t) == CASE t["test"].is = "seeded" -> t["dist"].is \in {"partial", "right"}
                  [] OTHER                   -> TRUE

NextAttempt(p, code) ==
  LET r == repair[p] IN
  IF r.attempt < MaxRepairAttempts
    THEN Become(p, [r EXCEPT !.stage = "execution", !.attempt = @ + 1,
                             !.before = r.tree, !.events = {},
                             !.passed = TRUE, !.tested = r.baseline])
  ELSE Fail(p, code)

CommandsPassedByTest(r, ok) == ok                                 \* mutant
\* Both commands of the attempt must have passed.
CommandsPassed(r, ok) == r.passed /\ ok

\* fixture-test: the second command runs even when the first has failed.  The
\* tree it starts from must be the one typecheck left, and it must not change.
Test(p) ==
  /\ At(p, "fixture-test")
  /\ LET r == repair[p] IN
     \/ /\ SameTree(r.tested, r.tree)
        /\ \E ok \in {SafeRepair(r.tree) /\ TestsPass(r.tree), FALSE} :
             IF CommandsPassed(r, ok) THEN Become(p, [r EXCEPT !.stage = "corpus"])
             ELSE NextAttempt(p, "COMMAND_FAILED")
     \/ Fail(p, "COMMAND_FAILED")    \* a changed tree, or no evidence

\* verifyCorpus: the tree must be the tested one, and stay so.
VerifyCorpus(p) ==
  /\ At(p, "corpus")
  /\ LET r == repair[p] IN
     \/ /\ SafeRepair(r.tree) /\ SameTree(r.tested, r.tree)
        /\ \E after \in Meddled(r.tree) :
             IF ~SameTree(r.tree, after)
               THEN Fail(p, "POLICY_VERIFICATION_FAILED")
             ELSE IF r.tree["dist"].is = "right"
               THEN Become(p, [r EXCEPT !.stage = "review"])
             ELSE NextAttempt(p, "POLICY_VERIFICATION_FAILED")
     \/ Fail(p, "POLICY_VERIFICATION_FAILED")

\* Something a command has left running writes before the corpus is verified.
StrayWrite(p) ==
  /\ repair[p].stage \in {"fixture-test", "corpus"}
  /\ repair[p].tree = repair[p].tested
  /\ \E t \in Meddled(repair[p].tree) \ {repair[p].tree} :
       Become(p, [repair[p] EXCEPT !.tree = t])

\* review: a read-only turn over the patch that the last repair has observed.
Review(p) ==
  /\ At(p, "review")
  /\ LET r == repair[p] IN
     \/ /\ r.observed.attempt = r.attempt
        /\ ReadOnlyPhase(p, [stage |-> "passed", tree |-> r.tree,
                             patch |-> r.observed.patch], "REVIEW_INVALID")
     \/ Fail(p, "REVIEW_BLOCKED")

OrchestrationStep(p) ==
  \/ Cartograph(p) \/ ExecutionTurn(p) \/ RefuseTypedRepairEdits(p)
  \/ \E src \in Sources, test \in Tests : ApplyTypedRepairEdits(p, src, test)
  \/ ReportTurn(p) \/ Typecheck(p) \/ Test(p) \/ VerifyCorpus(p) \/ Review(p)

=============================================================================
