-------------------------- MODULE EvidencePublisher --------------------------
(* The packages that are published.  The partial one is what               *)
(* scripts/generate-offline-evidence.mjs computes.  The repository checks  *)
(* live packages but has no program that makes them: here is one as its    *)
(* checks describe it, and the ways it may be wrong in one place while     *)
(* every hash and the attestation are computed from what it holds.         *)
EXTENDS LiveEvidence

(* When the live packages are attested, and the partial one is generated.  *)
IssuedAt == 0
GeneratedAt == 0

Report(adapterId, executionMode, basis, records) ==
    [adapterId |-> adapterId, executionMode |-> executionMode, evidenceBasis |-> basis,
     records |-> records, clusters |-> DefectClusters(records), total |-> Len(records),
     matches |-> StatusCount(records, "MATCH"), drifts |-> StatusCount(records, "DRIFT"),
     errors |-> StatusCount(records, "ERROR")]

(* The files both kinds of packages have from a policy and its cases.      *)
PolicyArtifactsOf(policy, cases) ==
    LET compiled == The(CompilePolicy(policy))
        suite == The(OfflineMutationSuite(policy, cases))
        before == Report("fixture-baseline", "REFERENCE_EXPECTATION_NOT_OPA", None,
                         The(Differential(policy, cases, AnswersOf(BaselineDecide, cases))))
    IN [policyIr |-> policy, compiledPolicy |-> Program(compiled),
        compilerManifest |-> compiled.mappings,
        goldenCases |-> SelectSeq(cases, LAMBDA c : c.source = "USER_GOLDEN"),
        generatedCases |-> SelectSeq(cases, LAMBDA c : c.source # "USER_GOLDEN"),
        opaResults |->
            [status |-> "PASS", executionMode |-> "OPA_CLI", executable |-> Executable("linux"),
             policyHash |-> Hash(Program(compiled)), policyVersion |-> policy.version,
             results |-> The(RunOpaCases(compiled, cases)),
             agreement |-> [passed |-> Len(cases), total |-> Len(cases)]],
        appBefore |-> before, driftBefore |-> before,
        mutationReport |-> [suite |-> suite, executionMode |-> "REFERENCE_EVALUATOR_NOT_OPA"],
        traceability |-> The(Traceability(policy, cases, CodeMappings)),
        promptManifest |-> [f \in Prompts |-> Hash(f)],
        impactReport |->
            The(UNION {PolicyImpact(policy, next, cases, Ids(GoldenCases), CodeMappings)
                       : next \in DaysThresholdVersion(policy, 30)})]

(* The hash is computed over the files with an empty one, then written.    *)
HashOf(files) == EvidencePackageHash(files, PayloadFiles)
Seal(files, attestation) ==
    LET sealed == [f \in PayloadFiles |->
            IF f \in SummaryFiles THEN [files[f] EXCEPT !.evidenceHash = HashOf(files)]
            ELSE files[f]]
    IN sealed @@
       [manifest |->
            [packageStatus |-> files.verification.status,
             evidenceMode |-> files.verification.evidenceMode, evidenceHash |-> HashOf(files),
             attestation |-> attestation,
             entries |-> [f \in PayloadFiles |-> [sha256 |-> Hash(sealed[f]), included |-> TRUE]]]]

-----------------------------------------------------------------------------
(* The partial package.                                                    *)

NotRunSummary == [status |-> "NOT_RUN", runId |-> None]

OfflineRunFiles ==
    [gptRun |-> NotRunSummary, browserRun |-> NotRunSummary, browserDetails |-> NotRunSummary,
     containerRun |-> NotRunSummary, containerDetails |-> NotRunSummary,
     deploymentRun |-> NotRunSummary, deploymentHealth |-> NotRunSummary,
     securityReport |-> NotRunSummary, securityReview |-> NotRunSummary,
     commandLog |-> [status |-> "NOT_RUN_IN_ARTIFACT_GENERATION", runId |-> None,
                     commands |-> << >>],
     codexRun |-> [status |-> "NOT_RUN_LIVE", executionMode |-> "OFFLINE_TEST_DOUBLE",
                   policyVerificationAttempts |-> << >>],
     cartography |-> [status |-> "NOT_RUN_LIVE", executionMode |-> "OFFLINE_TEST_DOUBLE"],
     review |-> [status |-> "NOT_RUN_LIVE", executionMode |-> "OFFLINE_TEST_DOUBLE"],
     codexReceipts |-> [status |-> "NOT_RUN_LIVE", executionMode |-> "OFFLINE_TEST_DOUBLE",
                        runId |-> None, fixtureTreeSha256 |-> NoHash, commands |-> << >>],
     integrationDiff |-> [status |-> "NOT_RUN_LIVE", changes |-> << >>],
     mutationOpa |-> [status |-> "NOT_RUN_OPA", executionMode |-> "REFERENCE_EVALUATOR_NOT_OPA",
                      runId |-> None, results |-> << >>]]

NoTree ==
    [status |-> "NOT_RUN_LIVE", runId |-> None, fixtureId |-> "seeded-refund-demo",
     treeSha256 |-> NoHash, files |-> << >>]

MutationRun(report, mutants, status, runId, executable, opaResultHashes) ==
    [status |-> status, executionMode |-> report.executionMode, runId |-> runId,
     executable |-> executable, reportSha256 |-> Hash(report), total |-> report.suite.total,
     mutantPolicyHashes |-> MutantHashes(mutants), opaResultHashes |-> opaResultHashes]

RunMetadata(mode, at, version, fresh, runId, before, after, diff) ==
    [evidenceMode |-> mode, generatedAt |-> at, policyVersion |-> version,
     recordedInterpreter |-> ~fresh, freshExternalWork |-> fresh, runId |-> runId,
     fixtureBeforeSha256 |-> before, fixtureAfterSha256 |-> after, integrationDiffSha256 |-> diff]

(* What the summary of the verification says of the files.                 *)
VerificationSummary(files, status, mode, at) ==
    LET passed(cases) == [passed |-> Len(cases), total |-> Len(cases)]
    IN [status |-> status, evidenceMode |-> mode, policyVersion |-> files.policyIr.version,
        golden |-> passed(files.goldenCases), generated |-> passed(files.generatedCases),
        driftBefore |-> files.driftBefore.drifts,
        mutation |-> [killed |-> files.mutationReport.suite.killed,
                      total |-> files.mutationReport.suite.total,
                      executionMode |-> files.mutationReport.executionMode],
        traceability |-> Metrics(files.traceability), evidenceHash |-> NoHash, createdAt |-> at]

OfflineFiles ==
    LET policy == FixturePolicy
        cases == TrustedCorpus
        common == PolicyArtifactsOf(policy, cases)
        fixed == Report("fixture-expected-fixed-evaluation-only", "REFERENCE_EXPECTATION_NOT_OPA",
                        EvaluationOnly,
                        The(Differential(policy, cases, AnswersOf(FixedDecide, cases))))
        results ==
            common @@ OfflineRunFiles @@
            [treeBefore |-> NoTree, treeAfter |-> NoTree, appAfter |-> fixed,
             driftAfter |-> [status |-> "NOT_RUN_AFTER_CODEX", evidenceBasis |-> EvaluationOnly,
                             drifts |-> fixed.drifts, errors |-> fixed.errors],
             mutationRun |-> MutationRun(common.mutationReport, The(PolicyMutants(policy, cases)),
                                         "NOT_RUN_OPA", None, << >>, << >>),
             runMetadata |-> RunMetadata("PARTIAL_OFFLINE", GeneratedAt, policy.version, FALSE,
                                         None, NoHash, NoHash, NoHash),
             summary |-> [status |-> "FAIL", evidenceMode |-> "PARTIAL_OFFLINE",
                          evidenceHash |-> NoHash],
             verification |->
                VerificationSummary(common, "FAIL", "PARTIAL_OFFLINE", GeneratedAt) @@
                [driftAfter |-> NoCount, evaluationOnlyDrift |-> fixed.drifts,
                 regression |-> [passed |-> NoCount, total |-> NoCount, status |-> "NOT_RUN"],
                 security |-> [critical |-> NoCount, high |-> NoCount, status |-> "NOT_RUN"],
                 externalGates |-> [gpt56 |-> "NOT_RUN", opa |-> "PASS", codex |-> "NOT_RUN",
                                    browser |-> "NOT_RUN", container |-> "NOT_RUN",
                                    deployment |-> "NOT_RUN"]]]
    IN results @@
       [scorecard |-> [status |-> "FAIL", evidenceMode |-> "PARTIAL_OFFLINE", runId |-> None,
                       metrics |-> PartialMetrics(results)]]

OfflinePackage == Seal(OfflineFiles, << >>)

-----------------------------------------------------------------------------
(* A live package: the interpreter gave the ambiguities ids of its own.    *)

OwnIds(ambiguity) ==
    [ambiguity EXCEPT !.id = "own-" \o @,
                      !.options = [i \in DOMAIN @ |-> [@[i] EXCEPT !.id = "own-" \o @]]]

LivePolicy ==
    LET answered == [RecordedPolicy EXCEPT
            !.metadata = [source |-> "LIVE_RESPONSE", requestId |-> "resp_1"],
            !.ambiguities = [i \in DOMAIN @ |-> OwnIds(@[i])]]
        known == CanonicalizeKnownAmbiguities(answered, Ambiguities, SourceClauses)
    IN The(ResolveAll(known, FixtureChoices, GoldenCases))

RunId == "run-1"

File(content) == [kind |-> "file", meta |-> "as-copied", content |-> content]
Directory == [kind |-> "directory", meta |-> "as-copied"]
BaselineTree ==
    [path \in BaselinePaths |->
        IF path \in DOMAIN BaselineContents THEN File(BaselineContents[path]) ELSE Directory]

(* The repair of one attempt; the build then makes dist.                   *)
RepairedTree(code) ==
    ("src/refund.ts" :> File(code)) @@ ("tests/refund.test.mjs" :> File("regression"))
    @@ ("." :> [Directory EXCEPT !.meta = "changed"])
    @@ ("dist" :> Directory)
    @@ [path \in {"dist/refund.d.ts", "dist/refund.js"} |-> File(<<"built", code>>)]
    @@ BaselineTree

TreeReceipt(tree, runId) ==
    [status |-> "PASS", runId |-> runId, fixtureId |-> "seeded-refund-demo",
     treeSha256 |-> Hash(tree), files |-> tree]

WorkerMetadata(runId, prompt, schema) ==
    [runId |-> runId, requestSha256 |-> Hash(runId), promptSha256 |-> prompt,
     schemaSha256 |-> Hash(schema), backendId |-> "codex-sdk", model |-> "model-1"]

CodexCommand(id, attempt, repairRunId, before, after) ==
    [commandId |-> id, attempt |-> attempt, repairRunId |-> repairRunId, exitCode |-> 0,
     timedOut |-> FALSE, treeBefore |-> before, treeAfter |-> after]

VerificationAttempt(attempt, repairRunId, tree, cases, policy, Decide(_)) ==
    LET results == [i \in DOMAIN cases |->
            [caseId |-> cases[i].id, expectedDecision |-> cases[i].expectedDecision,
             actualDecision |-> Decide(cases[i].input),
             status |-> Met(Decide(cases[i].input) = cases[i].expectedDecision)]]
        passed == StatusCount(results, "PASS")
    IN [attempt |-> attempt, repairRunId |-> repairRunId, fixtureTreeSha256 |-> tree,
        acceptedCorpusSha256 |-> Hash(cases), policyIrSha256 |-> Hash(policy),
        total |-> Len(results), passed |-> passed,
        status |-> Met(passed = Len(results)), results |-> results]

(* Two attempts: the tests of the first passed and the corpus did not.     *)
Codes == <<"half-fixed", "fixed">>
RepairIds == <<"repair-1", "repair-2">>
HalfFixedDecide(input) ==
    IF True(input, "finalSale") THEN "DENY" ELSE BaselineDecide(input)

CodexRun(policy, cases, prompts) ==
    LET tree(attempt) == Hash(RepairedTree(Codes[attempt]))
        command(id, attempt, before) ==
            CodexCommand(id, attempt, RepairIds[attempt], before, tree(attempt))
        repairPrompt == Hash(<<prompts["repair"], prompts["repair-report"]>>)
    IN [status |-> "PASS", executionMode |-> "LIVE_CODEX_SDK", attempts |-> 2,
        cartography |-> [metadata |-> WorkerMetadata("map-1", prompts["cartographer"], "CARTOGRAPHY"),
                         proposedFiles |-> RepairPaths],
        repairAttempts |-> [i \in 1..2 |->
            [metadata |-> WorkerMetadata(RepairIds[i], repairPrompt, "REPAIR"),
             changedFiles |-> RepairPaths]],
        commandEvidence |->
            << command("fixture-typecheck", 1, Hash(BaselineTree)),
               command("fixture-test", 1, tree(1)),
               command("fixture-typecheck", 2, tree(1)), command("fixture-test", 2, tree(2)) >>,
        commandFailures |-> << >>,
        policyVerificationAttempts |->
            << VerificationAttempt(1, RepairIds[1], tree(1), cases, policy, HalfFixedDecide),
               VerificationAttempt(2, RepairIds[2], tree(2), cases, policy, FixedDecide) >>,
        review |-> [metadata |-> WorkerMetadata("review-1", prompts["reviewer"], "REVIEW"),
                    verdict |-> "APPROVE", findings |-> {"LOW"}],
        failure |-> None]

LiveRunFiles(policy, opa) ==
    LET passing == [status |-> "PASS", runId |-> RunId]
        url == "https-url"
        report == << [title |-> "happy-path", status |-> "PASSED"] >>
        screenshots == << [name |-> "clarify", png |-> "screenshot-1"],
                          [name |-> "dossier", png |-> "screenshot-2"] >>
    IN [gptRun |-> [executionMode |-> "RESPONSES_API", responseId |-> policy.metadata.requestId,
                    policyIrSha256 |-> Hash(policy)] @@ passing,
        browserRun |-> [executionMode |-> "PLAYWRIGHT", targetUrl |-> url, exitCode |-> 0,
                        passed |-> 1, total |-> 1, reportSha256 |-> Hash(report),
                        screenshotSha256s |-> {Hash(s.png) : s \in ToSet(screenshots)}] @@ passing,
        browserDetails |-> [targetUrl |-> url, report |-> report,
                            screenshots |-> screenshots] @@ passing,
        containerRun |-> [executionMode |-> "DOCKER", buildExitCode |-> 0, healthExitCode |-> 0,
                          healthStatus |-> "PASS", opa |-> opa, buildLogSha256 |-> Hash("log"),
                          healthResponseSha256 |-> Hash("ok")] @@ passing,
        containerDetails |-> [buildLog |-> "log", healthResponse |-> "ok"] @@ passing,
        deploymentRun |-> [executionMode |-> "HTTPS_HEALTH_CHECK", url |-> url,
                           healthUrl |-> HealthOf(url), checkedAt |-> 0, statusCode |-> 200,
                           responseSha256 |-> Hash("ok")] @@ passing,
        deploymentHealth |-> [url |-> HealthOf(url), checkedAt |-> 0, statusCode |-> 200,
                              anonymousAccess |-> TRUE, body |-> "ok"] @@ passing,
        securityReport |-> [scope |-> "RELEASE_REVIEW", critical |-> 0, high |-> 0,
                            findings |-> {"LOW"},
                            commands |-> {"security:check", "license:check"}] @@ passing,
        securityReview |-> passing,
        commandLog |-> [commands |-> [c \in RequiredLiveCommands |->
                            [exitCode |-> 0, startedAt |-> 0, completedAt |-> 1]]] @@ passing]

(* OPA's answers for one mutant.                                           *)
MutantReceipt(mutant, cases) ==
    [mutantId |-> mutant.id, policySha256 |-> Hash(mutant.policy),
     results |-> The(UNION {RunOpaCases(c, cases) : c \in CompilePolicy(mutant.policy)})]

LiveFiles ==
    LET policy == LivePolicy
        cases == TrustedCorpus
        offline == PolicyArtifactsOf(policy, cases)
        common == [offline EXCEPT !.mutationReport.executionMode = "OPA_CLI"]
        mutants == The(PolicyMutants(policy, cases))
        receipts == [i \in DOMAIN mutants |-> MutantReceipt(mutants[i], cases)]
        receiptHashes == [id \in Ids(mutants) |->
            Hash(receipts[CHOOSE i \in DOMAIN mutants : mutants[i].id = id])]
        codex == CodexRun(policy, cases, common.promptManifest)
        after == RepairedTree(Last(Codes))
        diff == [status |-> "CHANGED", changes |-> [path \in RepairPaths |->
                    <<BaselineTree[path].content, after[path].content>>]]
        fixed == Report(Hash(after), "OPA_EXPECTATION", None,
                        The(Differential(policy, cases, AnswersOf(FixedDecide, cases))))
        results ==
            common @@ LiveRunFiles(policy, Executable("linux")) @@
            [codexRun |-> codex, cartography |-> codex.cartography, review |-> codex.review,
             codexReceipts |->
                [status |-> "PASS", executionMode |-> "LIVE_CODEX_SDK", runId |-> RunId,
                 fixtureTreeSha256 |-> Hash(after),
                 commands |-> [i \in DOMAIN codex.commandEvidence |->
                                    Hash(codex.commandEvidence[i])]],
             integrationDiff |-> diff,
             treeBefore |-> TreeReceipt(BaselineTree, RunId),
             treeAfter |-> TreeReceipt(after, RunId),
             appAfter |-> fixed, driftAfter |-> fixed,
             mutationOpa |-> [status |-> "PASS", executionMode |-> "OPA_CLI", runId |-> RunId,
                              results |-> receipts],
             mutationRun |-> MutationRun(common.mutationReport, mutants, "PASS", RunId,
                                         Executable("linux"), receiptHashes),
             runMetadata |-> RunMetadata("LIVE_VERIFIED", IssuedAt, policy.version, TRUE, RunId,
                                         Hash(BaselineTree), Hash(after), Hash(diff)),
             summary |-> [status |-> "PASS", evidenceMode |-> "LIVE_VERIFIED",
                          evidenceHash |-> NoHash],
             verification |->
                VerificationSummary(common, "PASS", "LIVE_VERIFIED", IssuedAt) @@
                [driftAfter |-> 0, evaluationOnlyDrift |-> NoCount,
                 regression |-> [passed |-> 2, total |-> 2, status |-> "PASS"],
                 security |-> [critical |-> 0, high |-> 0, status |-> "PASS"],
                 externalGates |-> [gate \in {"gpt56", "opa", "codex", "browser", "container",
                                              "deployment"} |-> "PASS"]]]
    IN results @@
       [scorecard |-> [status |-> "PASS", evidenceMode |-> "LIVE_VERIFIED", runId |-> RunId,
                       metrics |-> LiveMetrics(results)]]

Attested(keyId, files, hash) ==
    LET runId == files.runMetadata.runId
        at == files.verification.createdAt
    IN << [keyId |-> keyId, runId |-> runId, issuedAt |-> at, evidenceHash |-> hash,
           signature |-> Signature(keyId, hash, runId, at)] >>

LivePackage(files) == Seal(files, Attested("key-1", files, HashOf(files)))

Reissued(files, at) ==
    [files EXCEPT !.runMetadata.generatedAt = at, !.verification.createdAt = at]

(* Packages that claim PASS and are wrong in one place: evidence of another *)
(* run or of another state, work that failed, work left out, a claim that  *)
(* its own details do not bear out.                                        *)
OtherReview(Change(_)) ==
    [LiveFiles EXCEPT !.review = Change(@), !.codexRun.review = Change(@)]
OtherCommand(i, command) ==
    [LiveFiles EXCEPT !.codexRun.commandEvidence[i] = command,
                      !.codexReceipts.commands[i] = Hash(command)]
OtherAfter(Decide(_)) ==
    LET report == Report(LiveFiles.appAfter.adapterId, "OPA_EXPECTATION", None,
                         The(Differential(LivePolicy, TrustedCorpus, AnswersOf(Decide, TrustedCorpus))))
    IN [LiveFiles EXCEPT !.appAfter = report, !.driftAfter = report]
OtherTree(tree) ==
    LET diff == [LiveFiles.integrationDiff EXCEPT
                    !.changes = [path \in RepairPaths |->
                        <<BaselineTree[path].content, tree[path].content>>]]
    IN [LiveFiles EXCEPT !.treeAfter = TreeReceipt(tree, RunId),
                         !.integrationDiff = diff,
                         !.runMetadata.fixtureAfterSha256 = Hash(tree),
                         !.runMetadata.integrationDiffSha256 = Hash(diff)]

DeviatingFiles ==
    LET live == LiveFiles
        codex == live.codexRun
        commands == codex.commandEvidence
        receipts == codex.policyVerificationAttempts
        fixedTree == RepairedTree(Last(Codes))
    IN [otherResponse |-> [live EXCEPT !.gptRun.responseId = "resp_0"],
        otherRunsBrowser |-> [live EXCEPT !.browserDetails.runId = "run-0"],
        otherSitesBrowser |-> [live EXCEPT !.browserRun.targetUrl = "other-url",
                                           !.browserDetails.targetUrl = "other-url"],
        otherReport |-> [live EXCEPT !.browserDetails.report[1].title = "other"],
        otherScreenshot |-> [live EXCEPT !.browserDetails.screenshots[2].png = "other"],
        screenshotLeftOut |-> [live EXCEPT !.browserDetails.screenshots = Front(@)],
        sameNameTwice |-> [live EXCEPT !.browserDetails.screenshots[2].name = "clarify"],
        sameScreenshotTwice |-> [live EXCEPT !.browserDetails.screenshots[2].png = "screenshot-1"],
        otherOpa |-> [live EXCEPT !.containerRun.opa = Executable("windows")],
        unhealthy |-> [live EXCEPT !.containerDetails.healthResponse = "down",
                                   !.containerRun.healthResponseSha256 = Hash("down")],
        privateSite |-> [live EXCEPT !.deploymentHealth.anonymousAccess = FALSE],
        laterHealth |-> [live EXCEPT !.deploymentHealth.checkedAt = 1],
        mutantLeftOut |-> [live EXCEPT !.mutationOpa.results = Front(@)],
        otherMutantsAnswers |-> [live EXCEPT !.mutationOpa.results[1].results =
                                    live.mutationOpa.results[2].results],
        otherRunsMutants |-> [live EXCEPT !.mutationRun.runId = "run-0"],
        driftLeft |-> OtherAfter(BaselineDecide),
        fewerAttempts |-> [live EXCEPT !.codexRun.attempts = 1],
        verificationFailed |-> [live EXCEPT !.codexRun.policyVerificationAttempts[2] =
            VerificationAttempt(2, RepairIds[2], Hash(fixedTree), TrustedCorpus, LivePolicy,
                                HalfFixedDecide)],
        earlierTreeVerified |-> [live EXCEPT
            !.codexRun.policyVerificationAttempts[2].fixtureTreeSha256 = receipts[1].fixtureTreeSha256],
        verificationSkipped |-> [live EXCEPT !.codexRun.policyVerificationAttempts = Tail(@)],
        testsTimedOut |-> OtherCommand(4, [commands[4] EXCEPT !.timedOut = TRUE]),
        testsChangedTree |-> OtherCommand(4, [commands[4] EXCEPT !.treeBefore = Hash(BaselineTree)]),
        testsFirst |-> [live EXCEPT !.codexRun.commandEvidence[3] = commands[4],
                                    !.codexRun.commandEvidence[4] = commands[3]],
        blocked |-> OtherReview(LAMBDA r : [r EXCEPT !.verdict = "BLOCK", !.findings = {"HIGH"}]),
        selfReviewed |-> OtherReview(LAMBDA r : [r EXCEPT !.metadata.runId = RepairIds[2]]),
        otherReviewShown |-> [live EXCEPT !.review.findings = {}],
        otherPrompt |-> [live EXCEPT !.promptManifest["repair-report"] = Hash("other")],
        moreFilesChanged |-> OtherTree(("package.json" :> File("other")) @@ fixedTree),
        otherTests |-> OtherTree(("tests/refund.test.mjs" :> File("weaker")) @@ fixedTree),
        otherDiff |-> [live EXCEPT !.integrationDiff.changes["src/refund.ts"][2] = "half-fixed"],
        commandMissing |-> [live EXCEPT !.commandLog.commands =
                                [c \in RequiredLiveCommands \ {"build"} |-> @[c]]],
        highFinding |-> [live EXCEPT !.securityReport.findings = {"HIGH"}],
        betterScore |-> [live EXCEPT !.scorecard.metrics.mutation.value = <<1, 1>>],
        caseLeftOut |-> [live EXCEPT !.generatedCases = Front(@)],
        gateNotRun |-> [live EXCEPT !.verification.externalGates.codex = "NOT_RUN"],
        recorded |-> [live EXCEPT !.runMetadata.recordedInterpreter = TRUE]]

(* The packages by name, those that are wrong in their attestation too.    *)
Packages ==
    ("partial" :> OfflinePackage) @@ ("live" :> LivePackage(LiveFiles))
    @@ ("reissued" :> LivePackage(Reissued(LiveFiles, IssuedAt + 1)))
    @@ ("untrustedKey" :> Seal(LiveFiles, Attested("key-2", LiveFiles, HashOf(LiveFiles))))
    @@ ("otherHash" :> Seal(LiveFiles, Attested("key-1", LiveFiles, NoHash)))
    @@ ("redated" :> Seal(Reissued(LiveFiles, IssuedAt + 1),
                          Attested("key-1", LiveFiles, HashOf(Reissued(LiveFiles, IssuedAt + 1)))))
    @@ [name \in DOMAIN DeviatingFiles |-> LivePackage(DeviatingFiles[name])]

GenuinePackages == {"partial", "live", "reissued"}

(* The one deviation that the check lets pass: the details show one        *)
(* screenshot twice, and the summary also names one they do not show.      *)
ToleratedPackages == {"sameScreenshotTwice"}
AcceptablePackages == GenuinePackages \cup ToleratedPackages
=============================================================================
