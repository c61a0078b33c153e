---------------------------- MODULE LiveEvidence ----------------------------
(* What a package must hold to claim PASS, what a partial one may not hold, *)
(* and the whole check (src/src/evidence/validate.ts from line 375 on).    *)
(* What a worker, a browser, a container or a deployment returned is part  *)
(* of the package; here is only what is asked of it.                       *)
EXTENDS EvidencePackage

CONSTANTS
    TrustedKeys,     \* the attestation keys this verifier trusts
    MaxFutureSkew,   \* how far an attestation may be ahead of the clock
    MaxAge           \* how long an attestation stands

-----------------------------------------------------------------------------
(* The proofs of work done outside: each summary is of this run and its    *)
(* hashes are those of the details beside it.                              *)

InterpreterProof(p, runId) ==
    /\ p.verification.externalGates.gpt56 = "PASS"
    /\ p.policyIr.metadata.source = "LIVE_RESPONSE"
    /\ p.gptRun = [status |-> "PASS", executionMode |-> "RESPONSES_API", runId |-> runId,
                   responseId |-> p.policyIr.metadata.requestId,
                   policyIrSha256 |-> Hash(p.policyIr)]

(* The comparison of a list with a set that the code calls sameStringSet:  *)
(* with a list that repeats an item, the set may hold what the list lacks. *)
SameStringSet(list, set) == Len(list) = Cardinality(set) /\ ToSet(list) \subseteq set

BrowserProof(p, runId) ==
    LET run == p.browserRun
        details == p.browserDetails
        derived == [i \in DOMAIN details.screenshots |-> Hash(details.screenshots[i].png)]
    IN /\ p.verification.externalGates.browser = "PASS"
       /\ run.status = "PASS" /\ run.executionMode = "PLAYWRIGHT" /\ run.runId = runId
       /\ run.exitCode = 0 /\ run.total > 0 /\ run.passed = run.total
       /\ run.screenshotSha256s # {}
       /\ details.status = "PASS" /\ details.runId = runId
       /\ details.targetUrl = run.targetUrl
       /\ Len(details.report) = run.total
       /\ \A i, j \in DOMAIN details.report :
            details.report[i].title = details.report[j].title => i = j
       /\ \A i \in DOMAIN details.report : details.report[i].status = "PASSED"
       /\ run.reportSha256 = Hash(details.report)
       /\ \A i, j \in DOMAIN details.screenshots :
            details.screenshots[i].name = details.screenshots[j].name => i = j
       /\ SameStringSet(derived, run.screenshotSha256s)

ContainerProof(p, runId) ==
    LET run == p.containerRun
        details == p.containerDetails
    IN /\ p.verification.externalGates.container = "PASS"
       /\ run.status = "PASS" /\ run.executionMode = "DOCKER" /\ run.runId = runId
       /\ run.buildExitCode = 0 /\ run.healthExitCode = 0 /\ run.healthStatus = "PASS"
       /\ run.opa = Executable("linux")
       /\ run.opa[1] = p.opaResults.executable[1]
       /\ details.status = "PASS" /\ details.runId = runId
       /\ run.buildLogSha256 = Hash(details.buildLog)
       /\ run.healthResponseSha256 = Hash(details.healthResponse)
       /\ details.healthResponse = "ok"

HealthOf(url) == <<url, "health">>

DeploymentProof(p, runId) ==
    LET run == p.deploymentRun
        details == p.deploymentHealth
    IN /\ p.verification.externalGates.deployment = "PASS"
       /\ run.status = "PASS" /\ run.executionMode = "HTTPS_HEALTH_CHECK" /\ run.runId = runId
       /\ run.healthUrl = HealthOf(run.url) /\ run.statusCode = 200
       /\ run.url = p.browserRun.targetUrl
       /\ details.status = "PASS" /\ details.runId = runId
       /\ details.url = run.healthUrl /\ details.checkedAt = run.checkedAt
       /\ details.statusCode = 200 /\ details.anonymousAccess
       /\ details.body = "ok" /\ run.responseSha256 = Hash(details.body)

-----------------------------------------------------------------------------
(* The repair: its attempts, their commands and the verification of each   *)
(* on the corpus.                                                          *)

CaseStatus(r) ==
    IF r.actualDecision = None THEN "ERROR"
    ELSE IF r.actualDecision = r.expectedDecision THEN "PASS" ELSE "FAIL"

VerificationReceipt(receipt) ==
    /\ receipt.total = Len(receipt.results)
    /\ \A i \in DOMAIN receipt.results : receipt.results[i].status = CaseStatus(receipt.results[i])
    /\ receipt.passed = StatusCount(receipt.results, "PASS")
    /\ receipt.status = Met(receipt.passed = receipt.total)

(* In the order of the attempts, all failed but the last, and what the last *)
(* saw is what the application answered after the repair.                  *)
PolicyVerificationHolds(p, repairRunIds) ==
    LET receipts == p.codexRun.policyVerificationAttempts
        cases == AcceptedCases(p)
    IN /\ receipts # << >> /\ Len(receipts) <= Len(repairRunIds)
       /\ \A i \in DOMAIN receipts :
            /\ VerificationReceipt(receipts[i])
            /\ receipts[i].attempt \in DOMAIN repairRunIds
            /\ i > 1 => receipts[i].attempt > receipts[i - 1].attempt
            /\ receipts[i].repairRunId = repairRunIds[receipts[i].attempt]
            /\ receipts[i].acceptedCorpusSha256 = Hash(cases)
            /\ receipts[i].policyIrSha256 = Hash(p.policyIr)
            /\ CoversCases(receipts[i].results, cases)
            /\ \A r \in ToSet(receipts[i].results) :
                r.expectedDecision = ById(cases, r.caseId).expectedDecision
            /\ i < Len(receipts) => receipts[i].status = "FAIL"
       /\ LET final == Last(receipts) IN
          /\ final.attempt = p.codexRun.attempts /\ final.status = "PASS"
          /\ final.fixtureTreeSha256 = p.runMetadata.fixtureAfterSha256
          /\ \A r \in ToSet(final.results) :
                r.actualDecision = ResultFor(p.appAfter.records, r.caseId).actual

ParsesCommand(command) ==
    /\ command.commandId \in {"fixture-typecheck", "fixture-test"}
    /\ command.attempt \in 1..2

(* Mutant: a command that ran out of time counts as a success.             *)
SucceededThoughTimedOut(command) == command.exitCode = 0
Succeeded(command) == command.exitCode = 0 /\ ~command.timedOut

(* Two commands an attempt; the tests leave the tree the build left, and   *)
(* the corpus is verified exactly when both succeeded, on that tree.       *)
CommandHistoryHolds(p, repairRunIds) ==
    LET commands == p.codexRun.commandEvidence
        receipts == ToSet(p.codexRun.policyVerificationAttempts)
    IN /\ Len(commands) = 2 * Len(repairRunIds)
       /\ \A i \in DOMAIN commands : ParsesCommand(commands[i])
       /\ \A attempt \in DOMAIN repairRunIds :
            LET typecheck == commands[2 * attempt - 1]
                test == commands[2 * attempt]
                passed == Succeeded(typecheck) /\ Succeeded(test)
                own == {r \in receipts : r.attempt = attempt}
            IN /\ typecheck.commandId = "fixture-typecheck" /\ test.commandId = "fixture-test"
               /\ \A c \in {typecheck, test} :
                    c.attempt = attempt /\ c.repairRunId = repairRunIds[attempt]
               /\ typecheck.treeAfter = test.treeBefore /\ test.treeBefore = test.treeAfter
               /\ passed <=> own # {}
               /\ \A r \in own : r.fixtureTreeSha256 = test.treeAfter
               /\ attempt = p.codexRun.attempts =>
                    passed /\ test.treeAfter = p.runMetadata.fixtureAfterSha256

RepairPaths == {"src/refund.ts", "tests/refund.test.mjs"}

(* The answers of the phases.                                              *)
ParsesCartography(cartography) == cartography.proposedFiles = RepairPaths
ParsesReview(review) ==
    (review.verdict = "BLOCK") = (review.findings \cap {"HIGH", "CRITICAL"} # {})

Backend(metadata) == <<metadata.backendId, metadata.model>>

(* Cartography, every repair and the review: the same backend, each with   *)
(* its own run and request, its phase's prompt and its phase's schema.     *)
PhasesAgree(p) ==
    LET codex == p.codexRun
        repairs == codex.repairAttempts
        repairPrompt == Hash(<<p.promptManifest["repair"], p.promptManifest["repair-report"]>>)
        workers == <<codex.cartography.metadata>>
                   \o [i \in DOMAIN repairs |-> repairs[i].metadata]
                   \o <<codex.review.metadata>>
        phase(metadata, prompt, schema) ==
            metadata.promptSha256 = prompt /\ metadata.schemaSha256 = Hash(schema)
    IN /\ codex.cartography.metadata.backendId = "codex-sdk"
       /\ \A i, j \in DOMAIN workers :
            /\ Backend(workers[i]) = Backend(workers[j])
            /\ workers[i].runId = workers[j].runId => i = j
            /\ workers[i].requestSha256 = workers[j].requestSha256 => i = j
       /\ phase(codex.cartography.metadata, p.promptManifest["cartographer"], "CARTOGRAPHY")
       /\ \A i \in DOMAIN repairs : phase(repairs[i].metadata, repairPrompt, "REPAIR")
       /\ phase(codex.review.metadata, p.promptManifest["reviewer"], "REVIEW")
       /\ ParsesCartography(codex.cartography)
       /\ \A i \in DOMAIN repairs : repairs[i].changedFiles = codex.cartography.proposedFiles
       /\ ParsesReview(codex.review) /\ codex.review.verdict = "APPROVE"
       /\ p.cartography = codex.cartography /\ p.review = codex.review
       /\ p.verification.externalGates.codex = "PASS"

RepairRunIds(p) ==
    [i \in DOMAIN p.codexRun.repairAttempts |-> p.codexRun.repairAttempts[i].metadata.runId]

CodexRunHolds(p) ==
    /\ p.codexRun.status = "PASS" /\ p.codexRun.executionMode = "LIVE_CODEX_SDK"
    /\ p.codexRun.attempts \in 1..2 /\ Len(p.codexRun.repairAttempts) = p.codexRun.attempts
    /\ p.codexRun.failure = None /\ p.codexRun.commandFailures = << >>
    /\ PolicyVerificationHolds(p, RepairRunIds(p))
    /\ CommandHistoryHolds(p, RepairRunIds(p))
    /\ PhasesAgree(p)

-----------------------------------------------------------------------------
(* The fixture before and after the repair, and the change between them.   *)

BaselineContents ==
    ("package.json" :> "package") @@ ("src/refund.ts" :> "baseline")
    @@ ("tests/refund.test.mjs" :> "tests") @@ ("tsconfig.json" :> "tsconfig")
BaselinePaths == DOMAIN BaselineContents \cup {".", "src", "tests"}
GeneratedPaths == {"dist", "dist/refund.d.ts", "dist/refund.js"}

Contents(tree) ==
    [path \in {x \in DOMAIN tree : tree[x].kind = "file"} |-> tree[path].content]

TreeReceiptHolds(receipt, runId) ==
    /\ receipt.status = "PASS" /\ receipt.runId = runId
    /\ receipt.fixtureId = "seeded-refund-demo"
    /\ DOMAIN receipt.files # {} /\ receipt.treeSha256 = Hash(receipt.files)

EntryOf(tree, path) == IF path \in DOMAIN tree THEN <<tree[path]>> ELSE << >>
ChangedEntries(before, after) ==
    {path \in DOMAIN before \cup DOMAIN after : EntryOf(before, path) # EntryOf(after, path)}

(* The diff is the change of contents between the trees, byte for byte.    *)
CanonicalDiffHolds(changes, before, after) ==
    /\ DOMAIN changes # {}
    /\ DOMAIN changes \subseteq DOMAIN Contents(before) \cap DOMAIN Contents(after)
    /\ \A path \in DOMAIN changes :
        /\ changes[path] = <<Contents(before)[path], Contents(after)[path]>>
        /\ changes[path][1] # changes[path][2]

RepairedTreeHolds(p, runId) ==
    LET before == p.treeBefore.files
        after == p.treeAfter.files
        changes == p.integrationDiff.changes
        changed == ChangedEntries(before, after) \ (GeneratedPaths \cup {"."})
    IN /\ TreeReceiptHolds(p.treeBefore, runId) /\ TreeReceiptHolds(p.treeAfter, runId)
       /\ CanonicalDiffHolds(changes, before, after)
       /\ Contents(before) = BaselineContents /\ DOMAIN before = BaselinePaths
       /\ p.runMetadata.fixtureBeforeSha256 = p.treeBefore.treeSha256
       /\ p.runMetadata.fixtureAfterSha256 = p.treeAfter.treeSha256
       /\ p.treeBefore.treeSha256 # p.treeAfter.treeSha256
       /\ changed = DOMAIN changes /\ changed = RepairPaths
       /\ GeneratedPaths \cap DOMAIN before = {} /\ GeneratedPaths \subseteq DOMAIN after
       /\ Contents(after)["tests/refund.test.mjs"] = "regression"
       /\ p.runMetadata.integrationDiffSha256 = Hash(p.integrationDiff)
       /\ p.driftAfter.adapterId = p.treeAfter.treeSha256

CommandReceiptsHold(p, runId) ==
    LET commands == p.codexRun.commandEvidence IN
    p.codexReceipts = [status |-> "PASS", executionMode |-> "LIVE_CODEX_SDK", runId |-> runId,
                       fixtureTreeSha256 |-> p.treeAfter.treeSha256,
                       commands |-> [i \in DOMAIN commands |-> Hash(commands[i])]]

RegressionHolds(p) ==
    p.verification.regression = [passed |-> 2, total |-> 2, status |-> "PASS"]

(* The code has fifteen of them.                                           *)
RequiredLiveCommands == {"test", "security:check", "license:check", "test:e2e", "build"}

CommandLogHolds(p, runId) ==
    /\ p.commandLog.status = "PASS" /\ p.commandLog.runId = runId
    /\ RequiredLiveCommands \subseteq DOMAIN p.commandLog.commands
    /\ \A c \in DOMAIN p.commandLog.commands :
        LET run == p.commandLog.commands[c]
        IN run.exitCode = 0 /\ run.completedAt >= run.startedAt

SecurityProof(p, runId) ==
    /\ p.verification.security = [critical |-> 0, high |-> 0, status |-> "PASS"]
    /\ p.securityReport.status = "PASS" /\ p.securityReport.scope = "RELEASE_REVIEW"
    /\ p.securityReport.runId = runId
    /\ p.securityReport.critical = 0 /\ p.securityReport.high = 0
    /\ p.securityReport.findings \subseteq {"LOW", "MEDIUM"}
    /\ {"security:check", "license:check"} \subseteq p.securityReport.commands
    /\ p.securityReview = [status |-> "PASS", runId |-> runId]

ZeroDriftAfter(p) ==
    /\ DifferentialReportHolds(p.appAfter, p)
    /\ p.driftAfter = p.appAfter
    /\ p.appAfter.executionMode = "OPA_EXPECTATION"
    /\ p.appAfter.drifts = 0 /\ p.appAfter.errors = 0 /\ p.verification.driftAfter = 0

(* Everything a package needs to claim PASS.                               *)
ProvesPass(p) ==
    LET runId == p.runMetadata.runId
        gates == p.verification.externalGates
    IN /\ p.manifest.evidenceMode = "LIVE_VERIFIED"
       /\ ~p.runMetadata.recordedInterpreter /\ p.runMetadata.freshExternalWork
       /\ runId # None
       /\ \A gate \in DOMAIN gates : gates[gate] = "PASS"
       /\ InterpreterProof(p, runId) /\ BrowserProof(p, runId)
       /\ ContainerProof(p, runId) /\ DeploymentProof(p, runId)
       /\ MutationRanInOpa(p, runId) /\ MutationOpaHolds(p, runId)
       /\ ZeroDriftAfter(p)
       /\ CodexRunHolds(p)
       /\ RepairedTreeHolds(p, runId) /\ CommandReceiptsHold(p, runId) /\ RegressionHolds(p)
       /\ CommandLogHolds(p, runId) /\ SecurityProof(p, runId)
       /\ LiveScorecardHolds(p, runId)
       /\ Enough(p.mutationReport.suite.killed, p.mutationReport.suite.total)
       /\ TraceabilityComplete(p.traceability)

-----------------------------------------------------------------------------
(* A partial package claims no work it did not do.                         *)

EvaluationOnly == "EVALUATION_ONLY_FIXED_FIXTURE_NOT_CODEX_REPAIR"

NothingLive(p) ==
    /\ p.codexRun = [status |-> "NOT_RUN_LIVE", executionMode |-> "OFFLINE_TEST_DOUBLE",
                     policyVerificationAttempts |-> << >>]
    /\ \A f \in {"cartography", "review"} :
        p[f] = [status |-> "NOT_RUN_LIVE", executionMode |-> "OFFLINE_TEST_DOUBLE"]
    /\ p.codexReceipts = [status |-> "NOT_RUN_LIVE", executionMode |-> "OFFLINE_TEST_DOUBLE",
                          runId |-> None, fixtureTreeSha256 |-> NoHash, commands |-> << >>]
    /\ \A f \in {"treeBefore", "treeAfter"} :
        p[f] = [status |-> "NOT_RUN_LIVE", runId |-> None, fixtureId |-> "seeded-refund-demo",
                treeSha256 |-> NoHash, files |-> << >>]
    /\ p.integrationDiff.status = "NOT_RUN_LIVE"
    /\ p.runMetadata.runId = None /\ p.runMetadata.recordedInterpreter
    /\ ~p.runMetadata.freshExternalWork
    /\ p.runMetadata.fixtureBeforeSha256 = NoHash /\ p.runMetadata.fixtureAfterSha256 = NoHash
    /\ p.runMetadata.integrationDiffSha256 = NoHash

NothingRun(p) ==
    /\ \A f \in {"gptRun", "browserRun", "browserDetails", "containerRun", "containerDetails",
                 "deploymentRun", "deploymentHealth", "securityReport", "securityReview"} :
        p[f].status = "NOT_RUN"
    /\ \A gate \in {"gpt56", "browser", "container", "deployment"} :
        p.verification.externalGates[gate] = "NOT_RUN"
    /\ p.verification.security.status = "NOT_RUN"

PartialEvidenceHolds(p) ==
    /\ p.manifest.packageStatus = "FAIL"
    /\ ScorecardHolds(p, "FAIL", "PARTIAL_OFFLINE", None, PartialMetrics(p))
    /\ DifferentialReportHolds(p.appAfter, p)
    /\ p.appAfter.executionMode = "REFERENCE_EXPECTATION_NOT_OPA"
    /\ p.appAfter.evidenceBasis = EvaluationOnly
    /\ p.verification.driftAfter = NoCount
    /\ p.verification.evaluationOnlyDrift = p.appAfter.drifts
    /\ p.driftAfter = [status |-> "NOT_RUN_AFTER_CODEX", evidenceBasis |-> EvaluationOnly,
                       drifts |-> p.appAfter.drifts, errors |-> p.appAfter.errors]
    /\ p.mutationReport.executionMode = "REFERENCE_EVALUATOR_NOT_OPA"
    /\ p.mutationRun.status = "NOT_RUN_OPA" /\ p.mutationRun.runId = None
    /\ p.mutationRun.executable = << >> /\ p.mutationRun.opaResultHashes = << >>
    /\ p.mutationOpa = [status |-> "NOT_RUN_OPA",
                        executionMode |-> "REFERENCE_EVALUATOR_NOT_OPA",
                        runId |-> None, results |-> << >>]
    /\ NothingLive(p) /\ NothingRun(p)

HumanSummaryHolds(p) ==
    p.summary = [status |-> p.manifest.packageStatus, evidenceMode |-> p.manifest.evidenceMode,
                 evidenceHash |-> p.manifest.evidenceHash]

-----------------------------------------------------------------------------
(* A live package carries one attestation of this hash and this run, by a  *)
(* trusted key and of the right age; a partial one carries none.           *)
AttestationHolds(p, now) ==
    IF p.manifest.evidenceMode = "PARTIAL_OFFLINE"
    THEN p.manifest.attestation = << >>
    ELSE /\ p.manifest.attestation # << >>
         /\ LET a == p.manifest.attestation[1] IN
            /\ a.evidenceHash = p.manifest.evidenceHash
            /\ a.runId = p.runMetadata.runId
            /\ a.issuedAt = p.verification.createdAt
            /\ a.issuedAt <= now + MaxFutureSkew
            /\ now - a.issuedAt <= MaxAge
            /\ a.keyId \in TrustedKeys
            /\ a.signature = Signature(a.keyId, a.evidenceHash, a.runId, a.issuedAt)

(* All but the attestation: it does not depend on the time.                *)
EvidenceHolds(p) ==
    /\ ManifestCovers(p) /\ MetadataAgrees(p) /\ PolicyAgrees(p)
    /\ CorpusIsTrusted(p) /\ CompilationMatches(p) /\ OpaEvidenceHolds(p) /\ GatesAgree(p)
    /\ BaselineDrifts(p)
    /\ MutationReportHolds(p) /\ MutationRunHolds(p) /\ TraceabilityHolds(p)
    /\ p.verification.status = "PASS" => ProvesPass(p)
    /\ p.manifest.packageStatus = p.verification.status
    /\ p.manifest.evidenceMode = "PARTIAL_OFFLINE" => PartialEvidenceHolds(p)
    /\ HumanSummaryHolds(p)

(* When the whole check holds.                                             *)
ValidTimes(p, times) ==
    IF EvidenceHolds(p) THEN {t \in times : AttestationHolds(p, t)} ELSE {}
=============================================================================
