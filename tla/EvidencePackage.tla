--------------------------- MODULE EvidencePackage ---------------------------
(* An evidence package and the checks it must pass to be served            *)
(* (src/src/evidence/validate.ts).  A package is a record of the contents  *)
(* of its 38 files, each named for its file; the texts of the files, their *)
(* schema versions and their sets of keys are left out.  A hash stands for *)
(* what is hashed, so that equal hashes are equal contents, and a signature *)
(* for its key and its message.  A count that is null is NoCount, and a    *)
(* hash or a list that is null is empty.                                   *)
EXTENDS RefundFixture, TLC

NoCount == -1
NoHash == << >>
Hash(content) == <<content>>
Signature(keyId, evidenceHash, runId, issuedAt) == <<keyId, evidenceHash, runId, issuedAt>>

PolicyFiles == {"policyIr", "compiledPolicy", "goldenCases", "generatedCases"}
ResultFiles ==
    {"gptRun", "opaResults", "appBefore", "driftBefore", "codexRun", "codexReceipts",
     "integrationDiff", "treeBefore", "treeAfter", "appAfter", "driftAfter",
     "mutationReport", "mutationRun", "mutationOpa", "traceability"}
SummaryFiles == {"verification", "summary"}
ProofFiles ==
    {"runMetadata", "promptManifest", "compilerManifest", "cartography", "review",
     "commandLog", "browserRun", "browserDetails", "containerRun", "containerDetails",
     "deploymentRun", "deploymentHealth", "securityReport", "securityReview",
     "impactReport", "scorecard"}
PayloadFiles == PolicyFiles \cup ResultFiles \cup SummaryFiles \cup ProofFiles
RequiredEvidenceFiles == PayloadFiles \cup {"manifest"}

-----------------------------------------------------------------------------
(* The manifest and the aggregate hash.                                    *)

(* The two files that quote the aggregate hash count without it.           *)
EvidenceContribution(file, content) ==
    IF file \in SummaryFiles THEN [content EXCEPT !.evidenceHash = NoHash] ELSE content

EvidencePackageHash(files, included) ==
    Hash([f \in included |-> Hash(EvidenceContribution(f, files[f]))])

ParsesManifest(manifest) ==
    /\ manifest.packageStatus \in {"PASS", "FAIL"}
    /\ manifest.evidenceMode \in {"PARTIAL_OFFLINE", "LIVE_VERIFIED"}

ManifestCovers(p) ==
    /\ ParsesManifest(p.manifest)
    /\ DOMAIN p.manifest.entries = PayloadFiles
    /\ \A f \in PayloadFiles :
        p.manifest.entries[f] = [sha256 |-> Hash(p[f]), included |-> TRUE]
    /\ p.manifest.evidenceHash = EvidencePackageHash(p, PayloadFiles)

MetadataAgrees(p) ==
    /\ p.verification.status \in {"PASS", "FAIL"}
    /\ p.verification.evidenceMode = p.manifest.evidenceMode
    /\ p.verification.evidenceHash = p.manifest.evidenceHash
    /\ p.runMetadata.evidenceMode = p.manifest.evidenceMode
    /\ p.runMetadata.generatedAt = p.verification.createdAt

-----------------------------------------------------------------------------
(* The policy, its corpus and its compilation.                             *)

Prompts == {"interpreter", "cartographer", "repair", "repair-report", "reviewer"}

PolicyAgrees(p) ==
    /\ ParsePolicyIR(p.policyIr) # {}
    /\ p.verification.policyVersion = p.policyIr.version
    /\ p.runMetadata.policyVersion = p.policyIr.version
    /\ DOMAIN p.promptManifest = Prompts

EvidenceCases(cases, golden, policy) ==
    /\ cases # << >> /\ DistinctIds(cases)
    /\ \A i \in DOMAIN cases :
        /\ (cases[i].source = "USER_GOLDEN") = golden
        /\ cases[i].expectedDecision \in Decisions /\ ValidRefundInput(cases[i].input)
        /\ cases[i].relatedClauseIds # {}
        /\ cases[i].relatedClauseIds \subseteq Ids(policy.clauses)
        /\ cases[i].relatedRuleIds \subseteq Ids(policy.rules)

AcceptedCases(p) == p.goldenCases \o p.generatedCases
AcceptedCaseMinimum == 30

(* The corpus the server knows is the one of the seeded fixture.           *)
The(set) == CHOOSE x \in set : TRUE
FixtureChoices ==
    << <<"ambiguity-purchase-day-index", "purchase-day-zero">>,
       <<"ambiguity-usage-measurement-time", "usage-at-request">>,
       <<"ambiguity-default-decision", "default-deny">> >>
FixturePolicy == The(ResolveAll(RecordedPolicy, FixtureChoices, GoldenCases))
TrustedCorpus == The(CaseCorpus(FixturePolicy, GoldenCases, DriftCases))

CorpusIsTrusted(p) ==
    /\ EvidenceCases(p.goldenCases, TRUE, p.policyIr)
    /\ EvidenceCases(p.generatedCases, FALSE, p.policyIr)
    /\ DistinctIds(AcceptedCases(p)) /\ Len(AcceptedCases(p)) >= AcceptedCaseMinimum
    /\ Hash(AcceptedCases(p)) = Hash(TrustedCorpus)

Program(compiled) == [helpers |-> compiled.helpers, clauses |-> compiled.clauses]

CompilationMatches(p) ==
    \E compiled \in CompilePolicy(p.policyIr) :
        p.compiledPolicy = Program(compiled) /\ p.compilerManifest = compiled.mappings

-----------------------------------------------------------------------------
(* The results on the corpus.                                              *)

CoversCases(results, cases) ==
    /\ Len(results) = Len(cases)
    /\ {results[i].caseId : i \in DOMAIN results} = Ids(cases)
ResultFor(results, caseId) ==
    results[CHOOSE i \in DOMAIN results : results[i].caseId = caseId]

Executable(platform) == <<"1.18.2", platform>>
TrustedOpaExecutables == {Executable("windows"), Executable("linux")}

(* The decision of OPA is the expected one, by a rule the case is about.   *)
OpaEvidenceHolds(p) ==
    LET opa == p.opaResults
        cases == AcceptedCases(p)
    IN /\ opa.status = "PASS" /\ opa.executionMode = "OPA_CLI"
       /\ opa.executable \in TrustedOpaExecutables
       /\ opa.policyHash = Hash(p.compiledPolicy)
       /\ opa.policyVersion = p.policyIr.version
       /\ opa.agreement = [passed |-> Len(cases), total |-> Len(cases)]
       /\ CoversCases(opa.results, cases)
       /\ \A i \in DOMAIN opa.results :
            LET case == ById(cases, opa.results[i].caseId)
                result == opa.results[i].result
            IN /\ opa.results[i].input = case.input
               /\ result.decision = case.expectedDecision
               /\ result.policyVersion = p.policyIr.version
               /\ \/ result.matchedRuleId = None /\ case.relatedRuleIds = {}
                  \/ result.matchedRuleId \in case.relatedRuleIds \cap Ids(p.policyIr.rules)

GatesAgree(p) ==
    LET passed(cases) == [passed |-> Len(cases), total |-> Len(cases)]
        gates == p.verification.externalGates
    IN /\ p.verification.golden = passed(p.goldenCases)
       /\ p.verification.generated = passed(p.generatedCases)
       /\ gates.opa = "PASS"
       /\ \A gate \in DOMAIN gates : gates[gate] \in {"PASS", "FAIL", "NOT_RUN"}

StatusCount(records, status) == Cardinality({i \in DOMAIN records : records[i].status = status})

DriftCountsHold(report) ==
    /\ report.total = Len(report.records)
    /\ report.matches = StatusCount(report.records, "MATCH")
    /\ report.drifts = StatusCount(report.records, "DRIFT")
    /\ report.errors = StatusCount(report.records, "ERROR")

DifferentialReportHolds(report, p) ==
    LET cases == AcceptedCases(p) IN
    /\ DriftCountsHold(report)
    /\ CoversCases(report.records, cases)
    /\ \A i \in DOMAIN report.records :
        LET r == report.records[i] IN
        /\ r.input = ById(cases, r.caseId).input
        /\ r.expected = ResultFor(p.opaResults.results, r.caseId).result.decision
        /\ r.actual \in Decisions \cup {None}
        /\ r.status = (IF r.actual = None THEN "ERROR"
                       ELSE IF r.actual = r.expected THEN "MATCH" ELSE "DRIFT")
        /\ r.status = "MATCH" => r.defectIds = {}
    /\ report.clusters = DefectClusters(report.records)

SeededWitnesses ==
    { <<"D01", "DAY_14_INCLUSIVE">>, <<"D02", "USAGE_2000_INCLUSIVE">>,
      <<"D03", "FINAL_SALE_PRECEDENCE">> }

BaselineDrifts(p) ==
    /\ DifferentialReportHolds(p.driftBefore, p)
    /\ p.driftBefore = p.appBefore
    /\ p.verification.driftBefore = p.driftBefore.drifts
    /\ \A w \in SeededWitnesses :
        LET r == ResultFor(p.driftBefore.records, <<w[1]>>)
        IN r.status = "DRIFT" /\ w[2] \in r.defectIds

-----------------------------------------------------------------------------
(* Mutation, traceability and the scorecard.                               *)

(* The counts, the witnesses and the survivors are those of the suite run  *)
(* again, so they agree with one another.                                  *)
MutationReportHolds(p) ==
    /\ p.verification.mutation = [killed |-> p.mutationReport.suite.killed,
                                  total |-> p.mutationReport.suite.total,
                                  executionMode |-> p.mutationReport.executionMode]
    /\ p.mutationReport.executionMode \in {"REFERENCE_EVALUATOR_NOT_OPA", "OPA_CLI"}
    /\ OfflineMutationSuite(p.policyIr, AcceptedCases(p)) = {p.mutationReport.suite}

MutantHashes(mutants) ==
    [i \in DOMAIN mutants |-> [mutantId |-> mutants[i].id, policySha256 |-> Hash(mutants[i].policy)]]

MutationRunHolds(p) ==
    /\ p.mutationRun.total = p.mutationReport.suite.total
    /\ p.mutationRun.reportSha256 = Hash(p.mutationReport)
    /\ \E mutants \in PolicyMutants(p.policyIr, AcceptedCases(p)) :
        /\ p.mutationRun.mutantPolicyHashes = MutantHashes(mutants)
        /\ DOMAIN p.mutationRun.opaResultHashes \subseteq Ids(mutants)

(* OPA's answers for every mutant give the witnesses the report names.     *)
MutationOpaHolds(p, runId) ==
    LET results == p.mutationReport.suite.results
        receipts == p.mutationOpa.results
        cases == AcceptedCases(p)
        witnesses(receipt) ==
            {receipt.results[i].caseId : i \in {j \in DOMAIN receipt.results :
                receipt.results[j].result.decision
                    # ById(cases, receipt.results[j].caseId).expectedDecision}}
    IN /\ p.mutationOpa.status = "PASS" /\ p.mutationOpa.executionMode = "OPA_CLI"
       /\ p.mutationOpa.runId = runId
       /\ Len(receipts) = Len(results)
       /\ \A i \in DOMAIN results : \E j \in DOMAIN receipts :
            LET receipt == receipts[j] IN
            /\ receipt.mutantId = results[i].mutantId
            /\ receipt.policySha256 = p.mutationRun.mutantPolicyHashes[i].policySha256
            /\ CoversCases(receipt.results, cases)
            /\ \A k \in DOMAIN receipt.results :
                /\ receipt.results[k].result.policyVersion = p.policyIr.version
                /\ receipt.results[k].input = ById(cases, receipt.results[k].caseId).input
            /\ witnesses(receipt) = results[i].witnessCaseIds
            /\ p.mutationRun.opaResultHashes[receipt.mutantId] = Hash(receipt)

MutationRanInOpa(p, runId) ==
    /\ p.mutationReport.executionMode = "OPA_CLI"
    /\ p.mutationRun.status = "PASS" /\ p.mutationRun.executionMode = "OPA_CLI"
    /\ p.mutationRun.runId = runId
    /\ p.mutationRun.executable = p.opaResults.executable
    /\ DOMAIN p.mutationRun.opaResultHashes = {r.mutantId : r \in ToSet(p.mutationReport.suite.results)}

Metrics(t) ==
    [clauses |-> Cardinality(DOMAIN t.clauses),
     clausesCovered |-> Cardinality(DOMAIN t.clauses \ t.uncoveredClauseIds),
     rules |-> Cardinality(DOMAIN t.rules),
     rulesCovered |-> Cardinality(DOMAIN t.rules \ t.uncoveredRuleIds),
     unlinked |-> Cardinality(t.unlinkedCodeLocationIds)]

TraceabilityHolds(p) ==
    /\ Traceability(p.policyIr, AcceptedCases(p), CodeMappings) = {p.traceability}
    /\ p.verification.traceability = Metrics(p.traceability)

TraceabilityComplete(t) ==
    /\ t.uncoveredClauseIds = {} /\ t.uncoveredRuleIds = {}
    /\ t.invalidCaseLinks = {} /\ t.unlinkedCodeLocationIds = {}

(* An ambiguity that was expected is the recorded one, as it was resolved. *)
SeededAmbiguityFacts(policy) ==
    LET found == ToSet(policy.ambiguities) \cap ToSet(FixturePolicy.ambiguities)
    IN [found |-> Cardinality(found), mislabeled |-> Len(policy.ambiguities) - Cardinality(found)]

Enough(killed, total) == 10 * killed >= 9 * total

Metric(value, target, met) == [value |-> value, target |-> target, met |-> met]
Met(condition) == IF condition THEN "PASS" ELSE "FAIL"
NotRun(target) == Metric(NoCount, target, "NOT_RUN")

(* What a scorecard says in either mode, derived from the other files.     *)
CommonMetrics(p) ==
    LET facts == SeededAmbiguityFacts(p.policyIr)
        cases == AcceptedCases(p)
        boundary == Cardinality({i \in DOMAIN cases : cases[i].source = "BOUNDARY"})
        suite == p.mutationReport.suite
        t == p.traceability
        casesLinked == Len(cases) - Cardinality(t.invalidCaseLinks)
    IN [ambiguitiesFound |-> Metric(facts.found, 3, Met(facts.found = 3)),
        mislabeled |-> Metric(facts.mislabeled, 0, Met(facts.mislabeled = 0)),
        golden |-> Metric(Len(p.goldenCases), Len(p.goldenCases), "PASS"),
        boundary |-> Metric(boundary, boundary, "PASS"),
        seededDrift |-> Metric(3, 3, "PASS"),
        corpus |-> Metric(Len(cases), AcceptedCaseMinimum, Met(Len(cases) >= AcceptedCaseMinimum)),
        opa |-> Metric(Len(p.opaResults.results), Len(cases),
                       Met(Len(p.opaResults.results) = Len(cases))),
        mutation |-> Metric(<<suite.killed, suite.total>>, <<9, 10>>,
                            Met(Enough(suite.killed, suite.total))),
        ruleClause |-> Metric(Metrics(t).rulesCovered, Metrics(t).rules,
                              Met(t.uncoveredRuleIds = {})),
        ruleCase |-> Metric(casesLinked, Len(cases), Met(t.invalidCaseLinks = {}))]

PartialMetrics(p) ==
    CommonMetrics(p) @@
    [structuredOutput |-> NotRun(1), postRepairDrift |-> NotRun(0),
     evaluationOnlyDrift |-> Metric(p.verification.evaluationOnlyDrift, 0,
                                    Met(p.verification.evaluationOnlyDrift = 0)),
     security |-> NotRun(0), browser |-> NotRun(1)]

LiveMetrics(p) ==
    CommonMetrics(p) @@
    [structuredOutput |-> Metric(1, 1, "PASS"), postRepairDrift |-> Metric(0, 0, "PASS"),
     security |-> Metric(0, 0, "PASS"), browser |-> Metric(1, 1, "PASS")]

ScorecardHolds(p, status, mode, runId, metrics) ==
    p.scorecard = [status |-> status, evidenceMode |-> mode, runId |-> runId, metrics |-> metrics]

LiveScorecardHolds(p, runId) ==
    /\ \A m \in DOMAIN LiveMetrics(p) : LiveMetrics(p)[m].met = "PASS"
    /\ ScorecardHolds(p, "PASS", "LIVE_VERIFIED", runId, LiveMetrics(p))
=============================================================================
