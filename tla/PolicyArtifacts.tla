--------------------------- MODULE PolicyArtifacts ---------------------------
(* What is computed from a policy: the Rego program, the corpus of cases,  *)
(* the differential run, the mutants and the traceability and impact       *)
(* reports (src/src/compiler, opa, cases, differential, mutation,          *)
(* traceability, impact).                                                  *)
(*                                                                         *)
(* A name or an id that the code builds from parts is the sequence of its  *)
(* parts.  As in PolicyIR, a function that may throw returns a set.        *)
EXTENDS PolicyIR

-----------------------------------------------------------------------------
(* The Rego program: helper rules, each true when its literals are, and    *)
(* the clauses of one complete rule, "decision".                           *)

Literal(is, what) == [is |-> is, what |-> what]
Helper(name, body) == {[name |-> name, body |-> body]}

(* Mutant: the helper of a negation calls the other one as it is.          *)
NegationForgotten(name) == Literal("call", name)
Negation(name) == Literal("not", name)

(* The helpers of a predicate; "or" is several helpers of one name.        *)
RECURSIVE EmitPredicate(_, _)
EmitPredicate(p, name) ==
    CASE p.type \in {"compare", "in"} -> Helper(name, {Literal("test", <<p>>)})
      [] p.type = "not" ->
            EmitPredicate(p.child, Append(name, 0))
            \cup Helper(name, {Negation(Append(name, 0))})
      [] p.type = "and" ->
            UNION {EmitPredicate(p.children[i], Append(name, i)) : i \in DOMAIN p.children}
            \cup Helper(name, {Literal("call", Append(name, i)) : i \in DOMAIN p.children})
      [] p.type = "or" ->
            UNION {EmitPredicate(p.children[i], Append(name, i))
                   \cup Helper(name, {Literal("call", Append(name, i))}) : i \in DOMAIN p.children}

ValidInput(input) ==
    /\ DOMAIN input = InputFields
    /\ \A field \in InputFields : ScalarFits(field, input[field])

(* The clause of a rule excludes the rules before it.                      *)
DecisionClause(policy, predicateRule, excluded, decision, matchedRuleId) ==
    [excluded |-> excluded, predicate |-> predicateRule, decision |-> decision,
     matchedRuleId |-> matchedRuleId, policyVersion |-> policy.version]

RuleClause(policy, rules, i) ==
    DecisionClause(policy, {<<i>>}, {<<j>> : j \in 1..(i - 1)}, rules[i].decision, rules[i].id)

CompilePolicy(policyValue) ==
    {LET rules == Ordered(policy.rules) IN
        [helpers |-> UNION {EmitPredicate(rules[i].when, <<i>>) : i \in DOMAIN rules},
         clauses |-> {RuleClause(policy, rules, i) : i \in DOMAIN rules}
            \cup {DecisionClause(policy, {}, {<<i>> : i \in DOMAIN rules},
                                 policy.defaultDecision, None)},
         mappings |-> [i \in DOMAIN rules |->
            [ruleId |-> rules[i].id, sourceClauseIds |-> rules[i].sourceClauseIds]]]
     : policy \in {p \in ParsePolicyIR(policyValue) : ReadyToCompile(p)}}

(* What OPA answers: a helper is true when one of its rules is, and the    *)
(* complete rule has the value of its only true clause.                    *)
RECURSIVE HelperHolds(_, _, _)
HelperHolds(helpers, name, input) ==
    \E h \in helpers :
        /\ h.name = name
        /\ \A literal \in h.body :
            \/ literal.is = "test" /\ Holds(literal.what[1], input)
            \/ literal.is = "call" /\ HelperHolds(helpers, literal.what, input)
            \/ literal.is = "not" /\ ~HelperHolds(helpers, literal.what, input)

FiringClauses(compiled, input) ==
    {clause \in compiled.clauses :
        /\ ValidInput(input)
        /\ \A name \in clause.excluded : ~HelperHolds(compiled.helpers, name, input)
        /\ \A name \in clause.predicate : HelperHolds(compiled.helpers, name, input)}

ResultOf(clause) ==
    [decision |-> clause.decision, matchedRuleId |-> clause.matchedRuleId,
     policyVersion |-> clause.policyVersion]

(* One strict decision for every case, or an error.                        *)
RunOpaCases(compiled, cases) ==
    IF /\ cases # << >> /\ DistinctIds(cases)
       /\ \A i \in DOMAIN cases : ValidRefundInput(cases[i].input) /\
            Cardinality({ResultOf(c) : c \in FiringClauses(compiled, cases[i].input)}) = 1
    THEN {[i \in DOMAIN cases |->
            [caseId |-> cases[i].id, input |-> cases[i].input,
             result |-> ResultOf(CHOOSE c \in FiringClauses(compiled, cases[i].input) : TRUE)]]}
    ELSE {}

-----------------------------------------------------------------------------
(* The corpus.                                                             *)

RECURSIVE NumericThresholds(_, _)
NumericThresholds(p, field) ==
    CASE p.type = "compare" ->
            IF p.field = field /\ p.value[1] = "number" /\ p.operator \in Boundaries
            THEN {p.value[2]} ELSE {}
      [] p.type = "in" -> {}
      [] p.type = "not" -> NumericThresholds(p.child, field)
      [] p.type \in {"and", "or"} ->
            UNION {NumericThresholds(p.children[i], field) : i \in DOMAIN p.children}

ThresholdValues(policy, field) ==
    UNION {NumericThresholds(policy.rules[i].when, field) : i \in DOMAIN policy.rules}

Ascending(numbers) == SetToSortSeq(numbers, LAMBDA a, b : a < b)
Neighbors(values) ==
    Ascending(UNION {{IF v = 0 THEN 0 ELSE v - 1, v, v + 1} : v \in values})

Input(days, usage, promotional, finalSale, approved, plan) ==
    [daysSincePurchase |-> Num(days), usageBasisPoints |-> Num(usage),
     promotionalPurchase |-> Flag(promotional), finalSale |-> Flag(finalSale),
     managerApproved |-> Flag(approved), planType |-> Plan(plan)]

Candidate(source, input) == [source |-> source, input |-> input]

(* At every pair of threshold neighbours an ordinary request and the two   *)
(* promotional ones; then the final sales, then one that nothing matches.  *)
NeighborCandidates(days, usage) ==
    << Candidate("BOUNDARY", Input(days, usage, FALSE, FALSE, FALSE, "MONTHLY")),
       Candidate("MINIMAL_CONTRAST", Input(days, usage, TRUE, FALSE, FALSE, "MONTHLY")),
       Candidate("MINIMAL_CONTRAST", Input(days, usage, TRUE, FALSE, TRUE, "MONTHLY")) >>

GeneratedCandidates(policy) ==
    LET dayThresholds == ThresholdValues(policy, "daysSincePurchase")
        usageThresholds == ThresholdValues(policy, "usageBasisPoints")
        days == Neighbors(dayThresholds)
        usages == Neighbors(usageThresholds)
        exactDay == Max(dayThresholds)
        exactUsage == Max(usageThresholds)
        pairs == [n \in 1..(Len(days) * Len(usages)) |->
                    NeighborCandidates(days[1 + ((n - 1) \div Len(usages))],
                                       usages[1 + ((n - 1) % Len(usages))])]
        finalSale(promotional, approved) ==
            Candidate("CONFLICT",
                Input(exactDay, exactUsage, promotional, TRUE, approved, "MONTHLY"))
    IN FlattenSeq(pairs)
       \o << finalSale(FALSE, FALSE), finalSale(FALSE, TRUE),
             finalSale(TRUE, FALSE), finalSale(TRUE, TRUE),
             Candidate("GENERATED",
                Input(exactDay + 16, IF exactUsage < 500 THEN exactUsage ELSE 500,
                      FALSE, FALSE, FALSE, "ENTERPRISE")) >>

(* An ambiguity about the default explains what no rule decides.           *)
DefaultClauses(policy) ==
    LET chosen == SelectSeq(policy.ambiguities,
                    LAMBDA a : a.category = "DEFAULT" /\ a.status = "RESOLVED")
    IN IF chosen = << >> THEN {} ELSE Head(chosen).sourceClauseIds

GeneratedCase(policy, candidate) ==
    LET result == EvaluatePolicy(policy, candidate.input)
    IN [id |-> <<candidate.source, candidate.input>>, input |-> candidate.input,
        expectedDecision |-> result.decision, source |-> candidate.source,
        relatedRuleIds |-> {result.matchedRuleId} \ {None},
        relatedClauseIds |-> IF result.matchedRuleId = None THEN DefaultClauses(policy)
                             ELSE ById(policy.rules, result.matchedRuleId).sourceClauseIds]

(* The first case of an input stands: golden before required before        *)
(* generated.                                                              *)
AddUnlessPresent(cases, new) ==
    FoldLeft(LAMBDA known, case :
                IF \E i \in DOMAIN known : known[i].input = case.input
                THEN known ELSE Append(known, case),
             cases, new)

ConflictingGolden(golden) ==
    \E i, j \in DOMAIN golden :
        golden[i].input = golden[j].input
        /\ golden[i].expectedDecision # golden[j].expectedDecision

CaseCorpus(policyValue, golden, required) ==
    {LET candidates == GeneratedCandidates(policy)
         generated == [i \in DOMAIN candidates |-> GeneratedCase(policy, candidates[i])]
     IN AddUnlessPresent(AddUnlessPresent(AddUnlessPresent(<< >>, golden), required), generated)
     : policy \in {p \in ParsePolicyIR(policyValue) :
            /\ ReadyToCompile(p)
            /\ GoldenContradictions(p, golden) = {}
            /\ ~ConflictingGolden(golden)
            /\ GoldenContradictions(p, required) = {}
            /\ ThresholdValues(p, "daysSincePurchase") # {}
            /\ ThresholdValues(p, "usageBasisPoints") # {}}}

IdsWhere(cases, Chosen(_)) == {cases[i].id : i \in {j \in DOMAIN cases : Chosen(cases[j])}}

(* Pairs of rules that decide some case differently, the winner first.     *)
ConflictsOf(policy, case) ==
    LET matching == SelectSeq(Ordered(policy.rules), LAMBDA r : Holds(r.when, case.input))
    IN {<<matching[i].id, matching[j].id>> :
            <<i, j>> \in {p \in (DOMAIN matching) \X (DOMAIN matching) :
                p[1] < p[2] /\ matching[p[1]].decision # matching[p[2]].decision}}

ConflictWitnesses(policy, cases) ==
    LET pairs == UNION {ConflictsOf(policy, cases[i]) : i \in DOMAIN cases}
    IN [pair \in pairs |-> IdsWhere(cases, LAMBDA c : pair \in ConflictsOf(policy, c))]

-----------------------------------------------------------------------------
(* The differential run of an application against the policy.              *)

Defects(input, expected, actual) ==
    LET final == input.finalSale = Flag(TRUE)
        approved == input.promotionalPurchase = Flag(TRUE) /\ input.managerApproved = Flag(TRUE)
        known ==
            {d \in {"FINAL_SALE_PRECEDENCE", "DAY_14_INCLUSIVE", "USAGE_2000_INCLUSIVE",
                    "PROMOTION_ELIGIBILITY_BYPASS"} :
                \/ /\ d = "FINAL_SALE_PRECEDENCE" /\ final /\ approved
                   /\ expected = "DENY" /\ actual = "ALLOW"
                \/ /\ d = "DAY_14_INCLUSIVE" /\ ~final
                   /\ input.daysSincePurchase = Num(14)
                   /\ expected # "DENY" /\ actual = "DENY"
                \/ /\ d = "USAGE_2000_INCLUSIVE" /\ ~final
                   /\ input.usageBasisPoints = Num(2000)
                   /\ expected # "DENY" /\ actual = "DENY"
                \/ /\ d = "PROMOTION_ELIGIBILITY_BYPASS" /\ ~final /\ approved
                   /\ (input.daysSincePurchase[2] > 14 \/ input.usageBasisPoints[2] > 2000)
                   /\ expected = "DENY" /\ actual = "ALLOW"}
    IN IF expected = actual THEN {} ELSE IF known = {} THEN {"UNCLASSIFIED"} ELSE known

DifferentialRecord(policy, case, decision) ==
    LET expected == EvaluatePolicy(policy, case.input).decision
    IN [caseId |-> case.id, input |-> case.input, expected |-> expected, actual |-> decision,
        status |-> IF decision = expected THEN "MATCH" ELSE "DRIFT",
        defectIds |-> Defects(case.input, expected, decision)]

(* The actual decisions are what the application answers, case by case.    *)
AnswersOf(Application(_), cases) == [i \in DOMAIN cases |-> Application(cases[i].input)]
Differential(policyValue, cases, actual) ==
    {[i \in DOMAIN cases |-> DifferentialRecord(policy, cases[i], actual[i])]
     : policy \in ParsePolicyIR(policyValue)}

DefectClusters(records) ==
    LET found == UNION {records[i].defectIds : i \in DOMAIN records}
    IN [d \in found |-> {records[i].caseId : i \in {j \in DOMAIN records : d \in records[j].defectIds}}]

-----------------------------------------------------------------------------
(* The mutants of a policy and the report on the cases that kill them.     *)

RECURSIVE Locations(_, _)
Locations(p, path) ==
    <<[path |-> path, predicate |-> p]>>
    \o (CASE p.type \in {"compare", "in"} -> << >>
          [] p.type = "not" -> Locations(p.child, Append(path, 1))
          [] p.type \in {"and", "or"} ->
             FlattenSeq([i \in DOMAIN p.children |-> Locations(p.children[i], Append(path, i))]))

RECURSIVE ReplacePath(_, _, _)
ReplacePath(p, path, replacement) ==
    IF path = << >> THEN replacement
    ELSE IF p.type = "not" THEN [p EXCEPT !.child = ReplacePath(@, Tail(path), replacement)]
    ELSE [p EXCEPT !.children[Head(path)] = ReplacePath(@, Tail(path), replacement)]

(* The mutations of one predicate, in the order of the code.               *)
PredicateMutations(p) ==
    LET one(condition, operator, mutated) ==
            IF condition THEN << [operator |-> operator, predicate |-> mutated] >> ELSE << >>
        compare == p.type = "compare"
        numeric == compare /\ p.value[1] = "number"
    IN one(compare /\ p.operator = "lte", "LTE_TO_LT", [p EXCEPT !.operator = "lt"])
       \o one(compare /\ p.operator = "gte", "GTE_TO_GT", [p EXCEPT !.operator = "gt"])
       \o one(compare /\ p.value[1] = "boolean", "BOOLEAN_INVERT",
              [p EXCEPT !.value = Flag(~@[2])])
       \o one(numeric /\ p.value[2] > 0, "THRESHOLD_MINUS_ONE", [p EXCEPT !.value = Num(@[2] - 1)])
       \o one(numeric, "THRESHOLD_PLUS_ONE", [p EXCEPT !.value = Num(@[2] + 1)])
       \o one(p.type = "and", "AND_TO_OR", [p EXCEPT !.type = "or"])
       \o (IF p.type \in {"and", "or"} /\ Len(p.children) > 2
           THEN [i \in DOMAIN p.children |->
                    [operator |-> "PREDICATE_DELETE",
                     predicate |-> [p EXCEPT !.children = RemoveAt(@, i)]]]
           ELSE << >>)

MutantsAt(policy, r, location) ==
    LET mutations == PredicateMutations(location.predicate)
    IN [i \in DOMAIN mutations |->
        [operator |-> mutations[i].operator,
         policy |-> [policy EXCEPT !.rules[r].when =
                        ReplacePath(@, location.path, mutations[i].predicate)]]]

RuleMutants(policy, r) ==
    LET locations == Locations(policy.rules[r].when, << >>)
    IN FlattenSeq([l \in DOMAIN locations |-> MutantsAt(policy, r, locations[l])])

SwapPriorities(policy, first, second) ==
    LET a == ById(policy.rules, first).priority
        b == ById(policy.rules, second).priority
    IN WithRule(WithRule(policy, first, LAMBDA r : [r EXCEPT !.priority = b]),
                second, LAMBDA r : [r EXCEPT !.priority = a])

PriorityMutants(policy, cases) ==
    LET pairs == SetToSeq(DOMAIN ConflictWitnesses(policy, cases))
    IN [i \in DOMAIN pairs |->
        [operator |-> "PRIORITY_SWAP", policy |-> SwapPriorities(policy, pairs[i][1], pairs[i][2])]]

RuleDeletions(policy) ==
    [r \in DOMAIN policy.rules |->
        [operator |-> "RULE_DELETE", policy |-> [policy EXCEPT !.rules = RemoveAt(@, r)]]]

DefaultMutants(policy) ==
    LET others == SelectSeq(<<"ALLOW", "DENY", "REVIEW">>, LAMBDA d : d # policy.defaultDecision)
    IN [i \in DOMAIN others |->
        [operator |-> "DEFAULT_CHANGE", policy |-> [policy EXCEPT !.defaultDecision = others[i]]]]

(* Every mutant is parsed: one that is not a policy makes the whole fail.  *)
PolicyMutants(policyValue, cases) ==
    UNION {
        LET mutants == FlattenSeq([r \in DOMAIN policy.rules |-> RuleMutants(policy, r)])
                       \o PriorityMutants(policy, cases)
                       \o RuleDeletions(policy) \o DefaultMutants(policy)
        IN IF \A i \in DOMAIN mutants : ParsePolicyIR(mutants[i].policy) # {}
           THEN {[i \in DOMAIN mutants |->
                    [id |-> <<i, mutants[i].operator>>, policy |-> mutants[i].policy]]}
           ELSE {}
        : policy \in ParsePolicyIR(policyValue)}

Witnesses(policy, cases) ==
    IdsWhere(cases, LAMBDA c : EvaluatePolicy(policy, c.input).decision # c.expectedDecision)

(* The results, the killed and the survivors: ids of mutants.              *)
MutationReport(mutants, cases) ==
    LET results == [i \in DOMAIN mutants |->
            [mutantId |-> mutants[i].id, operator |-> mutants[i].id[2],
             witnessCaseIds |-> Witnesses(mutants[i].policy, cases)]]
        survivors == {results[i].mutantId : i \in {j \in DOMAIN results : results[j].witnessCaseIds = {}}}
    IN [results |-> results, total |-> Len(results),
        killed |-> Len(results) - Cardinality(survivors), survivors |-> survivors]

OfflineMutationSuite(policyValue, cases) ==
    {MutationReport(mutants, cases) : mutants \in PolicyMutants(policyValue, cases)}

-----------------------------------------------------------------------------
(* Traceability and impact.                                                *)

CodeMapping(id, ruleIds) == [id |-> id, ruleIds |-> ruleIds]
CodeMappings ==
    LET window == {"promotion-approved", "promotion-review", "refund-eligible"}
    IN { CodeMapping("code-day-window", window),
         CodeMapping("code-usage-window", window),
         CodeMapping("code-promotion-approved", {"promotion-approved"}),
         CodeMapping("code-final-sale", {"final-sale-deny"}),
         CodeMapping("code-promotion-review", {"promotion-review"}),
         CodeMapping("code-standard-allow", {"refund-eligible"}) }

Traceability(policyValue, cases, mappings) ==
    {LET rules == {policy.rules[i] : i \in DOMAIN policy.rules}
         clauses == [c \in Ids(policy.clauses) |->
            [ruleIds |-> {r.id : r \in {x \in rules : c \in x.sourceClauseIds}},
             caseIds |-> IdsWhere(cases, LAMBDA k : c \in k.relatedClauseIds)]]
         byRule == [id \in {r.id : r \in rules} |->
            [clauseIds |-> ById(policy.rules, id).sourceClauseIds,
             caseIds |-> IdsWhere(cases, LAMBDA k : id \in k.relatedRuleIds),
             codeLocationIds |-> {m.id : m \in {x \in mappings : id \in x.ruleIds}}]]
     IN [policyVersion |-> policy.version, clauses |-> clauses, rules |-> byRule,
         uncoveredClauseIds |-> {c \in DOMAIN clauses :
            clauses[c].ruleIds = {} \/ clauses[c].caseIds = {}},
         uncoveredRuleIds |-> {r \in DOMAIN byRule :
            byRule[r].caseIds = {} \/ byRule[r].codeLocationIds = {}},
         invalidCaseLinks |-> IdsWhere(cases, LAMBDA k :
            \/ k.relatedClauseIds = {}
            \/ ~(k.relatedClauseIds \subseteq Ids(policy.clauses))
            \/ ~(k.relatedRuleIds \subseteq Ids(policy.rules))),
         unlinkedCodeLocationIds |-> {m.id : m \in {x \in mappings : x.ruleIds = {}}}]
     : policy \in {p \in ParsePolicyIR(policyValue) :
            \A m \in mappings : m.ruleIds \subseteq Ids(p.rules)}}

RECURSIVE RewriteDays(_, _, _)
RewriteDays(p, from, to) ==
    CASE p.type = "compare" ->
            IF p.field = "daysSincePurchase" /\ p.value = Num(from)
            THEN [p EXCEPT !.value = Num(to)] ELSE p
      [] p.type = "in" -> p
      [] p.type = "not" -> [p EXCEPT !.child = RewriteDays(@, from, to)]
      [] p.type \in {"and", "or"} ->
            [p EXCEPT !.children = [i \in DOMAIN @ |-> RewriteDays(@[i], from, to)]]

RECURSIVE DayThresholds(_)
DayThresholds(p) ==
    CASE p.type = "compare" ->
            IF p.field = "daysSincePurchase" /\ p.value[1] = "number" THEN {p.value[2]} ELSE {}
      [] p.type = "in" -> {}
      [] p.type = "not" -> DayThresholds(p.child)
      [] p.type \in {"and", "or"} -> UNION {DayThresholds(p.children[i]) : i \in DOMAIN p.children}

PolicyDays(policy) == UNION {DayThresholds(policy.rules[i].when) : i \in DOMAIN policy.rules}

DaysThresholdVersion(policyValue, new) ==
    UNION {
        LET old == CHOOSE d \in PolicyDays(policy) : TRUE
        IN ParsePolicyIR([policy EXCEPT
            !.version = @ + 1,
            !.clauses = [i \in DOMAIN @ |-> [@[i] EXCEPT !.mentions =
                {IF n = old THEN new ELSE n : n \in @}]],
            !.rules = [i \in DOMAIN @ |-> [@[i] EXCEPT !.when = RewriteDays(@, old, new)]]])
        : policy \in {p \in ParsePolicyIR(policyValue) :
            Cardinality(PolicyDays(p)) = 1 /\ new \notin PolicyDays(p)}}

PolicyImpact(beforeValue, afterValue, cases, goldenIds, mappings) ==
    {LET before == versions[1]
         after == versions[2]
         changedIn(old, new) == {i \in DOMAIN old : old[i] # new[i]}
         changedRules == {before.rules[i].id : i \in changedIn(before.rules, after.rules)}
         changedCases == IdsWhere(cases, LAMBDA c :
            EvaluatePolicy(before, c.input).decision # EvaluatePolicy(after, c.input).decision)
     IN [fromVersion |-> before.version, toVersion |-> after.version,
         from |-> PolicyDays(before), to |-> PolicyDays(after),
         changedClauses |-> {before.clauses[i].id : i \in changedIn(before.clauses, after.clauses)},
         changedRules |-> changedRules, changedCases |-> changedCases,
         goldenContradictionCaseIds |-> changedCases \cap goldenIds,
         verificationState |-> IF changedCases \cap goldenIds # {}
                               THEN "BLOCKED_BY_GOLDEN_CONTRADICTION" ELSE "READY_FOR_REVIEW",
         potentialCodeLocations |-> {m.id : m \in {x \in mappings : x.ruleIds \cap changedRules # {}}}]
     : versions \in {v \in ParsePolicyIR(beforeValue) \X ParsePolicyIR(afterValue) :
            /\ v[2].version = v[1].version + 1
            /\ Cardinality(PolicyDays(v[1])) = 1 /\ Cardinality(PolicyDays(v[2])) = 1}}
=============================================================================
