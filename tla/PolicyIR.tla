------------------------------ MODULE PolicyIR ------------------------------
(* The policy in its intermediate representation (src/src/policy-ir): what *)
(* a well-formed policy is, what it decides, and how a person's choice     *)
(* among the options of an ambiguity makes its next version.               *)
(*                                                                         *)
(* A scalar is a pair of its type and its value, so that the strict        *)
(* equality of the code is equality here.  Texts, labels and offsets are   *)
(* left out; of a clause's text the numbers it mentions are kept.  A       *)
(* function that may throw returns a set: empty when it throws, else its   *)
(* only element is what it returns.                                        *)
EXTENDS Integers, Sequences, FiniteSets, SequencesExt

None == "none"
Num(n) == <<"number", n>>
Flag(b) == <<"boolean", b>>
Plan(s) == <<"string", s>>

NumericFields == {"daysSincePurchase", "usageBasisPoints"}
BooleanFields == {"promotionalPurchase", "finalSale", "managerApproved"}
PlanTypes == {"MONTHLY", "ANNUAL", "ENTERPRISE"}
InputFields == NumericFields \cup BooleanFields \cup {"planType"}
Decisions == {"ALLOW", "DENY", "REVIEW"}
Comparisons == {"eq", "neq", "lt", "lte", "gt", "gte"}
Boundaries == {"lt", "lte", "gt", "gte"}

Compare(field, operator, value) ==
    [type |-> "compare", field |-> field, operator |-> operator, value |-> value]
In(field, values) == [type |-> "in", field |-> field, values |-> values]
And(children) == [type |-> "and", children |-> children]
Or(children) == [type |-> "or", children |-> children]
Not(child) == [type |-> "not", child |-> child]

Ids(seq) == {seq[i].id : i \in DOMAIN seq}
DistinctIds(seq) == Cardinality(Ids(seq)) = Len(seq)
ById(seq, id) == seq[CHOOSE i \in DOMAIN seq : seq[i].id = id]

-----------------------------------------------------------------------------
(* Evaluation.                                                             *)

Compares(operator, actual, value) ==
    \/ operator = "eq" /\ actual = value
    \/ operator = "neq" /\ actual # value
    \/ /\ actual[1] = "number" /\ value[1] = "number"
       /\ \/ operator = "lt" /\ actual[2] < value[2]
          \/ operator = "lte" /\ actual[2] <= value[2]
          \/ operator = "gt" /\ actual[2] > value[2]
          \/ operator = "gte" /\ actual[2] >= value[2]

RECURSIVE Holds(_, _)
Holds(p, input) ==
    CASE p.type = "compare" -> Compares(p.operator, input[p.field], p.value)
      [] p.type = "in" -> input[p.field] \in p.values
      [] p.type = "not" -> ~Holds(p.child, input)
      [] p.type = "and" -> \A i \in DOMAIN p.children : Holds(p.children[i], input)
      [] p.type = "or" -> \E i \in DOMAIN p.children : Holds(p.children[i], input)

Ordered(rules) == SortSeq(rules, LAMBDA a, b : a.priority > b.priority)

(* The first rule, in the order of the priorities, whose condition holds.  *)
EvaluatePolicy(policy, input) ==
    LET rules == Ordered(policy.rules)
        matching == SelectSeq(rules, LAMBDA r : Holds(r.when, input))
    IN IF matching = << >>
       THEN [decision |-> policy.defaultDecision, matchedRuleId |-> None,
             policyVersion |-> policy.version]
       ELSE [decision |-> Head(matching).decision, matchedRuleId |-> Head(matching).id,
             policyVersion |-> policy.version]

GoldenContradictions(policy, cases) ==
    {i \in DOMAIN cases :
        EvaluatePolicy(policy, cases[i].input).decision # cases[i].expectedDecision}

-----------------------------------------------------------------------------
(* Validation.                                                             *)

ScalarFits(field, value) ==
    \/ field \in NumericFields /\ value[1] = "number" /\ value[2] >= 0
    \/ field \in BooleanFields /\ value[1] = "boolean"
    \/ field = "planType" /\ value[1] = "string" /\ value[2] \in PlanTypes

(* A request: the six fields and no other, each of its type.               *)
ValidRefundInput(input) ==
    /\ DOMAIN input = InputFields
    /\ \A field \in NumericFields : input[field][1] = "number" /\ input[field][2] >= 0
    /\ \A field \in BooleanFields : input[field][1] = "boolean"
    /\ input.planType[1] = "string" /\ input.planType[2] \in PlanTypes

RECURSIVE WellFormedPredicate(_)
WellFormedPredicate(p) ==
    CASE p.type = "compare" ->
            /\ p.field \in InputFields
            /\ p.operator \in (IF p.field \in NumericFields THEN Comparisons ELSE {"eq", "neq"})
            /\ ScalarFits(p.field, p.value)
      [] p.type = "in" ->
            /\ p.field \in InputFields
            /\ p.values # {} /\ \A v \in p.values : ScalarFits(p.field, v)
      [] p.type = "not" -> WellFormedPredicate(p.child)
      [] p.type \in {"and", "or"} ->
            /\ Len(p.children) >= 2
            /\ \A i \in DOMAIN p.children : WellFormedPredicate(p.children[i])

RECURSIVE ComparisonCount(_, _)
ComparisonCount(p, field) ==
    CASE p.type = "compare" -> IF p.field = field THEN 1 ELSE 0
      [] p.type = "in" -> 0
      [] p.type = "not" -> ComparisonCount(p.child, field)
      [] p.type \in {"and", "or"} ->
            FoldLeft(LAMBDA n, child : n + ComparisonCount(child, field), 0, p.children)

PatchOfCategory ==
    [BOUNDARY |-> "SET_BOUNDARY_OPERATOR", PRECEDENCE |-> "SET_PRECEDENCE",
     DEFAULT |-> "SET_DEFAULT_DECISION", MEASUREMENT |-> "SET_NORMALIZATION",
     MISSING_OUTCOME |-> "SET_RULE_DECISION"]

(* A patch has the operation its category asks for and an existing target. *)
WellFormedPatch(patch, category, rules) ==
    /\ category \in DOMAIN PatchOfCategory /\ patch.op = PatchOfCategory[category]
    /\ \/ /\ patch.op = "SET_NORMALIZATION"
          /\ \/ patch.field = "purchaseDayIndex" /\ patch.value \in {"0", "1"}
             \/ patch.field = "usageMeasuredAt"
                /\ patch.value \in {"REQUEST_TIME", "DECISION_TIME"}
       \/ /\ patch.op = "SET_BOUNDARY_OPERATOR"
          /\ patch.ruleId \in Ids(rules)
          /\ patch.field \in NumericFields /\ patch.value \in Boundaries
          /\ ComparisonCount(ById(rules, patch.ruleId).when, patch.field) = 1
       \/ /\ patch.op = "SET_RULE_DECISION"
          /\ patch.ruleId \in Ids(rules) /\ patch.value \in Decisions
       \/ /\ patch.op = "SET_PRECEDENCE"
          /\ {patch.higherRuleId, patch.lowerRuleId} \subseteq Ids(rules)
          /\ patch.higherRuleId # patch.lowerRuleId
       \/ patch.op = "SET_DEFAULT_DECISION" /\ patch.value \in Decisions

ValidClauses(clauses) == clauses # << >> /\ DistinctIds(clauses)

ValidRules(rules, clauses) ==
    /\ rules # << >> /\ DistinctIds(rules)
    /\ \A i, j \in DOMAIN rules : rules[i].priority = rules[j].priority => i = j
    /\ \A i \in DOMAIN rules :
        /\ rules[i].sourceClauseIds # {} /\ rules[i].sourceClauseIds \subseteq Ids(clauses)
        /\ WellFormedPredicate(rules[i].when)
        /\ rules[i].decision \in Decisions /\ rules[i].priority >= 0

ValidAmbiguities(ambiguities, rules, clauses) ==
    /\ DistinctIds(ambiguities)
    /\ \A i \in DOMAIN ambiguities :
        LET a == ambiguities[i] IN
        /\ a.sourceClauseIds # {} /\ a.sourceClauseIds \subseteq Ids(clauses)
        /\ Len(a.options) >= 2 /\ DistinctIds(a.options)
        /\ \A o \in DOMAIN a.options :
            WellFormedPatch(a.options[o].policyPatch, a.category, rules)
        /\ \/ a.status = "OPEN" /\ a.selectedOptionId = None
           \/ a.status = "RESOLVED" /\ a.selectedOptionId \in Ids(a.options)

ParsePolicyIR(policy) ==
    IF /\ policy.version >= 1
       /\ ValidClauses(policy.clauses)
       /\ ValidRules(policy.rules, policy.clauses)
       /\ ValidAmbiguities(policy.ambiguities, policy.rules, policy.clauses)
       /\ policy.defaultDecision \in Decisions
       /\ policy.normalization.purchaseDayIndex \in {"0", "1"}
       /\ policy.normalization.usageMeasuredAt \in {"REQUEST_TIME", "DECISION_TIME"}
       /\ \/ policy.metadata.source = "RECORDED_FIXTURE"
          \/ policy.metadata.source = "LIVE_RESPONSE" /\ policy.metadata.requestId # None
    THEN {policy} ELSE {}

-----------------------------------------------------------------------------
(* Resolution of an ambiguity.                                             *)

RECURSIVE ReplaceBoundary(_, _, _)
ReplaceBoundary(p, field, operator) ==
    CASE p.type = "compare" -> IF p.field = field THEN [p EXCEPT !.operator = operator] ELSE p
      [] p.type = "in" -> p
      [] p.type = "not" -> [p EXCEPT !.child = ReplaceBoundary(@, field, operator)]
      [] p.type \in {"and", "or"} ->
            [p EXCEPT !.children = [i \in DOMAIN @ |-> ReplaceBoundary(@[i], field, operator)]]

WithRule(policy, id, Change(_)) ==
    [policy EXCEPT !.rules = [i \in DOMAIN @ |-> IF @[i].id = id THEN Change(@[i]) ELSE @[i]]]

(* The two rules change places only when the first does not already stand  *)
(* above the second.                                                       *)
ApplyPrecedence(policy, patch) ==
    LET higher == ById(policy.rules, patch.higherRuleId)
        lower == ById(policy.rules, patch.lowerRuleId)
    IN IF higher.priority > lower.priority
       THEN policy
       ELSE WithRule(
                WithRule(policy, higher.id, LAMBDA r : [r EXCEPT !.priority = lower.priority]),
                lower.id, LAMBDA r : [r EXCEPT !.priority = higher.priority])

ApplyPatch(policy, patch) ==
    CASE patch.op = "SET_NORMALIZATION" ->
            [policy EXCEPT !.normalization = [@ EXCEPT ![patch.field] = patch.value]]
      [] patch.op = "SET_BOUNDARY_OPERATOR" ->
            WithRule(policy, patch.ruleId,
                LAMBDA r : [r EXCEPT !.when = ReplaceBoundary(@, patch.field, patch.value)])
      [] patch.op = "SET_RULE_DECISION" ->
            WithRule(policy, patch.ruleId, LAMBDA r : [r EXCEPT !.decision = patch.value])
      [] patch.op = "SET_PRECEDENCE" -> ApplyPrecedence(policy, patch)
      [] patch.op = "SET_DEFAULT_DECISION" -> [policy EXCEPT !.defaultDecision = patch.value]

(* Choosing an option makes the next version, unless the option is already *)
(* the chosen one or the version would contradict a golden case.           *)
Resolve(policyValue, ambiguityId, optionId, golden) ==
    UNION {
        IF ambiguityId \notin Ids(policy.ambiguities) THEN {}
        ELSE LET ambiguity == ById(policy.ambiguities, ambiguityId) IN
             IF optionId \notin Ids(ambiguity.options) THEN {}
             ELSE IF ambiguity.selectedOptionId = optionId THEN {policy}
             ELSE LET patch == ById(ambiguity.options, optionId).policyPatch
                      chosen == [ambiguity EXCEPT !.status = "RESOLVED",
                                                  !.selectedOptionId = optionId]
                      patched == ApplyPatch(policy, patch)
                      next == [patched EXCEPT
                          !.version = @ + 1,
                          !.ambiguities = [i \in DOMAIN @ |->
                              IF @[i].id = ambiguityId THEN chosen ELSE @[i]]]
                  IN {p \in ParsePolicyIR(next) : GoldenContradictions(p, golden) = {}}
        : policy \in ParsePolicyIR(policyValue)}

(* The choices of a sequence, one after the other.                         *)
ResolveAll(policy, choices, golden) ==
    FoldLeft(LAMBDA policies, choice :
                UNION {Resolve(p, choice[1], choice[2], golden) : p \in policies},
             ParsePolicyIR(policy), choices)

ReadyToCompile(policy) ==
    \A i \in DOMAIN policy.ambiguities : policy.ambiguities[i].status # "OPEN"

-----------------------------------------------------------------------------
(* The known ambiguities of the seeded policy get their fixed ids, whatever *)
(* ids the interpreter gave them.                                          *)

Patches(options) == {options[i].policyPatch : i \in DOMAIN options}
OptionWith(options, patch) == options[CHOOSE i \in DOMAIN options : options[i].policyPatch = patch]

SameAmbiguity(ambiguity, template) ==
    /\ template.category = ambiguity.category
    /\ Len(template.options) = Len(ambiguity.options)
    /\ template.sourceClauseIds = ambiguity.sourceClauseIds
    /\ Patches(template.options) = Patches(ambiguity.options)

CanonicalizeAmbiguity(ambiguity, templates) ==
    LET matching == SelectSeq(templates, LAMBDA t : SameAmbiguity(ambiguity, t)) IN
    IF matching = << >> THEN ambiguity
    ELSE [Head(matching) EXCEPT
            !.status = ambiguity.status,
            !.selectedOptionId =
                IF ambiguity.selectedOptionId = None THEN None
                ELSE LET patch == ById(ambiguity.options, ambiguity.selectedOptionId).policyPatch
                     IN OptionWith(Head(matching).options, patch).id]

(* The hash of the source text is left out: equal clauses stand for it.    *)
IsTrustedSeededInput(policy, sourceClauses) ==
    policy.policyId = "policy-seeded-refund" /\ policy.clauses = sourceClauses

CanonicalizeKnownAmbiguities(policy, templates, sourceClauses) ==
    IF ~IsTrustedSeededInput(policy, sourceClauses) THEN policy
    ELSE [policy EXCEPT !.ambiguities =
            [i \in DOMAIN @ |-> CanonicalizeAmbiguity(@[i], templates)]]
=============================================================================
