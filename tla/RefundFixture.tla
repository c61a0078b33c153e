---------------------------- MODULE RefundFixture ----------------------------
(* The seeded refund policy and its cases, as the repository ships them    *)
(* (src/fixtures), and the two versions of the program they are about.     *)
EXTENDS PolicyArtifacts

Clause(id, mentions) == [id |-> id, mentions |-> mentions]
SourceClauses ==
    << Clause("clause-2db0db31", {14, 2000}), Clause("clause-68b8918e", {}),
       Clause("clause-83647cb3", {}), Clause("clause-c74dd597", {}) >>

Rule(id, clauses, when, decision, priority) ==
    [id |-> id, sourceClauseIds |-> clauses, when |-> when, decision |-> decision,
     priority |-> priority]

WithinLimits == << Compare("daysSincePurchase", "lte", Num(14)),
                   Compare("usageBasisPoints", "lte", Num(2000)) >>
Is(field, value) == Compare(field, "eq", Flag(value))

Rules ==
    << Rule("final-sale-deny", {"clause-c74dd597"}, Is("finalSale", TRUE), "DENY", 400),
       Rule("promotion-approved", {"clause-2db0db31", "clause-68b8918e"},
            And(WithinLimits \o <<Is("promotionalPurchase", TRUE), Is("managerApproved", TRUE)>>),
            "ALLOW", 300),
       Rule("promotion-review", {"clause-2db0db31", "clause-68b8918e", "clause-83647cb3"},
            And(WithinLimits \o <<Is("promotionalPurchase", TRUE), Is("managerApproved", FALSE)>>),
            "REVIEW", 200),
       Rule("refund-eligible", {"clause-2db0db31"},
            And(WithinLimits \o <<Is("promotionalPurchase", FALSE)>>), "ALLOW", 100) >>

Option(id, patch) == [id |-> id, policyPatch |-> patch]
Normalization(field, value) == [op |-> "SET_NORMALIZATION", field |-> field, value |-> value]
Default(decision) == [op |-> "SET_DEFAULT_DECISION", value |-> decision]
Ambiguity(id, category, options) ==
    [id |-> id, category |-> category, sourceClauseIds |-> {"clause-2db0db31"},
     options |-> options, status |-> "OPEN", selectedOptionId |-> None]

Ambiguities ==
    << Ambiguity("ambiguity-purchase-day-index", "MEASUREMENT",
            << Option("purchase-day-zero", Normalization("purchaseDayIndex", "0")),
               Option("purchase-day-one", Normalization("purchaseDayIndex", "1")) >>),
       Ambiguity("ambiguity-usage-measurement-time", "MEASUREMENT",
            << Option("usage-at-request", Normalization("usageMeasuredAt", "REQUEST_TIME")),
               Option("usage-at-decision", Normalization("usageMeasuredAt", "DECISION_TIME")) >>),
       Ambiguity("ambiguity-default-decision", "DEFAULT",
            << Option("default-deny", Default("DENY")), Option("default-review", Default("REVIEW")) >>) >>

RecordedPolicy ==
    [policyId |-> "policy-seeded-refund", version |-> 1, clauses |-> SourceClauses,
     rules |-> Rules, ambiguities |-> Ambiguities, defaultDecision |-> "DENY",
     normalization |-> [purchaseDayIndex |-> "0", usageMeasuredAt |-> "REQUEST_TIME"],
     metadata |-> [source |-> "RECORDED_FIXTURE", requestId |-> None]]

Case(id, input, decision, source, rules, clauses) ==
    [id |-> <<id>>, input |-> input, expectedDecision |-> decision, source |-> source,
     relatedRuleIds |-> rules, relatedClauseIds |-> clauses]
Golden(id, input, decision, rules, clauses) ==
    Case(id, input, decision, "USER_GOLDEN", rules, clauses)

GoldenCases ==
    << Golden("G01", Input(3, 500, FALSE, FALSE, FALSE, "MONTHLY"), "ALLOW",
              {"refund-eligible"}, {"clause-2db0db31"}),
       Golden("G02", Input(20, 0, FALSE, FALSE, FALSE, "ANNUAL"), "DENY",
              {}, {"clause-2db0db31"}),
       Golden("G03", Input(2, 0, TRUE, FALSE, FALSE, "MONTHLY"), "REVIEW",
              {"promotion-review"}, {"clause-68b8918e", "clause-83647cb3"}),
       Golden("G04", Input(2, 0, TRUE, FALSE, TRUE, "ENTERPRISE"), "ALLOW",
              {"promotion-approved"}, {"clause-2db0db31", "clause-68b8918e"}),
       Golden("G05", Input(2, 0, FALSE, TRUE, FALSE, "MONTHLY"), "DENY",
              {"final-sale-deny"}, {"clause-c74dd597"}),
       Golden("G06", Input(2, 0, TRUE, TRUE, TRUE, "ANNUAL"), "DENY",
              {"final-sale-deny", "promotion-approved"},
              {"clause-c74dd597", "clause-2db0db31", "clause-68b8918e"}) >>

DriftCases ==
    << Case("D01", Input(14, 500, FALSE, FALSE, FALSE, "MONTHLY"), "ALLOW", "BOUNDARY",
            {"refund-eligible"}, {"clause-2db0db31"}),
       Case("D02", Input(3, 2000, FALSE, FALSE, FALSE, "ANNUAL"), "ALLOW", "BOUNDARY",
            {"refund-eligible"}, {"clause-2db0db31"}),
       Case("D03", Input(2, 500, TRUE, TRUE, TRUE, "ENTERPRISE"), "DENY", "CONFLICT",
            {"final-sale-deny", "promotion-approved"},
            {"clause-c74dd597", "clause-2db0db31", "clause-68b8918e"}) >>

True(input, field) == input[field] = Flag(TRUE)

(* The program with its seeded defects, and the corrected one.             *)
BaselineDecide(input) ==
    IF True(input, "promotionalPurchase") /\ True(input, "managerApproved") THEN "ALLOW"
    ELSE IF True(input, "finalSale") THEN "DENY"
    ELSE IF input.daysSincePurchase[2] >= 14 \/ input.usageBasisPoints[2] >= 2000 THEN "DENY"
    ELSE IF True(input, "promotionalPurchase") THEN "REVIEW"
    ELSE "ALLOW"

FixedDecide(input) ==
    IF True(input, "finalSale") THEN "DENY"
    ELSE IF input.daysSincePurchase[2] > 14 \/ input.usageBasisPoints[2] > 2000 THEN "DENY"
    ELSE IF True(input, "promotionalPurchase")
         THEN IF True(input, "managerApproved") THEN "ALLOW" ELSE "REVIEW"
    ELSE "ALLOW"
=============================================================================
