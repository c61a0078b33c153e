------------------------- MODULE MCEvidenceDownload -------------------------
(* PublishedEvidence for TLC: two packages published one after the other    *)
(* with up to three requests, and every package that is wrong in one place *)
(* with one.  A scenario also names the policy that is compiled in it.     *)
EXTENDS PublishedEvidence

CONSTANT CompiledDecides(_)   \* of the name of a policy: DecidesAlike

-----------------------------------------------------------------------------
(* Policies with every form of predicate, their rules in another order     *)
(* than their priorities, and requests about every limit, one incomplete.  *)

NotFinal == Not(Is("finalSale", TRUE))
Large == Compare("usageBasisPoints", "gt", Num(2000))
Monthly == In("planType", {Plan("MONTHLY")})
MixedRules(first, second) ==
    << Rule("late", {"clause-2db0db31"}, first, "REVIEW", 10),
       Rule("early", {"clause-2db0db31"}, second, "ALLOW", 20),
       Rule("middle", {"clause-c74dd597"}, Is("finalSale", TRUE), "DENY", 15) >>
SomeLimit == Or(<<Monthly, Large>>)
Policies ==
    LET mixed(first, second) == [FixturePolicy EXCEPT !.rules = MixedRules(first, second)]
    IN [fixture |-> FixturePolicy,
        negatedOr |-> mixed(Not(SomeLimit), And(<<SomeLimit, NotFinal>>)),
        negatedAnd |-> mixed(Or(<<And(<<Monthly, Large>>), NotFinal>>),
                             Not(And(<<NotFinal, Or(<<Large, Is("managerApproved", TRUE)>>)>>)))]

SampleInputs ==
    { Input(days, usage, promotional, final, approved, plan) :
        days \in 13..15, usage \in {2000, 2001}, promotional \in BOOLEAN, final \in BOOLEAN,
        approved \in BOOLEAN, plan \in {"MONTHLY", "ANNUAL"} }
    \cup { [field \in InputFields \ {"planType"} |->
                Input(1, 1, FALSE, FALSE, FALSE, "MONTHLY")[field]],
           Input(-1, 1, FALSE, FALSE, FALSE, "MONTHLY"),
           Input(1, 1, FALSE, FALSE, FALSE, "WEEKLY") }

Comparison ==
    [name \in DOMAIN Policies |-> \E compiled \in CompilePolicy(Policies[name]) :
        \A input \in SampleInputs :
            {ResultOf(c) : c \in FiringClauses(compiled, input)}
                = IF ValidRefundInput(input) THEN {EvaluatePolicy(Policies[name], input)} ELSE {}]
DecidesAlike(name) == LET all == Comparison IN all[name]

(* The compiled program decides every request as the policy does: by one   *)
(* clause, that of the first rule that applies, and it decides nothing for *)
(* an incomplete request (compiler/rego.ts against policy-ir/evaluate.ts). *)
CompiledPolicyDecides == CompiledDecides(scenario.policy)

-----------------------------------------------------------------------------
MCScenarios ==
    LET Single(name, policy) == [published |-> <<name>>, requests |-> 1, policy |-> policy]
    IN { [published |-> <<"partial", "live">>, requests |-> 3, policy |-> "fixture"],
         [published |-> <<"live", "reissued">>, requests |-> 2, policy |-> "fixture"] }
       \cup {Single("partial", policy) : policy \in DOMAIN Policies}
       \cup {Single(name, "fixture") : name \in DOMAIN Packages \ GenuinePackages}
=============================================================================
