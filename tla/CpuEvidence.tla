---------------------------- MODULE CpuEvidence ----------------------------
(***************************************************************************)
(* What the reader of CPU evidence accepts                                 *)
(* (src/src/codex/live-linux-cgroup-cpu-evidence-v2.ts).  Evidence carries *)
(* the transcript of a session: the place of an event in it stands for its *)
(* sequence number and for its timestamp, both strictly increasing.  The   *)
(* identities and hashes of request, roles and transcript are left out:    *)
(* the producer computes them with the functions the reader compares with. *)
(***************************************************************************)
EXTENDS Integers, Sequences, FiniteSets, SequencesExt

CONSTANTS
  Budget,      \* CPU the request grants, budgetUsec
  MaxEvents,   \* bound of a transcript, 4096 in the code
  MaxSamples   \* bound of the samples of a role, 1024 in the code

ASSUME EvidenceAssumption ==
  Budget \in Nat \ {0} /\ MaxEvents \in Nat /\ MaxSamples \in Nat

RoleOrder == <<"egress", "worker", "verifier">>
Roles == {"egress", "worker", "verifier"}
PlaceOf == [egress |-> 1, worker |-> 2, verifier |-> 3]

\* Of what some roles have, the sum.
SumOf(f) ==
  LET part(r) == IF r \in DOMAIN f THEN f[r] ELSE 0
  IN part("egress") + part("worker") + part("verifier")

Codes == {"CGROUP_BIND_FAILED", "CPU_STAT_READ_FAILED", "CPU_COUNTER_REGRESSION",
          "ROLE_IDENTITY_DRIFT", "CPU_BUDGET_EXCEEDED", "CONTAINMENT_ACTION_FAILED",
          "CONTROLLER_STOP_FAILED", "CGROUP_RELEASE_FAILED"}

\* A code that says itself that something was left behind.
CleanupCodes == {"CONTAINMENT_ACTION_FAILED", "CONTROLLER_STOP_FAILED", "CGROUP_RELEASE_FAILED"}

RoleEvents == {"ROLE_CGROUP_BOUND", "ROLE_EXECUTION_STARTED", "ROLE_EXECUTION_STOPPED",
               "ROLE_CGROUP_RELEASED"}
Event ==
  [type : {"CONTROLLER_STARTED", "CONTROLLER_STOPPED"}]
  \cup [type : RoleEvents, role : Roles]
  \cup [type : {"ROLE_CPU_SAMPLE"}, role : Roles, index : Nat, usage : Nat]
  \cup [type : {"FAILURE_OBSERVED"}, code : Codes]
  \cup [type : {"CONTAINMENT_ACTION"}, action : {"FREEZE", "KILL", "REAP"},
        result : {"SUCCEEDED", "FAILED"}]

----------------------------------------------------------------------------
(* Transcripts                                                             *)

\* Where events of a type stand, and those of one role.
At(events, type) == {i \in DOMAIN events : events[i].type = type}
AtRole(events, type, r) == {i \in At(events, type) : events[i].role = r}

Before(S, T) == \A i \in S, j \in T : i < j

ParsesEvents(events) == Len(events) \in 2..MaxEvents

NeverFalls(samples) == \A i \in 2..Len(samples) : samples[i - 1] <= samples[i]

----------------------------------------------------------------------------
(* Evidence of a session that ran to its end                               *)

\* Samples and arithmetic of one role.
ParsesRoleProof(p) ==
  /\ Len(p.samples) \in 2..MaxSamples
  /\ NeverFalls(p.samples)
  /\ Len(p.sampleAt) = Len(p.samples)
  /\ \A k \in 2..Len(p.sampleAt) : p.sampleAt[k - 1] < p.sampleAt[k]
  /\ p.baseline = Head(p.samples) /\ p.final = Last(p.samples)
  /\ p.delta = p.final - p.baseline

\* The proof points at the events it is about, and its samples bracket the
\* execution: the first before it, the last after it, the others inside.
LinksRoleEvents(events, r, p) ==
  /\ \A i \in {p.boundAt, p.startedAt, p.stoppedAt, p.releasedAt} : i \in DOMAIN events
  /\ p.boundAt \in AtRole(events, "ROLE_CGROUP_BOUND", r)
  /\ p.startedAt \in AtRole(events, "ROLE_EXECUTION_STARTED", r)
  /\ p.stoppedAt \in AtRole(events, "ROLE_EXECUTION_STOPPED", r)
  /\ p.releasedAt \in AtRole(events, "ROLE_CGROUP_RELEASED", r)
  /\ p.boundAt < p.startedAt /\ p.startedAt < p.stoppedAt /\ p.stoppedAt < p.releasedAt
  /\ \A k \in DOMAIN p.sampleAt :
       /\ p.sampleAt[k] \in AtRole(events, "ROLE_CPU_SAMPLE", r)
       /\ events[p.sampleAt[k]].index = k - 1
       /\ events[p.sampleAt[k]].usage = p.samples[k]
  /\ Head(p.sampleAt) \in p.boundAt + 1 .. p.startedAt - 1
  /\ Last(p.sampleAt) \in p.stoppedAt + 1 .. p.releasedAt - 1
  /\ \A k \in 2 .. Len(p.sampleAt) - 1 : p.sampleAt[k] \in p.startedAt + 1 .. p.stoppedAt - 1

\* The events a proof accounts for.
Linked(p) == {p.boundAt, p.startedAt, p.stoppedAt, p.releasedAt} \cup Range(p.sampleAt)

\* Egress surrounds the worker, and the verifier comes after both.
RunsInOrder(roles) ==
  /\ roles["egress"].startedAt < roles["worker"].startedAt
  /\ roles["worker"].stoppedAt < roles["egress"].stoppedAt
  /\ roles["egress"].stoppedAt < roles["verifier"].startedAt

EgressSeenDuringWorker(roles) ==
  \E i \in Range(roles["egress"].sampleAt) :
    i \in roles["worker"].startedAt + 1 .. roles["worker"].stoppedAt - 1

ParsesObservedSuccess(e) ==
  /\ ParsesEvents(e.events)
  /\ Head(e.events).type = "CONTROLLER_STARTED"
  /\ Last(e.events).type = "CONTROLLER_STOPPED"
  /\ \A r \in Roles : ParsesRoleProof(e.roles[r]) /\ LinksRoleEvents(e.events, r, e.roles[r])
  /\ {1, Len(e.events)} \cup UNION {Linked(e.roles[r]) : r \in Roles} = DOMAIN e.events
  /\ RunsInOrder(e.roles)
  /\ EgressSeenDuringWorker(e.roles)
  /\ e.aggregate = SumOf([r \in Roles |-> e.roles[r].delta])
  /\ e.aggregate <= Budget

----------------------------------------------------------------------------
(* Evidence of a failure                                                   *)

\* `observed` lists the bound roles in admission order.
ObservedRoles(e) == {r \in Roles : PlaceOf[r] \in DOMAIN e.observed}
ObservedOf(e, r) == e.observed[PlaceOf[r]]

ParsesObservedRole(o) ==
  /\ o.count \in 0..MaxSamples
  /\ o.last >= o.baseline /\ o.delta = o.last - o.baseline

ParsesContainment(c) ==
  /\ c.status = "NOT_REQUIRED" => {c.freeze, c.kill, c.reap} = {"NOT_ATTEMPTED"}
  /\ c.status = "SUCCEEDED" => {c.freeze, c.kill, c.reap} = {"SUCCEEDED"}

\* The life of one role in a failed session, in its only order.
LinksObservedRole(events, r, o) ==
  LET samples == AtRole(events, "ROLE_CPU_SAMPLE", r)
      bound == AtRole(events, "ROLE_CGROUP_BOUND", r)
      starts == AtRole(events, "ROLE_EXECUTION_STARTED", r)
      stops == AtRole(events, "ROLE_EXECUTION_STOPPED", r)
      releases == AtRole(events, "ROLE_CGROUP_RELEASED", r)
  IN /\ Cardinality(bound) = 1
     /\ Cardinality(samples) = o.count
     /\ \A i \in samples :
          /\ events[i].index = Cardinality({j \in samples : j < i})
          /\ \A j \in samples : i < j => events[i].usage <= events[j].usage
          /\ events[i].index = 0 => events[i].usage = o.baseline
          /\ events[i].index = o.count - 1 => events[i].usage = o.last
     /\ Cardinality(starts) <= 1 /\ Cardinality(stops) <= 1 /\ Cardinality(releases) <= 1
     /\ Before(bound, starts \cup samples)
     /\ stops # {} => starts # {} /\ Before(starts, stops)
     /\ releases # {} =>
          /\ Before(samples, releases)
          /\ IF starts = {} THEN Before(bound, releases)
                            ELSE stops # {} /\ Before(stops, releases)
     /\ o.released = (releases # {})

\* The role was executing when the failure was seen.
ActiveAtFailure(events, r) ==
  \E f \in At(events, "FAILURE_OBSERVED") :
    /\ \E i \in AtRole(events, "ROLE_EXECUTION_STARTED", r) : i < f
    /\ \A i \in AtRole(events, "ROLE_EXECUTION_STOPPED", r) : i > f

\* Containment follows the failure, in its order, as the profile says.
LinksContainment(events, c) ==
  LET actions == At(events, "CONTAINMENT_ACTION")
      of(action) == {i \in actions : events[i].action = action}
  IN /\ Before(At(events, "FAILURE_OBSERVED"), actions)
     /\ \A x \in {<<"FREEZE", c.freeze>>, <<"KILL", c.kill>>, <<"REAP", c.reap>>} :
          IF x[2] = "NOT_ATTEMPTED"
          THEN of(x[1]) = {}
          ELSE Cardinality(of(x[1])) = 1 /\ \A i \in of(x[1]) : events[i].result = x[2]
     /\ Before(of("FREEZE"), of("KILL") \cup of("REAP")) /\ Before(of("KILL"), of("REAP"))
     /\ of("REAP") # {} => of("KILL") # {}
     /\ of("KILL") # {} => of("FREEZE") # {}

LinksFailureEvents(e) ==
  LET failures == At(e.events, "FAILURE_OBSERVED")
      stopped == At(e.events, "CONTROLLER_STOPPED")
  IN /\ Cardinality(failures) = 1
     /\ \A f \in failures : e.events[f].code = e.code
     /\ At(e.events, "CONTROLLER_STARTED") = {1}
     /\ Before(At(e.events, "ROLE_CGROUP_BOUND") \cup At(e.events, "ROLE_EXECUTION_STARTED"),
               failures)
     /\ \A r \in Roles \ ObservedRoles(e), i \in DOMAIN e.events :
          "role" \in DOMAIN e.events[i] => e.events[i].role # r
     /\ \A r \in ObservedRoles(e) : LinksObservedRole(e.events, r, ObservedOf(e, r))
     /\ LinksContainment(e.events, e.containment)
     /\ stopped = IF e.controllerStopped THEN {Len(e.events)} ELSE {}
     /\ (\E r \in ObservedRoles(e) : ActiveAtFailure(e.events, r))
          => e.containment.status # "NOT_REQUIRED"
     /\ e.executionStarted = (At(e.events, "ROLE_EXECUTION_STARTED") # {})

AllReleased(e) == \A i \in DOMAIN e.observed : e.observed[i].released
ActionFailed(c) == "FAILED" \in {c.freeze, c.kill, c.reap}
CleanupFailureSeen(e) == ActionFailed(e.containment) \/ e.code \in CleanupCodes

Trigger(code) == CASE code = "CPU_BUDGET_EXCEEDED" -> "CPU_BUDGET_EXCEEDED"
                   [] code = "ROLE_IDENTITY_DRIFT" -> "IDENTITY_DRIFT"
                   [] OTHER -> "CONTROLLER_FAILURE"

\* Overage is claimed exactly for a budget that was exceeded.
OverageFits(e) ==
  IF e.code = "CPU_BUDGET_EXCEEDED"
  THEN e.aggregate > Budget /\ e.overage = e.aggregate - Budget
  ELSE e.aggregate <= Budget /\ e.overage = 0

QuietEnd(e) == e.remaining = 0 /\ AllReleased(e) /\ e.controllerStopped

OutcomeFits(e) ==
  /\ OverageFits(e)
  /\ CASE e.outcome = "OBSERVED_OVER_BUDGET_CONTAINED" ->
            /\ e.code = "CPU_BUDGET_EXCEEDED"
            /\ e.containment.status = "SUCCEEDED" /\ QuietEnd(e)
       [] e.outcome = "CONTAINMENT_INCOMPLETE" ->
            /\ e.containment.status = "INCOMPLETE"
            /\ ~QuietEnd(e) \/ CleanupFailureSeen(e)
       [] e.outcome = "LINUX_CONTROLLER_FAILURE" ->
            /\ e.code # "CPU_BUDGET_EXCEEDED"
            /\ e.containment.status # "INCOMPLETE" /\ QuietEnd(e)

ParsesObservedFailure(e) ==
  /\ \A i \in DOMAIN e.observed : ParsesObservedRole(e.observed[i])
  /\ e.aggregate = SumOf([r \in ObservedRoles(e) |-> ObservedOf(e, r).delta])
  /\ ParsesContainment(e.containment)
  /\ ParsesEvents(e.events)
  /\ Head(e.events).type = "CONTROLLER_STARTED"
  /\ LinksFailureEvents(e)
  /\ e.code = "CONTAINMENT_ACTION_FAILED" => ActionFailed(e.containment)
  /\ e.containment.trigger = Trigger(e.code)
  /\ OutcomeFits(e)

RanToTheEnd(e) == e.outcome \in {"OBSERVED_WITHIN_BUDGET", "EXECUTION_NON_CPU_FAILURE"}

Parses(e) == IF RanToTheEnd(e) THEN ParsesObservedSuccess(e) ELSE ParsesObservedFailure(e)
=============================================================================
