------------------------ MODULE CpuEvidenceProducer ------------------------
(***************************************************************************)
(* A session that records what three roles use of the CPU and closes with  *)
(* evidence about it (src/src/codex/linux-cgroup-cpu-evidence-producer.ts).*)
(* Calls queue up, so each runs as a whole.  What the port answers is free:*)
(* a reading that is right, lower than the last, of another cgroup or not  *)
(* there, containment that works or not, a controller that stops or not.   *)
(***************************************************************************)
EXTENDS CpuEvidence

CONSTANTS
  MaxUsage,  \* bound: the CPU readings of a role are 0..MaxUsage
  MaxFaults, \* bound: the things that go wrong in one containment
  None

ASSUME ProducerAssumption ==
  MaxUsage \in Nat /\ MaxFaults \in Nat /\ None \notin Nat \cup Codes

VARIABLES
  role,    \* the bound roles, #roles
  events,  \* the transcript, #events
  ended,   \* how the session ended: #terminal, #poisoned, a refused candidate
  port     \* history: what the port answered

sessionVars == <<role, events, ended, port>>

Usages == 0..MaxUsage

\* A reading of the right cgroup, none at all, or one of another cgroup.
Readings == [kind : {"usage"}, usage : Usages] \cup [kind : {"unreadable", "drift"}]

States == {"BOUND", "RUNNING", "STOPPED", "RELEASED"}

\* The work of a call: the roles and the transcript so far.
Work == [role |-> role, events |-> events]

RoleIs(r, state) == r \in DOMAIN role /\ role[r].state = state

Mutable == ended.how = "open"

SessionInit ==
  /\ role = <<>>
  /\ events = <<[type |-> "CONTROLLER_STARTED"]>>
  /\ ended = [how |-> "open", evidence |-> None, reported |-> FALSE]
  /\ port = [first |-> <<>>, latest |-> <<>>, released |-> {}, stopped |-> FALSE, failed |-> {}]

----------------------------------------------------------------------------
(* Steps of a call                                                         *)

Appended(w, e) == [w EXCEPT !.events = Append(@, e)]

RoleEvent(type, r) == [type |-> type, role |-> r]

\* A map in which r has the value x as well.
Including(f, r, x) == [q \in DOMAIN f \cup {r} |-> IF q = r THEN x ELSE f[q]]

\* An event about role r, whose record is p from now on.
Noted(w, r, p, e) == [role |-> [w.role EXCEPT ![r] = p], events |-> Append(w.events, e)]

Sampled(w, r, usage) ==
  LET p == w.role[r]
  IN Noted(w, r, [p EXCEPT !.samples = Append(@, usage), !.sampleAt = Append(@, Len(w.events) + 1)],
           [type |-> "ROLE_CPU_SAMPLE", role |-> r, index |-> Len(p.samples), usage |-> usage])

Started(w, r) ==
  Noted(w, r, [w.role[r] EXCEPT !.state = "RUNNING", !.startedAt = Len(w.events) + 1],
        RoleEvent("ROLE_EXECUTION_STARTED", r))

Stopped(w, r) ==
  Noted(w, r, [w.role[r] EXCEPT !.state = "STOPPED", !.stoppedAt = Len(w.events) + 1],
        RoleEvent("ROLE_EXECUTION_STOPPED", r))

Released(w, r) ==
  Noted(w, r, [w.role[r] EXCEPT !.state = "RELEASED", !.releasedAt = Len(w.events) + 1],
        RoleEvent("ROLE_CGROUP_RELEASED", r))

Delta(p) == Last(p.samples) - Head(p.samples)
Aggregate(w) == SumOf([r \in DOMAIN w.role |-> Delta(w.role[r])])

Record(w) ==
  /\ Len(w.events) <= MaxEvents
  /\ \A r \in DOMAIN w.role : Len(w.role[r].samples) <= MaxSamples
  /\ role' = w.role /\ events' = w.events

Continue(w) == Record(w) /\ UNCHANGED ended

\* A candidate the reader refuses poisons the session.
Finish(w, e, reported) ==
  /\ Record(w)
  /\ ended' = [how |-> IF Parses(e) THEN "candidate" ELSE "refused",
               evidence |-> e, reported |-> reported]

----------------------------------------------------------------------------
(* Containment of whatever a failure leaves behind                         *)

Result(succeeded) == IF succeeded THEN "SUCCEEDED" ELSE "FAILED"

InOrder(S) ==
  LET add(q, r) == IF r \in S THEN Append(q, r) ELSE q
  IN add(add(add(<<>>, "egress"), "worker"), "verifier")

Unfinished(w) == {r \in DOMAIN w.role : w.role[r].state # "RELEASED"}

\* What the port answers while it contains the unfinished roles.
Steps == {"freeze", "kill", "reap", "left", "stops"}

Answers(unfinished) ==
  LET mayFail == (IF unfinished = {} THEN {"stops"} ELSE Steps) \cup unfinished
  IN {[freeze |-> "freeze" \notin F, kill |-> "kill" \notin F, reap |-> "reap" \notin F,
       left |-> IF "left" \in F THEN 1 ELSE 0, stops |-> "stops" \notin F,
       released |-> unfinished \ F] :
        F \in {G \in SUBSET mayFail : Cardinality(G) <= MaxFaults}}

ContainedRoleRunning(w, r, a) ==                                  \* mutant
  IF r \in a.released THEN Released(w, r) ELSE w

ContainedRoleUnasked(w, r, a) ==                                  \* mutant
  Released(IF w.role[r].state = "RUNNING" THEN Stopped(w, r) ELSE w, r)

ContainedRole(w, r, a) ==
  LET s == IF w.role[r].state = "RUNNING" THEN Stopped(w, r) ELSE w
  IN IF r \in a.released THEN Released(s, r) ELSE s

Contained(w, code, a) ==
  LET action(name, succeeded) ==
        [type |-> "CONTAINMENT_ACTION", action |-> name, result |-> Result(succeeded)]
      seen == Appended(w, [type |-> "FAILURE_OBSERVED", code |-> code])
      acted == Appended(Appended(Appended(seen, action("FREEZE", a.freeze)),
                                 action("KILL", a.kill)),
                        action("REAP", a.reap))
      each(s, r) == IF r \in Unfinished(w) THEN ContainedRole(s, r, a) ELSE s
      over == IF Unfinished(w) = {} THEN seen
              ELSE each(each(each(acted, "egress"), "worker"), "verifier")
  IN IF a.stops THEN Appended(over, [type |-> "CONTROLLER_STOPPED"]) ELSE over

ContainmentComplete(w, code, a) ==
  /\ code \notin CleanupCodes
  /\ a.freeze /\ a.kill /\ a.reap /\ a.left = 0 /\ a.stops
  /\ Unfinished(w) = {}

Observed(p) == [baseline |-> Head(p.samples), last |-> Last(p.samples), delta |-> Delta(p),
                count |-> Len(p.samples), released |-> p.state = "RELEASED"]

\* The evidence of a failure, where w stands after its containment.
FailureEvidence(w, unfinished, code, a) ==
  LET complete == ContainmentComplete(w, code, a)
      tried(succeeded) == IF unfinished = {} THEN "NOT_ATTEMPTED" ELSE Result(succeeded)
  IN [outcome |-> IF ~complete THEN "CONTAINMENT_INCOMPLETE"
                  ELSE IF code = "CPU_BUDGET_EXCEEDED" THEN "OBSERVED_OVER_BUDGET_CONTAINED"
                  ELSE "LINUX_CONTROLLER_FAILURE",
      code |-> code,
      executionStarted |-> At(w.events, "ROLE_EXECUTION_STARTED") # {},
      aggregate |-> Aggregate(w),
      overage |-> IF code = "CPU_BUDGET_EXCEEDED" THEN Aggregate(w) - Budget ELSE 0,
      events |-> w.events,
      observed |-> [i \in DOMAIN InOrder(DOMAIN w.role) |->
                     Observed(w.role[InOrder(DOMAIN w.role)[i]])],
      containment |-> [status |-> IF ~complete THEN "INCOMPLETE"
                                  ELSE IF unfinished = {} THEN "NOT_REQUIRED" ELSE "SUCCEEDED",
                       trigger |-> Trigger(code), freeze |-> tried(a.freeze),
                       kill |-> tried(a.kill), reap |-> tried(a.reap)],
      controllerStopped |-> a.stops,
      remaining |-> a.left]

Contain(w, code, reported, latest) ==
  \E a \in Answers(Unfinished(w)) :
    LET over == Contained(w, code, a)
    IN /\ Finish(over, FailureEvidence(over, Unfinished(w), code, a), reported)
       /\ port' = [port EXCEPT !.latest = latest,
                               !.released = @ \cup a.released,
                               !.stopped = @ \/ a.stops,
                               !.failed = {x \in {"freeze", "kill", "reap", "left"} :
                                             IF x = "left" THEN a.left > 0 ELSE ~a[x]}]

----------------------------------------------------------------------------
(* Calls                                                                   *)

\* Roles are bound in their order: the worker beside a running egress, the
\* verifier when both are released.
CanBind(r) ==
  /\ Cardinality(DOMAIN role) < Len(RoleOrder)
  /\ r = RoleOrder[Cardinality(DOMAIN role) + 1]
  /\ r = "worker" => RoleIs("egress", "RUNNING")
  /\ r = "verifier" => RoleIs("worker", "RELEASED") /\ RoleIs("egress", "RELEASED")

BindRole(r, usage) ==
  /\ Mutable /\ CanBind(r)
  /\ LET proof == [state |-> "BOUND", samples |-> <<>>, sampleAt |-> <<>>,
                   boundAt |-> Len(events) + 1, startedAt |-> None, stoppedAt |-> None,
                   releasedAt |-> None]
         bound == [role |-> Including(role, r, proof),
                   events |-> Append(events, RoleEvent("ROLE_CGROUP_BOUND", r))]
     IN Continue(Sampled(bound, r, usage))
  /\ port' = [port EXCEPT !.first = Including(@, r, usage), !.latest = Including(@, r, usage)]

\* The guards on the other roles are the ones of CanBind, checked again.
MarkExecutionStarted(r) ==
  /\ Mutable /\ RoleIs(r, "BOUND")
  /\ r = "worker" => RoleIs("egress", "RUNNING")
  /\ r = "verifier" => RoleIs("worker", "RELEASED") /\ RoleIs("egress", "RELEASED")
  /\ Continue(Started(Work, r))
  /\ UNCHANGED port

\* What is wrong with a reading, if anything.
ReadingFailure(w, r, reading) ==
  CASE reading.kind = "unreadable" -> "CPU_STAT_READ_FAILED"
    [] reading.kind = "drift" -> "ROLE_IDENTITY_DRIFT"
    [] reading.kind = "usage" /\ reading.usage < Last(w.role[r].samples)
         -> "CPU_COUNTER_REGRESSION"
    [] OTHER -> None

TakeReadingUnchecked(w, r, reading) ==                            \* mutant
  LET failure == ReadingFailure(w, r, reading)
  IN IF failure # None THEN Contain(w, failure, FALSE, port.latest)
     ELSE Continue(Sampled(w, r, reading.usage)) /\ port' = [port EXCEPT !.latest[r] = reading.usage]

\* The reading is taken in, and the session ends with the first that shows
\* the budget exceeded.
TakeReading(w, r, reading) ==
  LET failure == ReadingFailure(w, r, reading)
      sampled == Sampled(w, r, reading.usage)
      latest == [port.latest EXCEPT ![r] = reading.usage]
  IN IF failure # None THEN Contain(w, failure, FALSE, port.latest)
     ELSE IF Aggregate(sampled) > Budget THEN Contain(sampled, "CPU_BUDGET_EXCEEDED", FALSE, latest)
     ELSE Continue(sampled) /\ port' = [port EXCEPT !.latest = latest]

SampleRole(r, reading) ==
  /\ Mutable /\ RoleIs(r, "RUNNING")
  /\ TakeReading(Work, r, reading)

MarkExecutionStopped(r, reading) ==
  /\ Mutable /\ RoleIs(r, "RUNNING")
  /\ r = "egress" => RoleIs("worker", "RELEASED")
  /\ TakeReading(Stopped(Work, r), r, reading)

MarkRoleReleased(r, released) ==
  /\ Mutable /\ RoleIs(r, "STOPPED")
  /\ IF released
     THEN Continue(Released(Work, r)) /\ port' = [port EXCEPT !.released = @ \cup {r}]
     ELSE Contain(Work, "CGROUP_RELEASE_FAILED", FALSE, port.latest)

RecordControllerFailure(code) ==
  Mutable /\ Contain(Work, code, TRUE, port.latest)

\* A session is closed when all roles are released; that every one started,
\* stopped and has two samples follows.
RanInFull == \A r \in Roles : RoleIs(r, "RELEASED") /\ Len(role[r].samples) >= 2

RoleProof(p) == [samples |-> p.samples, sampleAt |-> p.sampleAt,
                 baseline |-> Head(p.samples), final |-> Last(p.samples), delta |-> Delta(p),
                 boundAt |-> p.boundAt, startedAt |-> p.startedAt,
                 stoppedAt |-> p.stoppedAt, releasedAt |-> p.releasedAt]

SuccessEvidence(w, outcome) ==
  [outcome |-> outcome, aggregate |-> Aggregate(w), events |-> w.events,
   roles |-> [r \in Roles |-> RoleProof(w.role[r])]]

Finalize(outcome) ==
  /\ Mutable /\ RanInFull
  /\ IF ~EgressSeenDuringWorker(role) THEN Contain(Work, "CPU_STAT_READ_FAILED", FALSE, port.latest)
     ELSE IF Aggregate(Work) > Budget THEN Contain(Work, "CPU_BUDGET_EXCEEDED", FALSE, port.latest)
     ELSE \/ \* the controller does not stop; containment asks it again
             Contain(Work, "CONTROLLER_STOP_FAILED", FALSE, port.latest)
          \/ LET w == Appended(Work, [type |-> "CONTROLLER_STOPPED"])
             IN /\ Finish(w, SuccessEvidence(w, outcome), FALSE)
                /\ port' = [port EXCEPT !.stopped = TRUE]

FinalizeSuccess == Finalize("OBSERVED_WITHIN_BUDGET")
FinalizeNonCpuFailure == Finalize("EXECUTION_NON_CPU_FAILURE")

\* The signal is aborted, the clock fails or does not advance, a limit is
\* reached, or a role cannot be bound: nothing more is recorded.
Unrecordable ==
  /\ Mutable
  /\ ended' = [ended EXCEPT !.how = "poisoned"]
  /\ UNCHANGED <<role, events, port>>

SessionNext ==
  \/ \E r \in Roles :
       \/ \E usage \in Usages : BindRole(r, usage)
       \/ MarkExecutionStarted(r)
       \/ \E reading \in Readings : SampleRole(r, reading) \/ MarkExecutionStopped(r, reading)
       \/ \E released \in BOOLEAN : MarkRoleReleased(r, released)
  \/ \E code \in Codes : RecordControllerFailure(code)
  \/ FinalizeSuccess
  \/ FinalizeNonCpuFailure
  \/ Unrecordable

SessionSpec == SessionInit /\ [][SessionNext]_sessionVars

----------------------------------------------------------------------------
(* Properties                                                              *)

Candidate == ended.how = "candidate"

\* What the session concludes by itself, the reader accepts: a transcript is
\* refused only where the caller reported an exceeded budget that is not, or a
\* failed containment action while none failed.  (#finishCandidate and
\* parseLiveLinuxCgroupCpuEvidenceV2.)
ReaderAcceptsProducer ==
  ended.how = "refused" =>
    /\ ended.reported
    /\ \/ ended.evidence.code = "CPU_BUDGET_EXCEEDED" /\ ended.evidence.aggregate <= Budget
       \/ /\ ended.evidence.code = "CONTAINMENT_ACTION_FAILED"
          /\ port.failed \subseteq {"left"}

\* Evidence says that the roles are gone and the controller has stopped
\* exactly when the port said so of every role that was ever bound, and no
\* containment action failed on the way.  (#containFailure, OutcomeFits.)
QuietExactlyWhenClaimed ==
  Candidate =>
    ((ended.evidence.outcome # "CONTAINMENT_INCOMPLETE") <=>
       /\ DOMAIN role \subseteq port.released /\ port.stopped /\ port.failed = {}
       /\ RanToTheEnd(ended.evidence) \/ ended.evidence.code \notin CleanupCodes)

\* No CPU is lost: evidence adds up, for every role that was bound, what the
\* port read at its admission and what it last read; evidence within the
\* budget has its last reading of each role after its execution; and a session
\* that goes on has not exceeded the budget.
UsageIsAccounted ==
  LET used == SumOf([r \in DOMAIN port.first |-> port.latest[r] - port.first[r]])
  IN /\ Mutable => used <= Budget
     /\ Candidate =>
          /\ ended.evidence.aggregate = used
          /\ RanToTheEnd(ended.evidence) =>
               /\ used <= Budget
               /\ \A r \in Roles, i \in DOMAIN events :
                    /\ events[i] = RoleEvent("ROLE_EXECUTION_STOPPED", r) =>
                         \E j \in i + 1 .. Len(events) :
                           /\ events[j].type = "ROLE_CPU_SAMPLE" /\ events[j].role = r
                           /\ events[j].usage = port.latest[r]
=============================================================================
