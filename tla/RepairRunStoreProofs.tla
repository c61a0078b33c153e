------------------------ MODULE RepairRunStoreProofs ------------------------
(***************************************************************************)
(* Safety of the repair-run ledger for any processes, runs, inputs, clock  *)
(* readings and bounds.                                                    *)
(*                                                                         *)
(* What the ledger stores is changed by nine kinds of transaction.  Each   *)
(* keeps LedgerInv: the types of rows and authority, and the three         *)
(* invariants that lean on one another.  A transition is let through only  *)
(* for the run the authority row names, so it cannot create a second       *)
(* active run; the authority row is cleared exactly when that run leaves   *)
(* the active statuses, so it never names another one; and the high-water  *)
(* mark moves with every stored time.                                      *)
(*                                                                         *)
(* A row is sound when its log is an execution cut short as its status     *)
(* says and its result is its own.  markSucceeded and its siblings decide  *)
(* on a row they read before their transaction, so soundness alone is not  *)
(* inductive: HistoryInv adds MarkHolds, that what such a call read is     *)
(* still so as long as its lease is the current one.  Another process      *)
(* cannot disturb it, for a lease that stops being current never is again: *)
(* generations only grow, past every lease that was issued (LeasesAreOld). *)
(* Each kind of transaction is shown to keep rows sound and to leave alone *)
(* what other processes hold (Effects); one lemma concludes from there.    *)
(*                                                                         *)
(* For the promise, a row of the table is seen as its status, a running    *)
(* row also as the number of progress entries of its log, and the          *)
(* authority row as its owner.  Each kind of transaction is an action of   *)
(* the promise or leaves the three views alone.  The invariants of the     *)
(* ledger are what make it so: only the active run can be fenced or moved, *)
(* it is the run that the authority row names, and a log is as long as its *)
(* run has got.                                                            *)
(***************************************************************************)
EXTENDS RepairRunStore, TLAPS

RowsTyped ==
  /\ DOMAIN runs \subseteq RunId
  /\ runs \in [DOMAIN runs -> Row]

LedgerInv ==
  /\ RowsTyped
  /\ auth \in Authority
  /\ AuthorityBindsActiveRun
  /\ OneBlockingRun
  /\ HighWaterCoversRuns

-----------------------------------------------------------------------------
(* What the operators on rows and on the authority row return              *)

LEMMA AppendedLog ==
  ASSUME NEW log \in Seq(Event), NEW type \in EventType, NEW ph \in Phase
  PROVE  /\ Append(log, Entry(type, ph)) \in Seq(Event)
         /\ Len(Append(log, Entry(type, ph))) = Len(log) + 1
BY DEF Entry, Event

LEMMA MovedRow ==
  ASSUME NEW row \in Row, NEW t \in Time, NEW status \in Status,
         NEW phase \in Phase, NEW mode \in Mode,
         NEW result \in Result, NEW type \in EventType
  PROVE  LET m == Moved(row, t, status, phase, mode, result, type) IN
         /\ m \in Row
         /\ m.status = status /\ m.phase = phase /\ m.mode = mode
         /\ m.result = result /\ m.updatedAt = t
         /\ m.log = Append(row.log, Entry(type, phase))
         /\ m.key = row.key /\ m.input = row.input
<1> DEFINE log == Append(row.log, Entry(type, phase))
<1>1. log \in Seq(Event)
  BY AppendedLog DEF Row
<1>2. Moved(row, t, status, phase, mode, result, type) =
        [row EXCEPT !.status = status, !.phase = phase, !.mode = mode,
                    !.result = result, !.updatedAt = t, !.log = log]
  BY DEF Moved
<1> HIDE DEF log
<1>3. LET m == Moved(row, t, status, phase, mode, result, type) IN
      /\ m \in Row
      /\ m.status = status /\ m.phase = phase /\ m.mode = mode
      /\ m.result = result /\ m.updatedAt = t /\ m.log = log
      /\ m.key = row.key /\ m.input = row.input
  BY <1>1, <1>2 DEF Row
<1> QED
  BY <1>3 DEF log

LEMMA ProgressedRow ==
  ASSUME NEW row \in Row, NEW t \in Time, NEW type \in EventType,
         NEW ph \in Phase
  PROVE  LET m == Progressed(row, t, type, ph) IN
         /\ m \in Row
         /\ m.status = row.status /\ m.phase = ph /\ m.mode = row.mode
         /\ m.result = row.result /\ m.updatedAt = t
         /\ m.log = Append(row.log, Entry(type, ph))
         /\ m.key = row.key /\ m.input = row.input
<1> DEFINE log == Append(row.log, Entry(type, ph))
<1>1. log \in Seq(Event)
  BY AppendedLog DEF Row
<1>2. Progressed(row, t, type, ph) =
        [row EXCEPT !.phase = ph, !.updatedAt = t, !.log = log]
  BY DEF Progressed
<1> HIDE DEF log
<1>3. LET m == Progressed(row, t, type, ph) IN
      /\ m \in Row
      /\ m.status = row.status /\ m.phase = ph /\ m.mode = row.mode
      /\ m.result = row.result /\ m.updatedAt = t /\ m.log = log
      /\ m.key = row.key /\ m.input = row.input
  BY <1>1, <1>2 DEF Row
<1> QED
  BY <1>3 DEF log

\* Recovery leaves a run that is not active as it is, fails a queued run and
\* poisons one that had started.
LEMMA RecoveredRowIs ==
  ASSUME NEW row \in Row, NEW t \in Time
  PROVE  LET m == RecoveredRow(row, t) IN
         /\ m \in Row
         /\ row.status \notin Active => m = row
         /\ row.status \in Active => /\ m.status \in {"FAILED", "POISONED"}
                                     /\ m.updatedAt = t
         /\ m.key = row.key
<1>1. row.mode \in Mode /\ NoResult \in Result
  BY DEF Row, Result
<1>2. CASE row.status = "QUEUED"
  <2>1. RecoveredRow(row, t) = Moved(row, t, "FAILED", "COMPLETE", row.mode,
                                     NoResult, "RUN_FAILED")
    BY <1>2 DEF RecoveredRow
  <2>2. "FAILED" \in Status /\ "COMPLETE" \in Phase /\ "RUN_FAILED" \in EventType
    BY DEF Status, Phase, EventType
  <2> DEFINE m == Moved(row, t, "FAILED", "COMPLETE", row.mode, NoResult, "RUN_FAILED")
  <2>3. /\ m \in Row /\ m.status = "FAILED" /\ m.updatedAt = t
        /\ m.key = row.key /\ m.input = row.input
    BY <1>1, <2>2, MovedRow
  <2> HIDE DEF m
  <2> QED
    BY <1>2, <2>1, <2>3 DEF Active, m
<1>3. CASE row.status \in Active \ {"QUEUED"}
  <2>1. RecoveredRow(row, t) = Moved(row, t, "POISONED", "COMPLETE", row.mode,
                                     NoResult, "RUN_POISONED")
    BY <1>3 DEF RecoveredRow
  <2>2. "POISONED" \in Status /\ "COMPLETE" \in Phase /\ "RUN_POISONED" \in EventType
    BY DEF Status, Phase, EventType
  <2> DEFINE m == Moved(row, t, "POISONED", "COMPLETE", row.mode, NoResult, "RUN_POISONED")
  <2>3. /\ m \in Row /\ m.status = "POISONED" /\ m.updatedAt = t
        /\ m.key = row.key /\ m.input = row.input
    BY <1>1, <2>2, MovedRow
  <2> HIDE DEF m
  <2> QED
    BY <1>3, <2>1, <2>3 DEF m
<1>4. CASE row.status \notin Active
  BY <1>4 DEF RecoveredRow, Active
<1> QED
  BY <1>2, <1>3, <1>4

LEMMA CreatedRowIs ==
  ASSUME NEW c, c.key \in Key, c.input \in Input, c.at \in Time
  PROVE  /\ CreatedRow(c) \in Row
         /\ CreatedRow(c).status = "QUEUED"
         /\ CreatedRow(c).updatedAt = c.at
<1>1. <<Entry("RUN_CREATED", "ADMISSION")>> \in Seq(Event)
  BY DEF Entry, Event, EventType, Phase
<1> DEFINE log == <<Entry("RUN_CREATED", "ADMISSION")>>
<1> HIDE DEF log
<1>2. log \in Seq(Event)
  BY <1>1 DEF log
<1>3. CreatedRow(c) =
        [status |-> "QUEUED", phase |-> "ADMISSION", mode |-> "NOT_STARTED",
         key |-> c.key, input |-> c.input, result |-> NoResult,
         updatedAt |-> c.at, log |-> log]
  BY DEF CreatedRow, log
<1> QED
  BY <1>2, <1>3 DEF Row, Status, Phase, Mode, Result

LEMMA ObservedAuthority ==
  ASSUME NEW a \in Authority, NEW t \in Time
  PROVE  LET o == Observe(a, t)
             c == Clear(Observe(a, t))
         IN /\ o \in Authority /\ o.highWater = t
            /\ o.owner = a.owner /\ o.run = a.run
            /\ o.expires = a.expires /\ o.generation = a.generation
            /\ c \in Authority /\ c.highWater = t
            /\ c.owner = None /\ c.run = None
            /\ c.generation = a.generation
<1> DEFINE o == Observe(a, t)
<1>1. /\ o \in Authority /\ o.highWater = t
      /\ o.owner = a.owner /\ o.run = a.run
      /\ o.expires = a.expires /\ o.generation = a.generation
  BY DEF Observe, Authority
<1> HIDE DEF o
<1>2. Clear(o) \in Authority /\ Clear(o).highWater = o.highWater
      /\ Clear(o).owner = None /\ Clear(o).run = None
      /\ Clear(o).generation = o.generation
  BY <1>1 DEF Clear, Authority
<1> QED
  BY <1>1, <1>2 DEF o

-----------------------------------------------------------------------------
(* Each kind of transaction keeps LedgerInv                                *)

\* Replacing one row by another that blocks admission only if the old one did.
LEMMA ReplacedRow ==
  ASSUME RowsTyped, OneBlockingRun,
         NEW r \in DOMAIN runs, NEW row \in Row,
         runs' = [runs EXCEPT ![r] = row],
         row.status \in Blocking => runs[r].status \in Blocking
  PROVE  /\ RowsTyped' /\ OneBlockingRun'
         /\ DOMAIN runs' = DOMAIN runs
         /\ runs'[r] = row
         /\ \A x \in DOMAIN runs : x # r => runs'[x] = runs[x]
<1>1. /\ DOMAIN runs' = DOMAIN runs
      /\ runs'[r] = row
      /\ \A x \in DOMAIN runs : x # r => runs'[x] = runs[x]
  OBVIOUS
<1>2. RowsTyped'
  BY DEF RowsTyped
<1>3. OneBlockingRun'
  BY <1>1 DEF OneBlockingRun
<1> QED
  BY <1>1, <1>2, <1>3

\* A lease that is current names the one active run.
LEMMA LeaseNamesActiveRun ==
  ASSUME LedgerInv, NEW p \in Process, NEW l, LeaseMatches(p, l)
  PROVE  /\ Bound /\ l.run = auth.run
         /\ l.run \in DOMAIN runs /\ ActiveRuns = {l.run}
BY NoneAssumption DEF LedgerInv, AuthorityBindsActiveRun, LeaseMatches,
   ActiveRuns, Bound

\* The mark covers every row when each row is an old one or has the new mark.
LEMMA HighWaterStep ==
  ASSUME LedgerInv, NEW t \in Nat, auth.highWater <= t, auth'.highWater = t,
         \A x \in DOMAIN runs' : \/ x \in DOMAIN runs /\ runs'[x] = runs[x]
                                 \/ runs'[x].updatedAt = t
  PROVE  HighWaterCoversRuns'
<1> SUFFICES ASSUME NEW x \in DOMAIN runs' PROVE runs'[x].updatedAt <= t
  BY DEF HighWaterCoversRuns
<1>1. CASE x \in DOMAIN runs /\ runs'[x] = runs[x]
  <2>1. runs[x].updatedAt \in Nat /\ auth.highWater \in Nat
    BY <1>1, TimeAssumption DEF LedgerInv, RowsTyped, Row, Authority
  <2>2. runs[x].updatedAt <= auth.highWater
    BY <1>1 DEF LedgerInv, HighWaterCoversRuns
  <2> QED
    BY <1>1, <2>1, <2>2
<1>2. CASE runs'[x].updatedAt = t
  BY <1>2
<1> QED
  BY <1>1, <1>2

LEMMA TransitionKeepsLedger ==
  ASSUME LedgerInv, NEW p \in Process, NEW l \in Lease, NEW t \in Time,
         NEW allowed \in SUBSET Active,
         TransitionAccepted(p, l, t, allowed),
         NEW status \in Status \ {"QUEUED"}, NEW phase \in Phase,
         NEW mode \in Mode, NEW result \in Result, NEW type \in EventType,
         Transition(l, t, status, phase, mode, result, type)
  PROVE  LedgerInv'
<1> DEFINE r == l.run
           row == Moved(runs[r], t, status, phase, mode, result, type)
<1>1. /\ r \in DOMAIN runs /\ Bound /\ r = auth.run /\ ActiveRuns = {r}
      /\ runs[r].status \in Active /\ auth.owner # None
      /\ auth.highWater <= t /\ auth \in Authority
  BY LeaseNamesActiveRun, NoneAssumption
     DEF TransitionAccepted, LeaseCurrent, LeaseMatches, TimeAccepted, LedgerInv
<1>2. runs[r] \in Row
  BY <1>1 DEF LedgerInv, RowsTyped
<1>3. row \in Row /\ row.status = status /\ row.updatedAt = t
  BY <1>2, MovedRow
<1>4. runs' = [runs EXCEPT ![r] = row]
  BY DEF Transition
<1> HIDE DEF row
<1>5. /\ RowsTyped' /\ OneBlockingRun' /\ DOMAIN runs' = DOMAIN runs
      /\ runs'[r] = row
      /\ \A x \in DOMAIN runs : x # r => runs'[x] = runs[x]
  BY <1>1, <1>3, <1>4, ReplacedRow DEF LedgerInv, Blocking
<1>6. auth' \in Authority /\ auth'.highWater = t
  BY <1>1, ObservedAuthority DEF Transition
<1>7. HighWaterCoversRuns'
  BY <1>1, <1>3, <1>5, <1>6, TimeAssumption, HighWaterStep
<1>8. AuthorityBindsActiveRun'
  <2>1. \A x \in DOMAIN runs' : x # r => runs'[x].status \notin Active
    BY <1>1, <1>5 DEF ActiveRuns
  <2>2. CASE status \in Terminal
    <3>1. auth'.owner = None /\ auth'.run = None
      BY <1>1, <2>2, ObservedAuthority DEF Transition
    <3>2. ActiveRuns' = {}
      BY <1>3, <1>5, <2>1, <2>2 DEF ActiveRuns, Active, Terminal, Settled
    <3> QED
      BY <3>1, <3>2 DEF AuthorityBindsActiveRun, Bound
  <2>3. CASE status \notin Terminal
    <3>1. auth'.owner = auth.owner /\ auth'.run = auth.run
      BY <1>1, <2>3, ObservedAuthority DEF Transition
    <3>2. ActiveRuns' = {r}
      BY <1>1, <1>3, <1>5, <2>1, <2>3
         DEF ActiveRuns, Active, Terminal, Settled, Status
    <3> QED
      BY <1>1, <3>1, <3>2 DEF AuthorityBindsActiveRun, Bound
  <2> QED
    BY <2>2, <2>3
<1> QED
  BY <1>5, <1>6, <1>7, <1>8 DEF LedgerInv

LEMMA AppendProgressKeepsLedger ==
  ASSUME LedgerInv, NEW p \in Process, NEW l \in Lease, NEW t \in Time,
         NEW type \in EventType, NEW ph \in Phase,
         AppendProgress(p, l, t, type, ph)
  PROVE  LedgerInv'
<1> DEFINE r == l.run
           row == Progressed(runs[r], t, type, ph)
<1>1. /\ r \in DOMAIN runs /\ auth.highWater <= t /\ auth \in Authority
      /\ runs' = [runs EXCEPT ![r] = row] /\ auth' = Observe(auth, t)
  BY DEF AppendProgress, TimeAccepted, LedgerInv
<1>2. runs[r] \in Row
  BY <1>1 DEF LedgerInv, RowsTyped
<1>3. row \in Row /\ row.status = runs[r].status /\ row.updatedAt = t
  BY <1>2, ProgressedRow
<1> HIDE DEF row
<1>4. /\ RowsTyped' /\ OneBlockingRun' /\ DOMAIN runs' = DOMAIN runs
      /\ runs'[r] = row
      /\ \A x \in DOMAIN runs : x # r => runs'[x] = runs[x]
  BY <1>1, <1>3, ReplacedRow DEF LedgerInv
<1>5. /\ auth' \in Authority /\ auth'.highWater = t
      /\ auth'.owner = auth.owner /\ auth'.run = auth.run
  BY <1>1, ObservedAuthority
<1>6. HighWaterCoversRuns'
  BY <1>1, <1>3, <1>4, <1>5, TimeAssumption, HighWaterStep
<1>7. AuthorityBindsActiveRun'
  <2>1. ActiveRuns' = ActiveRuns
    BY <1>3, <1>4 DEF ActiveRuns
  <2> QED
    BY <1>5, <2>1 DEF LedgerInv, AuthorityBindsActiveRun, Bound
<1> QED
  BY <1>4, <1>5, <1>6, <1>7 DEF LedgerInv

\* Recovery touches the bound run of an expired lease.  That every active run
\* is bound makes the branch for unowned active runs a no-op.
LEMMA ReconcileKeepsLedger ==
  ASSUME LedgerInv, NEW t \in Time, ReconcileAccepted(t), Reconcile(t)
  PROVE  LedgerInv'
<1>1. auth \in Authority /\ auth.highWater <= t /\ ActiveRuns \subseteq {auth.run}
  BY DEF LedgerInv, ReconcileAccepted, TimeAccepted, AuthorityBindsActiveRun
<1>2. /\ DOMAIN runs' = DOMAIN runs
      /\ \A x \in DOMAIN runs : runs'[x] = IF x \in Unowned(t)
                                  THEN RecoveredRow(runs[x], t) ELSE runs[x]
  BY DEF Reconcile
<1>3. ASSUME NEW x \in DOMAIN runs
      PROVE  /\ runs'[x] \in Row
             /\ \/ runs'[x] = runs[x]
                \/ /\ x \in Unowned(t) /\ runs[x].status \in Active
                   /\ runs'[x].status \in {"FAILED", "POISONED"}
                   /\ runs'[x].updatedAt = t
             /\ x \in Unowned(t) => runs'[x].status \notin Active
  <2>1. runs[x] \in Row
    BY DEF LedgerInv, RowsTyped
  <2> QED
    BY <1>2, <2>1, RecoveredRowIs DEF Active
<1>4. RowsTyped'
  <2>1. DOMAIN runs' \subseteq RunId /\ runs' = [x \in DOMAIN runs' |-> runs'[x]]
    BY <1>2 DEF LedgerInv, RowsTyped, Reconcile
  <2> QED
    BY <1>2, <1>3, <2>1 DEF RowsTyped
<1>5. OneBlockingRun'
  <2>1. \A x \in DOMAIN runs : runs'[x].status \in Blocking =>
                                 runs[x].status \in Blocking
    BY <1>3 DEF Blocking
  <2> QED
    BY <1>2, <2>1 DEF OneBlockingRun, LedgerInv
<1>6. auth' \in Authority /\ auth'.highWater = t
  BY <1>1, ObservedAuthority DEF Reconcile
<1>7. HighWaterCoversRuns'
  BY <1>1, <1>2, <1>3, <1>6, TimeAssumption, HighWaterStep
<1>8. AuthorityBindsActiveRun'
  <2>1. CASE Bound /\ auth.expires <= t
    <3>1. auth'.owner = None /\ auth'.run = None
      BY <1>1, <2>1, ObservedAuthority DEF Reconcile
    <3>2. Unowned(t) = {auth.run}
      BY <2>1 DEF Unowned
    <3>3. ActiveRuns' = {}
      BY <1>1, <1>2, <1>3, <3>2 DEF ActiveRuns
    <3> QED
      BY <3>1, <3>3 DEF AuthorityBindsActiveRun, Bound
  <2>2. CASE ~(Bound /\ auth.expires <= t)
    <3>1. auth'.owner = auth.owner /\ auth'.run = auth.run
      BY <1>1, <2>2, ObservedAuthority DEF Reconcile
    <3>2. Unowned(t) = {}
      BY <1>1, <2>2, NoneAssumption
         DEF Unowned, Bound, LedgerInv, RowsTyped, ActiveRuns
    <3>3. ActiveRuns' = ActiveRuns
      BY <1>2, <3>2 DEF ActiveRuns
    <3> QED
      BY <3>1, <3>3 DEF AuthorityBindsActiveRun, Bound, LedgerInv
  <2> QED
    BY <2>1, <2>2
<1> QED
  BY <1>4, <1>5, <1>6, <1>7, <1>8 DEF LedgerInv

LEMMA LogicalTimeIs ==
  ASSUME LedgerInv, NEW t \in Time
  PROVE  LogicalTime(t) \in Time /\ auth.highWater <= LogicalTime(t)
<1>1. /\ auth.highWater \in Time \/ auth.highWater = 0
      /\ auth.highWater \in Nat /\ t \in Nat
  <2>1. auth.highWater \in Time \/ auth.highWater = 0
    BY DEF LedgerInv, Authority
  <2>2. t \in Nat
    BY TimeAssumption
  <2>3. auth.highWater \in Nat
    <3>1. CASE auth.highWater \in Time
      BY <3>1, TimeAssumption
    <3>2. CASE auth.highWater = 0
      BY <3>2
    <3> QED
      BY <2>1, <3>1, <3>2
  <2> QED
    BY <2>1, <2>2, <2>3
<1>2. CASE t > auth.highWater
  BY <1>1, <1>2 DEF LogicalTime
<1>3. CASE ~(t > auth.highWater)
  <2>1. t <= auth.highWater
    BY <1>1, <1>3
  <2>2. auth.highWater = 0 => t = 0
    BY <1>1, <2>1
  <2> QED
    BY <1>1, <1>3, <2>2 DEF LogicalTime
<1> QED
  BY <1>2, <1>3

LEMMA FailStopKeepsLedger ==
  ASSUME LedgerInv, NEW p \in Process, NEW l \in Lease, NEW t \in Time,
         FailStop(p, l, t)
  PROVE  LedgerInv'
<1> DEFINE r == l.run
           u == LogicalTime(t)
           row == RecoveredRow(runs[r], u)
<1>1. /\ u \in Time /\ auth.highWater <= u /\ auth \in Authority
      /\ r \in DOMAIN runs
  BY LogicalTimeIs DEF FailStop, LedgerInv
<1>2. runs[r] \in Row
  BY <1>1 DEF LedgerInv, RowsTyped
<1>3. CASE runs[r].status \in Terminal
  <2>1. UNCHANGED runs /\ auth' = Observe(auth, u)
    BY <1>3 DEF FailStop
  <2>2. auth' \in Authority /\ auth'.highWater = u
        /\ auth'.owner = auth.owner /\ auth'.run = auth.run
    BY <1>1, <2>1, ObservedAuthority
  <2>3. HighWaterCoversRuns'
    BY <1>1, <2>1, <2>2, TimeAssumption, HighWaterStep
  <2> QED
    BY <2>1, <2>2, <2>3 DEF LedgerInv, RowsTyped, OneBlockingRun,
       AuthorityBindsActiveRun, ActiveRuns, Bound
<1>4. CASE runs[r].status \notin Terminal
  <2>1. runs[r].status \in Active
    BY <1>2, <1>4 DEF Row, Status, Terminal, Settled, Active
  <2>2. LeaseMatches(p, l)
    BY <1>1, <1>4, <2>1, NoneAssumption
       DEF FailStop, LedgerInv, RowsTyped, AuthorityBindsActiveRun,
           ActiveRuns, Bound
  <2>3. /\ runs' = [runs EXCEPT ![r] = row]
        /\ auth' = Clear(Observe(auth, u))
    BY <1>4, <2>2 DEF FailStop
  <2>4. row \in Row /\ row.updatedAt = u /\ row.status \in {"FAILED", "POISONED"}
    BY <1>1, <1>2, <2>1, RecoveredRowIs
  <2> HIDE DEF row
  <2>5. /\ RowsTyped' /\ OneBlockingRun' /\ DOMAIN runs' = DOMAIN runs
        /\ runs'[r] = row
        /\ \A x \in DOMAIN runs : x # r => runs'[x] = runs[x]
    BY <1>1, <2>1, <2>3, <2>4, ReplacedRow DEF LedgerInv, Blocking
  <2>6. /\ auth' \in Authority /\ auth'.highWater = u
        /\ auth'.owner = None /\ auth'.run = None
    BY <1>1, <2>3, ObservedAuthority
  <2>7. HighWaterCoversRuns'
    BY <1>1, <2>4, <2>5, <2>6, TimeAssumption, HighWaterStep
  <2>8. ActiveRuns = {r}
    BY <2>2, LeaseNamesActiveRun
  <2>9. ActiveRuns' = {}
    BY <2>4, <2>5, <2>8 DEF ActiveRuns, Active
  <2>10. AuthorityBindsActiveRun'
    BY <2>6, <2>9 DEF AuthorityBindsActiveRun, Bound
  <2> QED
    BY <2>5, <2>6, <2>7, <2>10 DEF LedgerInv
<1> QED
  BY <1>3, <1>4

LEMMA HeartbeatKeepsLedger ==
  ASSUME LedgerInv, NEW p \in Process, NEW l \in Lease, NEW t \in Time,
         Heartbeat(p, l, t)
  PROVE  LedgerInv'
<1> DEFINE o == Observe(auth, t)
<1>1. /\ auth \in Authority /\ auth.highWater <= t /\ UNCHANGED runs
      /\ auth' = [o EXCEPT !.expires = t + LeaseDuration]
  BY DEF LedgerInv, Heartbeat, TimeAccepted
<1>2. /\ o \in Authority /\ o.highWater = t
      /\ o.owner = auth.owner /\ o.run = auth.run
  BY <1>1, ObservedAuthority
<1>3. t + LeaseDuration \in Nat
  BY TimeAssumption, BoundAssumption
<1> HIDE DEF o
<1>4. /\ auth' \in Authority /\ auth'.highWater = t
      /\ auth'.owner = auth.owner /\ auth'.run = auth.run
  BY <1>1, <1>2, <1>3 DEF Authority
<1>5. HighWaterCoversRuns'
  BY <1>1, <1>4, TimeAssumption, HighWaterStep
<1> QED
  BY <1>1, <1>4, <1>5 DEF LedgerInv, RowsTyped, OneBlockingRun,
     AuthorityBindsActiveRun, ActiveRuns, Bound

\* Admission adds a row when no row blocks it and no run is bound.
LEMMA InsertRunKeepsLedger ==
  ASSUME LedgerInv, NEW p \in Process, NEW r \in RunId, InsertRun(p, r),
         call[p].key \in Key, call[p].input \in Input, call[p].at \in Time
  PROVE  LedgerInv'
<1> DEFINE t == call[p].at
           row == CreatedRow(call[p])
<1>1. /\ r \notin DOMAIN runs /\ ~Bound /\ auth.highWater <= t
      /\ \A x \in DOMAIN runs : runs[x].status \notin Blocking
      /\ runs' = [x \in DOMAIN runs \cup {r} |-> IF x = r THEN row ELSE runs[x]]
      /\ auth' = [owner |-> p, run |-> r, expires |-> t + LeaseDuration,
                  generation |-> auth.generation + 1, highWater |-> t]
  BY DEF InsertRun, CanInsert, TimeAccepted
<1>2. row \in Row /\ row.status = "QUEUED" /\ row.updatedAt = t
  BY CreatedRowIs
<1> HIDE DEF row
<1>3. /\ DOMAIN runs' = DOMAIN runs \cup {r}
      /\ runs'[r] = row
      /\ \A x \in DOMAIN runs : runs'[x] = runs[x]
  BY <1>1
<1>4. RowsTyped'
  <2>1. \A x \in DOMAIN runs' : runs'[x] \in Row
    BY <1>2, <1>3 DEF LedgerInv, RowsTyped
  <2>2. runs' = [x \in DOMAIN runs' |-> runs'[x]] /\ DOMAIN runs' \subseteq RunId
    BY <1>1, <1>3 DEF LedgerInv, RowsTyped
  <2> QED
    BY <2>1, <2>2 DEF RowsTyped
<1>5. OneBlockingRun'
  BY <1>1, <1>3 DEF OneBlockingRun
<1>6. auth' \in Authority
  <2>1. t \in Nat /\ LeaseDuration \in Nat
    BY TimeAssumption, BoundAssumption
  <2>4. t + LeaseDuration \in Nat
    BY <2>1
  <2>2. auth.generation + 1 \in Nat
    BY DEF LedgerInv, Authority
  <2> QED
    BY <1>1, <2>2, <2>4 DEF Authority
<1>7. HighWaterCoversRuns'
  BY <1>1, <1>2, <1>3, TimeAssumption, HighWaterStep
<1>8. AuthorityBindsActiveRun'
  <2>1. ActiveRuns' = {r}
    BY <1>1, <1>2, <1>3 DEF ActiveRuns, Active, Blocking
  <2>2. auth'.owner # None /\ auth'.run = r /\ r # None
    BY <1>1, NoneAssumption
  <2> QED
    BY <2>1, <2>2 DEF AuthorityBindsActiveRun, Bound
<1> QED
  BY <1>4, <1>5, <1>6, <1>7, <1>8 DEF LedgerInv

LEMMA PruneKeepsLedger ==
  ASSUME LedgerInv, NEW p \in Process, NEW policy \in Policy,
         Prune(p, policy)
  PROVE  LedgerInv'
<1>1. /\ DOMAIN runs' = DOMAIN runs \ PrunableRuns(policy)
      /\ \A x \in DOMAIN runs' : x \in DOMAIN runs /\ runs'[x] = runs[x]
      /\ runs' = [x \in DOMAIN runs' |-> runs'[x]]
      /\ UNCHANGED auth
  BY DEF Prune
<1>2. RowsTyped'
  BY <1>1 DEF LedgerInv, RowsTyped
<1>3. OneBlockingRun' /\ HighWaterCoversRuns'
  BY <1>1 DEF LedgerInv, OneBlockingRun, HighWaterCoversRuns
<1>4. ActiveRuns' = ActiveRuns
  BY <1>1 DEF ActiveRuns, PrunableRuns, Active, Settled
<1>5. AuthorityBindsActiveRun'
  BY <1>1, <1>4 DEF LedgerInv, AuthorityBindsActiveRun, Bound
<1> QED
  BY <1>1, <1>2, <1>3, <1>5 DEF LedgerInv

-----------------------------------------------------------------------------
(* Types                                                                   *)

LEMMA TypesOfRuns == TypeOK <=> /\ RowsTyped /\ auth \in Authority
                                /\ leases \in [Process -> SUBSET Lease]
                                /\ call \in [Process -> Call]
BY DEF TypeOK, RowsTyped

\* What an open call carries, by its name.
LEMMA CallFields ==
  ASSUME NEW c \in Call
  PROVE  /\ c.op = "RECONCILE" => c.at \in Time
         /\ c.op \in {"ADMIT_RECONCILE", "ADMIT"} =>
              c.key \in Key /\ c.input \in Input /\ c.at \in Time
         /\ c.op \in {"SUCCEED", "POISON", "FAIL", "FAIL_SETTLED"} =>
              /\ c.lease \in Lease /\ c.mode \in Mode
              /\ c.result \in Result /\ c.at \in Time
         /\ c.op = "ADMIT_RECONCILE" => [c EXCEPT !.op = "ADMIT"] \in Call
BY DEF Call, NoCall

LEMMA UnchangedKeepsLedger ==
  ASSUME LedgerInv, UNCHANGED <<runs, auth>>
  PROVE  LedgerInv'
BY DEF LedgerInv, RowsTyped, OneBlockingRun, AuthorityBindsActiveRun,
   ActiveRuns, Bound, HighWaterCoversRuns

\* A mark decided before its transaction is applied by #transition, if it still
\* is allowed.
LEMMA FinishMarkKeepsLedger ==
  ASSUME LedgerInv, NEW p \in Process, call[p] \in Call,
         NEW op \in {"SUCCEED", "POISON", "FAIL", "FAIL_SETTLED"},
         NEW allowed \in SUBSET Active, NEW status \in Terminal,
         NEW type \in EventType, FinishMark(p, op, allowed, status, type)
  PROVE  LedgerInv'
<1> DEFINE l == call[p].lease
           t == call[p].at
<1>1. /\ l \in Lease /\ t \in Time
      /\ call[p].mode \in Mode /\ call[p].result \in Result
  BY CallFields DEF FinishMark
<1>2. CASE TransitionAccepted(p, l, t, allowed)
  <2>1. Transition(l, t, status, "COMPLETE", call[p].mode, call[p].result, type)
    BY <1>2 DEF FinishMark
  <2>2. status \in Status \ {"QUEUED"} /\ "COMPLETE" \in Phase
    BY DEF Terminal, Settled, Status, Phase
  <2> QED
    BY <1>1, <1>2, <2>1, <2>2, TransitionKeepsLedger
<1>3. CASE ~TransitionAccepted(p, l, t, allowed)
  BY <1>3, UnchangedKeepsLedger DEF FinishMark
<1> QED
  BY <1>2, <1>3

IInv == /\ LedgerInv
        /\ leases \in [Process -> SUBSET Lease]
        /\ call \in [Process -> Call]

LEMMA HolderStepKeepsIInv ==
  ASSUME IInv, NEW p \in Process, NEW l \in leases[p], NEW t \in Time,
         HolderStep(p, l, t)
  PROVE  IInv'
<1>1. /\ LedgerInv /\ l \in Lease
      /\ leases \in [Process -> SUBSET Lease] /\ call \in [Process -> Call]
  BY DEF IInv
<1>2. CASE Heartbeat(p, l, t)
  BY <1>1, <1>2, HeartbeatKeepsLedger DEF Heartbeat, IInv
<1>3. CASE FailStop(p, l, t)
  BY <1>1, <1>3, FailStopKeepsLedger DEF FailStop, IInv
<1>4. CASE MarkRunning(p, l, t)
  <2>1. /\ {"QUEUED"} \in SUBSET Active /\ "RUNNING" \in Status \ {"QUEUED"}
        /\ "ADMISSION" \in Phase /\ "LIVE_EXECUTION_UNVERIFIED" \in Mode
        /\ NoResult \in Result /\ "RUN_STARTED" \in EventType
    BY DEF Active, Status, Phase, Mode, Result, EventType
  <2>2. LedgerInv'
    BY <1>1, <1>4, <2>1, TransitionKeepsLedger DEF MarkRunning
  <2> QED
    BY <1>1, <1>4, <2>2 DEF MarkRunning, IInv
<1>5. CASE MarkBlocked(p, l, t)
  <2>1. /\ {"QUEUED"} \in SUBSET Active /\ "BLOCKED" \in Status \ {"QUEUED"}
        /\ "ADMISSION" \in Phase /\ "NOT_STARTED" \in Mode
        /\ NoResult \in Result /\ "RUN_BLOCKED" \in EventType
    BY DEF Active, Status, Phase, Mode, Result, EventType
  <2>2. LedgerInv'
    BY <1>1, <1>5, <2>1, TransitionKeepsLedger DEF MarkBlocked
  <2> QED
    BY <1>1, <1>5, <2>2 DEF MarkBlocked, IInv
<1>6. CASE MarkCleanupPending(p, l, t)
  <2>1. /\ {"RUNNING"} \in SUBSET Active
        /\ "CLEANUP_PENDING" \in Status \ {"QUEUED"}
        /\ "COMPLETE" \in Phase /\ "LIVE_EXECUTION_UNVERIFIED" \in Mode
        /\ NoResult \in Result /\ "RUN_CLEANUP_PENDING" \in EventType
    BY DEF Active, Status, Phase, Mode, Result, EventType
  <2>2. LedgerInv'
    BY <1>1, <1>6, <2>1, TransitionKeepsLedger DEF MarkCleanupPending
  <2> QED
    BY <1>1, <1>6, <2>2 DEF MarkCleanupPending, IInv
<1>7. ASSUME NEW type \in {"PHASE_STARTED", "PHASE_COMPLETED"},
             NEW ph \in WorkPhase, AppendProgress(p, l, t, type, ph)
      PROVE  IInv'
  <2>1. type \in EventType /\ ph \in Phase
    BY DEF EventType, WorkPhase
  <2>2. LedgerInv'
    BY <1>1, <1>7, <2>1, AppendProgressKeepsLedger
  <2> QED
    BY <1>1, <1>7, <2>2 DEF AppendProgress, IInv
<1>8. ASSUME NEW s \in Settlement, BeginSucceed(p, l, t, s)
      PROVE  IInv'
  <2>1. [op |-> "SUCCEED", lease |-> l, mode |-> "LIVE_CODEX_SDK",
         result |-> s, at |-> t] \in Call
    BY <1>1 DEF Call, Mode, Result
  <2> QED
    BY <1>1, <1>8, <2>1, UnchangedKeepsLedger DEF BeginSucceed, IInv
<1>9. ASSUME NEW op \in {"POISON", "FAIL", "FAIL_SETTLED"},
             BeginFailure(p, l, t, op)
      PROVE  IInv'
  <2>1. runs[l.run].mode \in Mode
    BY <1>1, <1>9 DEF BeginFailure, LedgerInv, RowsTyped, Row
  <2>2. [op |-> op, lease |-> l, mode |-> runs[l.run].mode,
         result |-> NoResult, at |-> t] \in Call
    BY <1>1, <2>1 DEF Call, Result
  <2> QED
    BY <1>1, <1>9, <2>2, UnchangedKeepsLedger DEF BeginFailure, IInv
<1> QED
  BY <1>2, <1>3, <1>4, <1>5, <1>6, <1>7, <1>8, <1>9 DEF HolderStep

LEMMA InitEstablishesIInv == Init => IInv
<1> SUFFICES ASSUME Init PROVE IInv
  OBVIOUS
<1>1. DOMAIN runs = {} /\ RowsTyped
  BY DEF Init, RowsTyped
<1>2. auth \in Authority
  BY DEF Init, Authority
<1>3. OneBlockingRun /\ HighWaterCoversRuns /\ AuthorityBindsActiveRun
  BY <1>1 DEF Init, OneBlockingRun, HighWaterCoversRuns,
     AuthorityBindsActiveRun, ActiveRuns, Bound
<1>4. leases \in [Process -> SUBSET Lease] /\ call \in [Process -> Call]
  BY DEF Init, Call
<1> QED
  BY <1>1, <1>2, <1>3, <1>4 DEF IInv, LedgerInv

LEMMA NextKeepsIInv ==
  ASSUME IInv, [Next]_vars
  PROVE  IInv'
<1>1. /\ LedgerInv
      /\ leases \in [Process -> SUBSET Lease] /\ call \in [Process -> Call]
  BY DEF IInv
<1>2. CASE UNCHANGED vars
  BY <1>1, <1>2, UnchangedKeepsLedger DEF vars, IInv
<1>3. ASSUME NEW p \in Process, NEW t \in Time, BeginReconcile(p, t)
      PROVE  IInv'
  <2>1. [op |-> "RECONCILE", at |-> t] \in Call
    BY DEF Call
  <2> QED
    BY <1>1, <1>3, <2>1, UnchangedKeepsLedger DEF BeginReconcile, IInv
<1>4. ASSUME NEW p \in Process, FinishReconcile(p)
      PROVE  IInv'
  <2>1. call[p].at \in Time /\ NoCall \in Call
    BY <1>1, <1>4, CallFields DEF FinishReconcile, Call
  <2>2. LedgerInv'
    BY <1>1, <1>4, <2>1, ReconcileKeepsLedger, UnchangedKeepsLedger
       DEF FinishReconcile
  <2> QED
    BY <1>1, <1>4, <2>1, <2>2 DEF FinishReconcile, IInv
<1>5. ASSUME NEW p \in Process, NEW key \in Key, NEW input \in Input,
             NEW t \in Time, BeginAdmission(p, key, input, t)
      PROVE  IInv'
  <2>1. \A op \in {"ADMIT_RECONCILE", "ADMIT"} :
          [op |-> op, key |-> key, input |-> input, at |-> t] \in Call
    BY DEF Call
  <2>2. call' \in [Process -> Call]
    BY <1>1, <1>5, <2>1 DEF BeginAdmission
  <2> QED
    BY <1>1, <1>5, <2>2, UnchangedKeepsLedger DEF BeginAdmission, IInv
<1>6. ASSUME NEW p \in Process, ReconcileBeforeAdmission(p)
      PROVE  IInv'
  <2>1. /\ call[p].at \in Time /\ NoCall \in Call
        /\ [call[p] EXCEPT !.op = "ADMIT"] \in Call
    BY <1>1, <1>6, CallFields DEF ReconcileBeforeAdmission, Call
  <2>2. call' \in [Process -> Call]
    BY <1>1, <1>6, <2>1 DEF ReconcileBeforeAdmission
  <2>3. LedgerInv'
    BY <1>1, <1>6, <2>1, ReconcileKeepsLedger, UnchangedKeepsLedger
       DEF ReconcileBeforeAdmission
  <2> QED
    BY <1>1, <1>6, <2>2, <2>3 DEF ReconcileBeforeAdmission, IInv
<1>7. ASSUME NEW p \in Process, ReturnExisting(p)
      PROVE  IInv'
  <2>1. call[p].at \in Time /\ NoCall \in Call
    BY <1>1, <1>7, CallFields DEF ReturnExisting, Call
  <2>2. /\ auth' \in Authority /\ auth'.highWater = call[p].at
        /\ auth'.owner = auth.owner /\ auth'.run = auth.run
        /\ auth.highWater <= call[p].at
    BY <1>1, <1>7, <2>1, ObservedAuthority
       DEF ReturnExisting, LedgerInv, CanReturnExisting, TimeAccepted
  <2>3. UNCHANGED <<runs, leases>>
    BY <1>7 DEF ReturnExisting
  <2>4. HighWaterCoversRuns'
    BY <1>1, <2>1, <2>2, <2>3, TimeAssumption, HighWaterStep
  <2>5. LedgerInv'
    BY <1>1, <2>2, <2>3, <2>4 DEF LedgerInv, RowsTyped, OneBlockingRun,
       AuthorityBindsActiveRun, ActiveRuns, Bound
  <2> QED
    BY <1>1, <1>7, <2>1, <2>3, <2>5 DEF ReturnExisting, IInv
<1>8. ASSUME NEW p \in Process, NEW r \in RunId, InsertRun(p, r)
      PROVE  IInv'
  <2>1. /\ call[p].key \in Key /\ call[p].input \in Input
        /\ call[p].at \in Time /\ NoCall \in Call
    BY <1>1, <1>8, CallFields DEF InsertRun, Call
  <2>2. LedgerInv'
    BY <1>1, <1>8, <2>1, InsertRunKeepsLedger
  <2>3. [run |-> r, generation |-> auth.generation + 1] \in Lease
    BY <1>1 DEF Lease, LedgerInv, Authority
  <2>4. leases' \in [Process -> SUBSET Lease]
    BY <1>1, <1>8, <2>3 DEF InsertRun
  <2> QED
    BY <1>1, <1>8, <2>1, <2>2, <2>4 DEF InsertRun, IInv
<1>9. ASSUME NEW p \in Process, RefuseAdmission(p)
      PROVE  IInv'
  BY <1>1, <1>9, UnchangedKeepsLedger DEF RefuseAdmission, IInv, Call
<1>10. ASSUME NEW p \in Process, NEW l \in leases[p], NEW t \in Time,
              HolderStep(p, l, t)
       PROVE  IInv'
  BY <1>10, HolderStepKeepsIInv
<1>11. ASSUME NEW p \in Process,
              \/ MarkSucceeded(p) \/ MarkPoisoned(p) \/ MarkFailed(p)
              \/ MarkFailedAfterVerifiedSettlement(p)
       PROVE  IInv'
  <2>1. PICK op \in {"SUCCEED", "POISON", "FAIL", "FAIL_SETTLED"},
             allowed \in SUBSET Active, status \in Terminal,
             type \in EventType : FinishMark(p, op, allowed, status, type)
    <3>1. /\ {"RUNNING"} \in SUBSET Active /\ {"QUEUED"} \in SUBSET Active
          /\ {"RUNNING", "CLEANUP_PENDING"} \in SUBSET Active
          /\ "SUCCEEDED" \in Terminal /\ "FAILED" \in Terminal
          /\ "POISONED" \in Terminal /\ "RUN_SUCCEEDED" \in EventType
          /\ "RUN_FAILED" \in EventType /\ "RUN_POISONED" \in EventType
      BY DEF Active, Terminal, Settled, EventType
    <3> QED
      BY <1>11, <3>1 DEF MarkSucceeded, MarkPoisoned, MarkFailed,
         MarkFailedAfterVerifiedSettlement
  <2>2. LedgerInv'
    BY <1>1, <2>1, FinishMarkKeepsLedger
  <2>3. UNCHANGED leases /\ call' = [call EXCEPT ![p] = NoCall]
    BY <2>1 DEF FinishMark
  <2> QED
    BY <1>1, <2>2, <2>3 DEF IInv, Call
<1>12. ASSUME NEW p \in Process, NEW policy \in Policy, Prune(p, policy)
       PROVE  IInv'
  BY <1>1, <1>12, PruneKeepsLedger DEF Prune, IInv
<1>13. ASSUME NEW p \in Process, Crash(p)
       PROVE  IInv'
  BY <1>1, <1>13, UnchangedKeepsLedger DEF Crash, IInv, Call
<1> QED
  BY <1>2, <1>3, <1>4, <1>5, <1>6, <1>7, <1>8, <1>9, <1>10, <1>11, <1>12,
     <1>13 DEF Next

-----------------------------------------------------------------------------
(* Theorems                                                                *)

LEMMA InvariantOfSpec == Spec => []IInv
<1> QED
  BY InitEstablishesIInv, NextKeepsIInv, PTL DEF Spec

\* The rows, the authority row, the leases and the open calls keep their types.
THEOREM LedgerTypeCorrect == Spec => []TypeOK
<1>1. IInv => TypeOK
  BY TypesOfRuns DEF IInv, LedgerInv
<1> QED
  BY <1>1, InvariantOfSpec, PTL

\* However many processes race through admission and recovery, at most one run
\* is active or poisoned.
THEOREM AdmissionIsSingleFlight == Spec => []OneBlockingRun
<1>1. IInv => OneBlockingRun
  BY DEF IInv, LedgerInv
<1> QED
  BY <1>1, InvariantOfSpec, PTL

\* The authority row names the active run whenever there is one, and else
\* nothing.
THEOREM AuthorityFollowsActiveRun == Spec => []AuthorityBindsActiveRun
<1>1. IInv => AuthorityBindsActiveRun
  BY DEF IInv, LedgerInv
<1> QED
  BY <1>1, InvariantOfSpec, PTL

\* No run is stored with a time ahead of the high-water mark, so the check
\* that opening the file makes holds after a crash at any step.
THEOREM HighWaterIsAhead == Spec => []HighWaterCoversRuns
<1>1. IInv => HighWaterCoversRuns
  BY DEF IInv, LedgerInv
<1> QED
  BY <1>1, InvariantOfSpec, PTL

-----------------------------------------------------------------------------
(* Finished runs stand                                                     *)

\* The row of r is as it was, or retention took it.
Stands(r) == IF r \in DOMAIN runs' THEN runs'[r] = runs[r]
                                   ELSE runs[r].status # "POISONED"

LEMMA ActiveRowReplaced ==
  ASSUME NEW x \in DOMAIN runs, runs[x].status \in Active, NEW row,
         runs' = [runs EXCEPT ![x] = row],
         NEW r \in DOMAIN runs, runs[r].status \in Terminal
  PROVE  Stands(r)
BY DEF Stands, Active, Terminal, Settled

LEMMA TransitionStands ==
  ASSUME NEW p, NEW l, NEW t, NEW allowed \in SUBSET Active,
         TransitionAccepted(p, l, t, allowed),
         NEW status, NEW phase, NEW mode, NEW result, NEW type,
         Transition(l, t, status, phase, mode, result, type),
         NEW r \in DOMAIN runs, runs[r].status \in Terminal
  PROVE  Stands(r)
<1> DEFINE row == Moved(runs[l.run], t, status, phase, mode, result, type)
<1>1. runs' = [runs EXCEPT ![l.run] = row]
  BY DEF Transition
<1>2. l.run \in DOMAIN runs /\ runs[l.run].status \in Active
  BY DEF TransitionAccepted
<1> HIDE DEF row
<1> QED
  BY <1>1, <1>2, ActiveRowReplaced

LEMMA ReconcileStands ==
  ASSUME NEW t, Reconcile(t),
         NEW r \in DOMAIN runs, runs[r].status \in Terminal
  PROVE  Stands(r)
<1>1. RecoveredRow(runs[r], t) = runs[r]
  BY DEF RecoveredRow, Active, Terminal, Settled
<1> QED
  BY <1>1 DEF Reconcile, Stands

LEMMA HolderStepStands ==
  ASSUME NEW p, NEW l, NEW t, HolderStep(p, l, t),
         NEW r \in DOMAIN runs, runs[r].status \in Terminal
  PROVE  Stands(r)
<1>1. CASE \/ Heartbeat(p, l, t)
           \/ \E s \in Settlement : BeginSucceed(p, l, t, s)
           \/ \E op \in {"POISON", "FAIL", "FAIL_SETTLED"} :
                BeginFailure(p, l, t, op)
  BY <1>1 DEF Heartbeat, BeginSucceed, BeginFailure, Stands
<1>2. CASE FailStop(p, l, t)
  <2>1. CASE runs[l.run].status \in Terminal
    BY <1>2, <2>1 DEF FailStop, Stands
  <2>2. CASE runs[l.run].status \notin Terminal
    <3> DEFINE u == LogicalTime(t)
               row == RecoveredRow(runs[l.run], u)
    <3>1. l.run \in DOMAIN runs /\ runs' = [runs EXCEPT ![l.run] = row]
      BY <1>2, <2>2 DEF FailStop
    <3> HIDE DEF row
    <3> QED
      BY <2>2, <3>1 DEF Stands
  <2> QED
    BY <2>1, <2>2
<1>3. CASE MarkRunning(p, l, t)
  <2>1. {"QUEUED"} \in SUBSET Active
    BY DEF Active
  <2> QED
    BY <1>3, <2>1, TransitionStands DEF MarkRunning
<1>4. CASE MarkBlocked(p, l, t)
  <2>1. {"QUEUED"} \in SUBSET Active
    BY DEF Active
  <2> QED
    BY <1>4, <2>1, TransitionStands DEF MarkBlocked
<1>5. CASE MarkCleanupPending(p, l, t)
  <2>1. {"RUNNING"} \in SUBSET Active
    BY DEF Active
  <2> QED
    BY <1>5, <2>1, TransitionStands DEF MarkCleanupPending
<1>6. ASSUME NEW type \in {"PHASE_STARTED", "PHASE_COMPLETED"},
             NEW ph \in WorkPhase, AppendProgress(p, l, t, type, ph)
      PROVE  Stands(r)
  <2> DEFINE row == Progressed(runs[l.run], t, type, ph)
  <2>1. /\ l.run \in DOMAIN runs /\ runs[l.run].status \in Active
        /\ runs' = [runs EXCEPT ![l.run] = row]
    BY <1>6 DEF AppendProgress, Active
  <2> HIDE DEF row
  <2> QED
    BY <2>1, ActiveRowReplaced
<1> QED
  BY <1>1, <1>2, <1>3, <1>4, <1>5, <1>6 DEF HolderStep

LEMMA StepStands ==
  ASSUME [Next]_vars, NEW r \in DOMAIN runs, runs[r].status \in Terminal
  PROVE  Stands(r)
<1>1. CASE UNCHANGED runs
  BY <1>1 DEF Stands
<1>2. ASSUME NEW t, Reconcile(t)
      PROVE  Stands(r)
  BY <1>2, ReconcileStands
<1>3. ASSUME NEW p \in Process, NEW x \in RunId, InsertRun(p, x)
      PROVE  Stands(r)
  BY <1>3 DEF InsertRun, Stands
<1>4. ASSUME NEW p \in Process, NEW l \in leases[p], NEW t \in Time,
             HolderStep(p, l, t)
      PROVE  Stands(r)
  BY <1>4, HolderStepStands
<1>5. ASSUME NEW p \in Process, NEW op, NEW allowed \in SUBSET Active,
             NEW status, NEW type, FinishMark(p, op, allowed, status, type)
      PROVE  Stands(r)
  BY <1>1, <1>5, TransitionStands DEF FinishMark
<1>6. ASSUME NEW p \in Process,
             \/ MarkSucceeded(p) \/ MarkPoisoned(p) \/ MarkFailed(p)
             \/ MarkFailedAfterVerifiedSettlement(p)
      PROVE  Stands(r)
  <2>1. /\ {"RUNNING"} \in SUBSET Active /\ {"QUEUED"} \in SUBSET Active
        /\ {"RUNNING", "CLEANUP_PENDING"} \in SUBSET Active
    BY DEF Active
  <2> QED
    BY <1>5, <1>6, <2>1 DEF MarkSucceeded, MarkPoisoned, MarkFailed,
       MarkFailedAfterVerifiedSettlement
<1>7. ASSUME NEW p \in Process, NEW policy \in Policy, Prune(p, policy)
      PROVE  Stands(r)
  BY <1>7 DEF Prune, PrunableRuns, Settled, Stands
<1> QED
  <2>1. CASE UNCHANGED vars
    BY <1>1, <2>1 DEF vars
  <2>2. ASSUME NEW p \in Process,
               \/ \E t \in Time : BeginReconcile(p, t)
               \/ FinishReconcile(p)
               \/ \E key \in Key, input \in Input, t \in Time :
                    BeginAdmission(p, key, input, t)
               \/ ReconcileBeforeAdmission(p)
               \/ ReturnExisting(p) \/ RefuseAdmission(p) \/ Crash(p)
        PROVE  Stands(r)
    BY <1>1, <1>2, <2>2 DEF BeginReconcile, FinishReconcile, BeginAdmission,
       ReconcileBeforeAdmission, ReturnExisting, RefuseAdmission, Crash
  <2> QED
    BY <1>3, <1>4, <1>6, <1>7, <2>1, <2>2 DEF Next

\* A finished run is never rewritten, and a poisoned one never deleted.
THEOREM FinishedRunsAreFinal == Spec => FinishedRunsStand
<1>1. [Next]_vars => [\A r \in DOMAIN runs : runs[r].status \in Terminal =>
                       Stands(r)]_vars
  BY StepStands
<1> QED
  BY <1>1, PTL DEF Spec, FinishedRunsStand, Stands

-----------------------------------------------------------------------------
(***************************************************************************)
(* What the logs and the evidence say, and the promise of the ledger       *)
(***************************************************************************)

-----------------------------------------------------------------------------
(* Logs                                                                    *)

LEMMA ExecutionLogIs ==
  /\ Len(ExecutionLog) = 10
  /\ ExecutionLog[1] = Entry("RUN_CREATED", "ADMISSION")
  /\ ExecutionLog[2] = Entry("RUN_STARTED", "ADMISSION")
  /\ ExecutionLog[3] = Entry("PHASE_STARTED", "CARTOGRAPHY")
  /\ ExecutionLog[4] = Entry("PHASE_COMPLETED", "CARTOGRAPHY")
  /\ ExecutionLog[5] = Entry("PHASE_STARTED", "REPAIR")
  /\ ExecutionLog[6] = Entry("PHASE_COMPLETED", "REPAIR")
  /\ ExecutionLog[7] = Entry("PHASE_STARTED", "VERIFICATION")
  /\ ExecutionLog[8] = Entry("PHASE_COMPLETED", "VERIFICATION")
  /\ ExecutionLog[9] = Entry("PHASE_STARTED", "REVIEW")
  /\ ExecutionLog[10] = Entry("PHASE_COMPLETED", "REVIEW")
BY DEF ExecutionLog

LEMMA EntryFields ==
  ASSUME NEW type, NEW ph
  PROVE  Entry(type, ph).type = type /\ Entry(type, ph).phase = ph
BY DEF Entry

LEMMA PrefixKept ==
  ASSUME NEW log \in Seq(Event), NEW e \in Event, NEW n \in 0..Len(log),
         FollowsExecution(log, n)
  PROVE  FollowsExecution(Append(log, e), n)
<1>1. \A i \in 1..n : Append(log, e)[i] = log[i]
  OBVIOUS
<1> QED
  BY <1>1 DEF FollowsExecution

LEMMA PrefixExtended ==
  ASSUME NEW log \in Seq(Event), Len(log) < 10,
         FollowsExecution(log, Len(log))
  PROVE  FollowsExecution(Append(log, ExecutionLog[Len(log) + 1]), Len(log) + 1)
<1> DEFINE e == ExecutionLog[Len(log) + 1]
<1>1. \A i \in 1..Len(log) : Append(log, e)[i] = log[i]
  OBVIOUS
<1>2. Append(log, e)[Len(log) + 1] = e /\ Len(log) + 1 <= 10
  OBVIOUS
<1>3. \A i \in 1..Len(log) : log[i] = ExecutionLog[i]
  BY DEF FollowsExecution
<1>4. \A i \in 1..(Len(log) + 1) : Append(log, e)[i] = ExecutionLog[i]
  BY <1>1, <1>2, <1>3
<1> QED
  BY <1>2, <1>4, ExecutionLogIs DEF FollowsExecution

LEMMA LengthIsEvenOrOdd ==
  ASSUME NEW n \in Nat, n >= 2, n <= 10
  PROVE  n \in {2, 4, 6, 8, 10} \/ n \in {3, 5, 7, 9}
OBVIOUS

LEMMA RunningLog ==
  ASSUME NEW row \in Row, row.status = "RUNNING", LogMatchesStatus(row)
  PROVE  /\ row.log \in Seq(Event) /\ Len(row.log) \in Nat
         /\ Len(row.log) >= 2 /\ Len(row.log) <= 10
         /\ FollowsExecution(row.log, Len(row.log))
         /\ LastEntry(row.log) = ExecutionLog[Len(row.log)]
         /\ row.phase = ExecutionLog[Len(row.log)].phase
         /\ \/ Len(row.log) \in {2, 4, 6, 8, 10}
            \/ Len(row.log) \in {3, 5, 7, 9}
<1>1. row.log \in Seq(Event) /\ Len(row.log) \in Nat
  BY DEF Row
<1>2. /\ Len(row.log) >= 2 /\ FollowsExecution(row.log, Len(row.log))
      /\ row.phase = row.log[Len(row.log)].phase
  BY DEF LogMatchesStatus
<1>3. Len(row.log) <= 10
  BY <1>2, ExecutionLogIs DEF FollowsExecution
<1>4. row.log[Len(row.log)] = ExecutionLog[Len(row.log)]
  <2>1. Len(row.log) \in 1..Len(row.log)
    BY <1>1, <1>2
  <2> QED
    BY <1>2, <2>1 DEF FollowsExecution
<1>5. LastEntry(row.log) = row.log[Len(row.log)]
  BY DEF LastEntry
<1> QED
  BY <1>1, <1>2, <1>3, <1>4, <1>5, LengthIsEvenOrOdd

\* The next progress entry that appendProgress accepts is the next entry of an
\* execution, and none is accepted after the review.
LEMMA NextEntryIsOrdered ==
  ASSUME NEW row \in Row, row.status = "RUNNING", LogMatchesStatus(row),
         NEW type, NEW ph \in WorkPhase,
         \/ type = "PHASE_STARTED" /\ StartIsOrdered(row, ph)
         \/ type = "PHASE_COMPLETED" /\ CompletionIsOrdered(row, ph)
  PROVE  /\ Len(row.log) < 10
         /\ Entry(type, ph) = ExecutionLog[Len(row.log) + 1]
<1> DEFINE n == Len(row.log)
<1>1. /\ n \in Nat /\ n <= 10
      /\ LastEntry(row.log) = ExecutionLog[n]
      /\ row.phase = ExecutionLog[n].phase
      /\ n \in {2, 4, 6, 8, 10} \/ n \in {3, 5, 7, 9}
  BY RunningLog
<1> SUFFICES n < 10 /\ Entry(type, ph) = ExecutionLog[n + 1]
  OBVIOUS
<1> HIDE DEF n
<1>4. CASE type = "PHASE_STARTED" /\ StartIsOrdered(row, ph)
  <2>1. n \notin {3, 5, 7, 9}
    <3>1. ExecutionLog[n].type \in {"RUN_STARTED", "PHASE_COMPLETED"}
      BY <1>1, <1>4, EntryFields DEF StartIsOrdered
    <3> QED
      BY <3>1, ExecutionLogIs, EntryFields
  <2>2. n \in {2, 4, 6, 8, 10} /\ ph = NextPhase[row.phase]
    BY <1>1, <1>4, <2>1 DEF StartIsOrdered
  <2>3. n # 10
    <3>1. n = 10 => row.phase = "REVIEW"
      BY <1>1, ExecutionLogIs, EntryFields
    <3> QED
      BY <2>2, <3>1 DEF NextPhase, WorkPhase, Phase
  <2>4. /\ n = 2 => row.phase = "ADMISSION"
        /\ n = 4 => row.phase = "CARTOGRAPHY"
        /\ n = 6 => row.phase = "REPAIR"
        /\ n = 8 => row.phase = "VERIFICATION"
    BY <1>1, ExecutionLogIs, EntryFields
  <2>5. /\ n = 2 => ph = "CARTOGRAPHY"
        /\ n = 4 => ph = "REPAIR"
        /\ n = 6 => ph = "VERIFICATION"
        /\ n = 8 => ph = "REVIEW"
    BY <2>2, <2>4 DEF NextPhase, Phase
  <2> QED
    <3>1. CASE n = 2
      BY <1>4, <2>5, <3>1, ExecutionLogIs
    <3>2. CASE n = 4
      BY <1>4, <2>5, <3>2, ExecutionLogIs
    <3>3. CASE n = 6
      BY <1>4, <2>5, <3>3, ExecutionLogIs
    <3>4. CASE n = 8
      BY <1>4, <2>5, <3>4, ExecutionLogIs
    <3> QED
      BY <2>2, <2>3, <3>1, <3>2, <3>3, <3>4
<1>5. CASE type = "PHASE_COMPLETED" /\ CompletionIsOrdered(row, ph)
  <2>1. ExecutionLog[n] = Entry("PHASE_STARTED", ph)
    BY <1>1, <1>5 DEF CompletionIsOrdered
  <2>2. n \notin {2, 4, 6, 8, 10}
    BY <2>1, ExecutionLogIs, EntryFields
  <2>3. n \in {3, 5, 7, 9}
    BY <1>1, <2>2
  <2>4. /\ n = 3 => ph = "CARTOGRAPHY"
        /\ n = 5 => ph = "REPAIR"
        /\ n = 7 => ph = "VERIFICATION"
        /\ n = 9 => ph = "REVIEW"
    BY <2>1, ExecutionLogIs, EntryFields
  <2> QED
    <3>1. CASE n = 3
      BY <1>5, <2>4, <3>1, ExecutionLogIs
    <3>2. CASE n = 5
      BY <1>5, <2>4, <3>2, ExecutionLogIs
    <3>3. CASE n = 7
      BY <1>5, <2>4, <3>3, ExecutionLogIs
    <3>4. CASE n = 9
      BY <1>5, <2>4, <3>4, ExecutionLogIs
    <3> QED
      BY <2>3, <3>1, <3>2, <3>3, <3>4
<1> QED
  BY <1>4, <1>5

\* A running run whose last entry closes the review has recorded everything.
LEMMA ReviewIsLast ==
  ASSUME NEW row \in Row, row.status = "RUNNING", LogMatchesStatus(row),
         LastEntry(row.log) = Entry("PHASE_COMPLETED", "REVIEW")
  PROVE  Len(row.log) = 10
<1> DEFINE n == Len(row.log)
<1>1. /\ ExecutionLog[n] = Entry("PHASE_COMPLETED", "REVIEW")
      /\ n \in {2, 4, 6, 8, 10} \/ n \in {3, 5, 7, 9}
  BY RunningLog
<1> HIDE DEF n
<1>2. n = 10
  BY <1>1, ExecutionLogIs, EntryFields
<1> QED
  BY <1>2 DEF n

-----------------------------------------------------------------------------
(* Each change of a row keeps its log and its evidence in order             *)

RowSound(r, row) ==
  /\ LogMatchesStatus(row) /\ Len(row.log) <= 12
  /\ EvidenceMatchesStatus(r, row)

\* An active row has at most 11 entries, so its closing entry always fits.
LEMMA ActiveLog ==
  ASSUME NEW r, NEW row \in Row, RowSound(r, row), row.status \in Active
  PROVE  /\ row.log \in Seq(Event) /\ Len(row.log) \in 1..11
         /\ row.status = "CLEANUP_PENDING" \/
              (FollowsExecution(row.log, Len(row.log)) /\ Len(row.log) <= 10)
<1>1. row.log \in Seq(Event) /\ Len(row.log) \in Nat
  BY DEF Row
<1>2. CASE row.status = "QUEUED"
  <2>1. Len(row.log) = 1 /\ FollowsExecution(row.log, 1)
    BY <1>2 DEF RowSound, LogMatchesStatus
  <2> QED
    BY <1>1, <2>1
<1>3. CASE row.status = "RUNNING"
  BY <1>1, <1>3, RunningLog DEF RowSound
<1>4. CASE row.status = "CLEANUP_PENDING"
  <2>1. Len(row.log) >= 3 /\ FollowsExecution(row.log, Len(row.log) - 1)
    BY <1>4 DEF RowSound, LogMatchesStatus
  <2>2. Len(row.log) - 1 <= 10
    BY <2>1, ExecutionLogIs DEF FollowsExecution
  <2>3. Len(row.log) \in 1..11
    <3> DEFINE n == Len(row.log)
    <3>1. n \in Nat /\ n >= 3 /\ n - 1 <= 10
      BY <1>1, <2>1, <2>2
    <3> HIDE DEF n
    <3>2. n \in 1..11
      BY <3>1
    <3> QED
      BY <3>2 DEF n
  <2> QED
    BY <1>1, <1>4, <2>3
<1> QED
  BY <1>2, <1>3, <1>4 DEF Active

LEMMA AppendedEntry ==
  ASSUME NEW log \in Seq(Event), NEW type \in EventType, NEW ph \in Phase
  PROVE  LET new == Append(log, Entry(type, ph)) IN
         /\ Len(log) \in Nat /\ Len(new) = Len(log) + 1
         /\ new[Len(log) + 1] = Entry(type, ph)
         /\ \A n \in 1..Len(log) : new[n] = log[n]
         /\ \A n \in 0..Len(log) :
              FollowsExecution(log, n) => FollowsExecution(new, n)
<1> DEFINE e == Entry(type, ph)
<1>1. e \in Event
  BY DEF Entry, Event
<1> HIDE DEF e
<1>2. /\ Len(log) \in Nat /\ Len(Append(log, e)) = Len(log) + 1
      /\ Append(log, e)[Len(log) + 1] = e
      /\ \A n \in 1..Len(log) : Append(log, e)[n] = log[n]
  BY <1>1
<1>3. \A n \in 0..Len(log) :
        FollowsExecution(log, n) => FollowsExecution(Append(log, e), n)
  BY <1>1, PrefixKept
<1> QED
  BY <1>2, <1>3 DEF e

LEMMA CreatedRowSound ==
  ASSUME NEW r, NEW c
  PROVE  RowSound(r, CreatedRow(c))
<1> DEFINE row == CreatedRow(c)
<1>1. /\ row.status = "QUEUED" /\ row.phase = "ADMISSION"
      /\ row.mode = "NOT_STARTED" /\ row.result = NoResult
      /\ row.log = <<Entry("RUN_CREATED", "ADMISSION")>>
  BY DEF CreatedRow
<1>2. Len(row.log) = 1 /\ row.log[1] = Entry("RUN_CREATED", "ADMISSION")
  BY <1>1
<1> HIDE DEF row
<1>3. FollowsExecution(row.log, 1)
  BY <1>2, ExecutionLogIs DEF FollowsExecution
<1> QED
  BY <1>1, <1>2, <1>3 DEF RowSound, LogMatchesStatus, EvidenceMatchesStatus, row

\* From QUEUED: markRunning and markBlocked.
LEMMA StartedRowSound ==
  ASSUME NEW r, NEW row \in Row, RowSound(r, row), row.status = "QUEUED",
         NEW t \in Time
  PROVE  /\ RowSound(r, Moved(row, t, "RUNNING", "ADMISSION",
                              "LIVE_EXECUTION_UNVERIFIED", NoResult,
                              "RUN_STARTED"))
         /\ RowSound(r, Moved(row, t, "BLOCKED", "ADMISSION", "NOT_STARTED",
                              NoResult, "RUN_BLOCKED"))
<1>1. /\ row.log \in Seq(Event) /\ Len(row.log) = 1
      /\ FollowsExecution(row.log, 1)
  BY DEF RowSound, LogMatchesStatus, Row
<1>2. /\ "RUNNING" \in Status /\ "BLOCKED" \in Status /\ "ADMISSION" \in Phase
      /\ "LIVE_EXECUTION_UNVERIFIED" \in Mode /\ "NOT_STARTED" \in Mode
      /\ NoResult \in Result /\ "RUN_STARTED" \in EventType
      /\ "RUN_BLOCKED" \in EventType
  BY DEF Status, Phase, Mode, Result, EventType
<1>3. RowSound(r, Moved(row, t, "RUNNING", "ADMISSION",
                        "LIVE_EXECUTION_UNVERIFIED", NoResult, "RUN_STARTED"))
  <2> DEFINE m == Moved(row, t, "RUNNING", "ADMISSION",
                        "LIVE_EXECUTION_UNVERIFIED", NoResult, "RUN_STARTED")
  <2>1. /\ m.status = "RUNNING" /\ m.phase = "ADMISSION"
        /\ m.mode = "LIVE_EXECUTION_UNVERIFIED" /\ m.result = NoResult
        /\ m.log = Append(row.log, Entry("RUN_STARTED", "ADMISSION"))
    BY <1>2, MovedRow
  <2> HIDE DEF m
  <2>2. Len(m.log) = 2 /\ m.log[2] = Entry("RUN_STARTED", "ADMISSION")
    BY <1>1, <1>2, <2>1, AppendedEntry
  <2>3. FollowsExecution(m.log, 2)
    <3>1. Len(row.log) + 1 = 2 /\ Len(row.log) < 10
      BY <1>1
    <3>2. FollowsExecution(row.log, Len(row.log))
      BY <1>1
    <3>3. FollowsExecution(Append(row.log, ExecutionLog[Len(row.log) + 1]),
                           Len(row.log) + 1)
      BY <1>1, <3>1, <3>2, PrefixExtended
    <3> QED
      BY <2>1, <3>1, <3>3, ExecutionLogIs
  <2> QED
    BY <2>1, <2>2, <2>3, EntryFields
       DEF RowSound, LogMatchesStatus, EvidenceMatchesStatus, m
<1>4. RowSound(r, Moved(row, t, "BLOCKED", "ADMISSION", "NOT_STARTED",
                        NoResult, "RUN_BLOCKED"))
  <2> DEFINE m == Moved(row, t, "BLOCKED", "ADMISSION", "NOT_STARTED",
                        NoResult, "RUN_BLOCKED")
  <2>1. /\ m.status = "BLOCKED" /\ m.mode = "NOT_STARTED"
        /\ m.result = NoResult
        /\ m.log = Append(row.log, Entry("RUN_BLOCKED", "ADMISSION"))
    BY <1>2, MovedRow
  <2> HIDE DEF m
  <2>2. /\ Len(m.log) = 2 /\ m.log[2] = Entry("RUN_BLOCKED", "ADMISSION")
        /\ FollowsExecution(m.log, 1)
    BY <1>1, <1>2, <2>1, AppendedEntry
  <2> QED
    BY <2>1, <2>2 DEF RowSound, LogMatchesStatus, EvidenceMatchesStatus, m
<1> QED
  BY <1>3, <1>4

\* From RUNNING: appendProgress.
LEMMA ProgressedRowSound ==
  ASSUME NEW r, NEW row \in Row, RowSound(r, row), row.status = "RUNNING",
         NEW t \in Time, NEW type \in {"PHASE_STARTED", "PHASE_COMPLETED"},
         NEW ph \in WorkPhase,
         \/ type = "PHASE_STARTED" /\ StartIsOrdered(row, ph)
         \/ type = "PHASE_COMPLETED" /\ CompletionIsOrdered(row, ph)
  PROVE  RowSound(r, Progressed(row, t, type, ph))
<1> DEFINE m == Progressed(row, t, type, ph)
           n == Len(row.log)
<1>1. type \in EventType /\ ph \in Phase
  BY DEF EventType, WorkPhase
<1>2. /\ m.status = "RUNNING" /\ m.phase = ph /\ m.mode = row.mode
      /\ m.result = row.result /\ m.log = Append(row.log, Entry(type, ph))
  BY <1>1, ProgressedRow
<1>3. /\ row.log \in Seq(Event) /\ n \in Nat /\ n >= 2
      /\ FollowsExecution(row.log, n)
  BY RunningLog DEF RowSound
<1>4. n < 10 /\ Entry(type, ph) = ExecutionLog[n + 1]
  BY NextEntryIsOrdered DEF RowSound
<1>5. FollowsExecution(m.log, n + 1)
  BY <1>2, <1>3, <1>4, PrefixExtended
<1>6. Len(m.log) = n + 1 /\ m.log[n + 1] = Entry(type, ph)
  BY <1>1, <1>2, <1>3, AppendedEntry
<1> HIDE DEF m, n
<1>7. n + 1 >= 2 /\ n + 1 <= 12
  BY <1>3, <1>4
<1>8. LogMatchesStatus(m)
  BY <1>2, <1>5, <1>6, <1>7, EntryFields DEF LogMatchesStatus
<1>9. EvidenceMatchesStatus(r, m)
  BY <1>2 DEF RowSound, EvidenceMatchesStatus
<1> QED
  BY <1>6, <1>7, <1>8, <1>9 DEF RowSound, m

\* From RUNNING: markCleanupPending.
LEMMA PendingRowSound ==
  ASSUME NEW r, NEW row \in Row, RowSound(r, row), row.status = "RUNNING",
         NEW t \in Time
  PROVE  RowSound(r, Moved(row, t, "CLEANUP_PENDING", "COMPLETE",
                           "LIVE_EXECUTION_UNVERIFIED", NoResult,
                           "RUN_CLEANUP_PENDING"))
<1> DEFINE m == Moved(row, t, "CLEANUP_PENDING", "COMPLETE",
                      "LIVE_EXECUTION_UNVERIFIED", NoResult,
                      "RUN_CLEANUP_PENDING")
           n == Len(row.log)
<1>1. /\ "CLEANUP_PENDING" \in Status /\ "COMPLETE" \in Phase
      /\ "LIVE_EXECUTION_UNVERIFIED" \in Mode /\ NoResult \in Result
      /\ "RUN_CLEANUP_PENDING" \in EventType
  BY DEF Status, Phase, Mode, Result, EventType
<1>2. /\ m.status = "CLEANUP_PENDING" /\ m.mode = "LIVE_EXECUTION_UNVERIFIED"
      /\ m.result = NoResult
      /\ m.log = Append(row.log, Entry("RUN_CLEANUP_PENDING", "COMPLETE"))
  BY <1>1, MovedRow
<1>3. /\ row.log \in Seq(Event) /\ n \in Nat /\ n >= 2 /\ n <= 10
      /\ FollowsExecution(row.log, n)
  BY RunningLog DEF RowSound
<1>4. n \in 0..Len(row.log)
  BY <1>3
<1>5. /\ Len(m.log) = n + 1
      /\ m.log[n + 1] = Entry("RUN_CLEANUP_PENDING", "COMPLETE")
      /\ FollowsExecution(m.log, n)
  <2> DEFINE new == Append(row.log, Entry("RUN_CLEANUP_PENDING", "COMPLETE"))
  <2>1. /\ Len(new) = n + 1
        /\ new[n + 1] = Entry("RUN_CLEANUP_PENDING", "COMPLETE")
        /\ \A i \in 0..n :
             FollowsExecution(row.log, i) => FollowsExecution(new, i)
    BY <1>1, <1>3, AppendedEntry
  <2>2. m.log = new
    BY <1>2
  <2> HIDE DEF m, new
  <2> QED
    BY <1>3, <1>4, <2>1, <2>2
<1> HIDE DEF m, n
<1>6. n + 1 >= 3 /\ n + 1 <= 12 /\ (n + 1) - 1 = n
  BY <1>3
<1>7. LogMatchesStatus(m)
  BY <1>2, <1>5, <1>6 DEF LogMatchesStatus
<1> QED
  BY <1>2, <1>5, <1>6, <1>7 DEF RowSound, EvidenceMatchesStatus, m

\* A closing entry after an active log.
LEMMA ClosedLogOfActive ==
  ASSUME NEW r, NEW row \in Row, RowSound(r, row), row.status \in Active,
         NEW type \in EventType, NEW least \in {1, 2},
         row.status = "QUEUED" => least = 1
  PROVE  LET new == Append(row.log, Entry(type, "COMPLETE")) IN
         ClosedLog(new, least, type) /\ Len(new) <= 12
<1> DEFINE new == Append(row.log, Entry(type, "COMPLETE"))
           n == Len(row.log)
<1>1. "COMPLETE" \in Phase
  BY DEF Phase
<1>2. /\ row.log \in Seq(Event) /\ n \in 1..11
      /\ row.status = "CLEANUP_PENDING" \/ FollowsExecution(row.log, n)
  BY ActiveLog
<1>3. /\ Len(new) = n + 1 /\ new[n + 1] = Entry(type, "COMPLETE")
      /\ \A i \in 1..n : new[i] = row.log[i]
      /\ \A i \in 0..n : FollowsExecution(row.log, i) => FollowsExecution(new, i)
  BY <1>1, <1>2, AppendedEntry
<1>4. n + 1 > least
  <2>1. row.status # "QUEUED" => n >= 2
    BY DEF Active, RowSound, LogMatchesStatus
  <2> HIDE DEF n
  <2>2. CASE row.status = "QUEUED"
    BY <1>2, <2>2
  <2>3. CASE row.status # "QUEUED"
    BY <1>2, <2>1, <2>3
  <2> QED
    BY <2>2, <2>3
<1>5. CASE row.status # "CLEANUP_PENDING"
  <2> HIDE DEF new, n
  <2>1. FollowsExecution(new, n) /\ (n + 1) - 1 = n /\ n + 1 <= 12
    BY <1>2, <1>3, <1>5
  <2> QED
    BY <1>3, <1>4, <2>1 DEF ClosedLog, new
<1>6. CASE row.status = "CLEANUP_PENDING"
  <2>1. /\ n >= 3 /\ FollowsExecution(row.log, n - 1)
        /\ row.log[n] = Entry("RUN_CLEANUP_PENDING", "COMPLETE")
    BY <1>6 DEF RowSound, LogMatchesStatus
  <2> HIDE DEF new, n
  <2>2. /\ n - 1 \in 0..n /\ n \in 1..n /\ (n + 1) - 1 = n
        /\ (n + 1) - 2 = n - 1 /\ n + 1 > least + 1 /\ n + 1 <= 12
    BY <1>2, <2>1
  <2>3. /\ FollowsExecution(new, n - 1)
        /\ new[n] = Entry("RUN_CLEANUP_PENDING", "COMPLETE")
    BY <1>3, <2>1, <2>2
  <2> QED
    BY <1>3, <1>4, <2>2, <2>3 DEF ClosedLog, new
<1> QED
  BY <1>5, <1>6

\* Failing and poisoning, by a mark or by recovery.
LEMMA FailedRowSound ==
  ASSUME NEW r, NEW row \in Row, RowSound(r, row), row.status \in Active,
         NEW t \in Time, NEW mode \in Mode \ {"LIVE_CODEX_SDK"}
  PROVE  /\ RowSound(r, Moved(row, t, "FAILED", "COMPLETE", mode, NoResult,
                              "RUN_FAILED"))
         /\ row.status # "QUEUED" =>
              RowSound(r, Moved(row, t, "POISONED", "COMPLETE", mode,
                                NoResult, "RUN_POISONED"))
<1>1. /\ "FAILED" \in Status /\ "POISONED" \in Status /\ "COMPLETE" \in Phase
      /\ NoResult \in Result /\ mode \in Mode
      /\ "RUN_FAILED" \in EventType /\ "RUN_POISONED" \in EventType
  BY DEF Status, Phase, Result, EventType
<1>2. RowSound(r, Moved(row, t, "FAILED", "COMPLETE", mode, NoResult,
                        "RUN_FAILED"))
  <2> DEFINE m == Moved(row, t, "FAILED", "COMPLETE", mode, NoResult,
                        "RUN_FAILED")
  <2>1. /\ m.status = "FAILED" /\ m.mode = mode /\ m.result = NoResult
        /\ m.log = Append(row.log, Entry("RUN_FAILED", "COMPLETE"))
    BY <1>1, MovedRow
  <2>2. ClosedLog(m.log, 1, "RUN_FAILED") /\ Len(m.log) <= 12
    BY <1>1, <2>1, ClosedLogOfActive
  <2> HIDE DEF m
  <2> QED
    BY <2>1, <2>2 DEF RowSound, LogMatchesStatus, EvidenceMatchesStatus, m
<1>3. ASSUME row.status # "QUEUED"
      PROVE  RowSound(r, Moved(row, t, "POISONED", "COMPLETE", mode, NoResult,
                               "RUN_POISONED"))
  <2> DEFINE m == Moved(row, t, "POISONED", "COMPLETE", mode, NoResult,
                        "RUN_POISONED")
  <2>1. /\ m.status = "POISONED" /\ m.mode = mode /\ m.result = NoResult
        /\ m.log = Append(row.log, Entry("RUN_POISONED", "COMPLETE"))
    BY <1>1, MovedRow
  <2>2. ClosedLog(m.log, 2, "RUN_POISONED") /\ Len(m.log) <= 12
    BY <1>1, <1>3, <2>1, ClosedLogOfActive
  <2> HIDE DEF m
  <2> QED
    BY <2>1, <2>2 DEF RowSound, LogMatchesStatus, EvidenceMatchesStatus, m
<1> QED
  BY <1>2, <1>3

LEMMA RecoveredRowSound ==
  ASSUME NEW r, NEW row \in Row, RowSound(r, row), NEW t \in Time
  PROVE  RowSound(r, RecoveredRow(row, t))
<1>1. row.status \in Active => row.mode \in Mode \ {"LIVE_CODEX_SDK"}
  BY DEF RowSound, EvidenceMatchesStatus, Row, Active
<1>2. CASE row.status = "QUEUED"
  BY <1>1, <1>2, FailedRowSound DEF RecoveredRow, Active
<1>3. CASE row.status \in Active \ {"QUEUED"}
  BY <1>1, <1>3, FailedRowSound DEF RecoveredRow
<1>4. CASE row.status \notin Active
  BY <1>4 DEF RecoveredRow, Active
<1> QED
  BY <1>2, <1>3, <1>4

\* markSucceeded, for a run whose review is completed and a result of its own.
LEMMA SucceededRowSound ==
  ASSUME NEW r, NEW row \in Row, RowSound(r, row), row.status = "RUNNING",
         LastEntry(row.log) = Entry("PHASE_COMPLETED", "REVIEW"),
         NEW t \in Time, NEW result \in Settlement,
         result.passing, result.run = r, result.input = row.input
  PROVE  RowSound(r, Moved(row, t, "SUCCEEDED", "COMPLETE", "LIVE_CODEX_SDK",
                           result, "RUN_SUCCEEDED"))
<1> DEFINE m == Moved(row, t, "SUCCEEDED", "COMPLETE", "LIVE_CODEX_SDK",
                      result, "RUN_SUCCEEDED")
<1>1. /\ "SUCCEEDED" \in Status /\ "COMPLETE" \in Phase
      /\ "LIVE_CODEX_SDK" \in Mode /\ result \in Result
      /\ "RUN_SUCCEEDED" \in EventType
  BY DEF Status, Phase, Mode, Result, EventType
<1>2. /\ m.status = "SUCCEEDED" /\ m.mode = "LIVE_CODEX_SDK"
      /\ m.result = result /\ m.input = row.input
      /\ m.log = Append(row.log, Entry("RUN_SUCCEEDED", "COMPLETE"))
  BY <1>1, MovedRow
<1>3. /\ row.log \in Seq(Event) /\ Len(row.log) = 10
      /\ FollowsExecution(row.log, 10)
  BY RunningLog, ReviewIsLast DEF RowSound
<1>4. /\ Len(m.log) = 11 /\ m.log[11] = Entry("RUN_SUCCEEDED", "COMPLETE")
      /\ FollowsExecution(m.log, 10)
  <2> DEFINE new == Append(row.log, Entry("RUN_SUCCEEDED", "COMPLETE"))
           n == Len(row.log)
  <2>1. /\ Len(new) = n + 1 /\ new[n + 1] = Entry("RUN_SUCCEEDED", "COMPLETE")
        /\ \A i \in 0..n :
             FollowsExecution(row.log, i) => FollowsExecution(new, i)
    <3>1. row.log \in Seq(Event)
      BY <1>3
    <3> QED
      BY <1>1, <3>1, AppendedEntry
  <2>2. m.log = new
    BY <1>2
  <2>3. n = 10 /\ FollowsExecution(row.log, 10)
    BY <1>3
  <2> HIDE DEF m, new, n
  <2>4. n + 1 = 11 /\ 10 \in 0..n
    BY <2>3
  <2> QED
    BY <2>1, <2>2, <2>3, <2>4
<1>5. result # NoResult
  BY DEF NoResult, Settlement
<1> HIDE DEF m
<1>6. LogMatchesStatus(m) /\ Len(m.log) <= 12
  BY <1>2, <1>4 DEF LogMatchesStatus
<1>7. EvidenceMatchesStatus(r, m)
  BY <1>2, <1>5 DEF EvidenceMatchesStatus
<1> QED
  BY <1>6, <1>7 DEF RowSound, m

-----------------------------------------------------------------------------
(* The inductive invariant of logs and evidence                            *)

MarkOp == {"SUCCEED", "POISON", "FAIL", "FAIL_SETTLED"}

RowsSound == \A r \in DOMAIN runs : RowSound(r, runs[r])

\* Generations only grow, so a lease that does not match any more never will.
LeasesAreOld(p) ==
  /\ \A l \in leases[p] : l.generation <= auth.generation
  /\ call[p].op \in MarkOp => call[p].lease.generation <= auth.generation

\* What a mark read before its transaction is still so, while the lease it was
\* called with is the current one.
MarkHolds(p) ==
  call[p].op \in MarkOp /\ LeaseMatches(p, call[p].lease) =>
    LET r == call[p].lease.run IN
    IF call[p].op = "SUCCEED"
      THEN /\ LastEntry(runs[r].log) = Entry("PHASE_COMPLETED", "REVIEW")
           /\ call[p].mode = "LIVE_CODEX_SDK"
           /\ call[p].result \in Settlement /\ call[p].result.passing
           /\ call[p].result.run = r /\ call[p].result.input = runs[r].input
      ELSE call[p].mode # "LIVE_CODEX_SDK" /\ call[p].result = NoResult

HistoryInv ==
  /\ RowsSound
  /\ OneRunPerRequest
  /\ \A p \in Process : LeasesAreOld(p) /\ MarkHolds(p)

\* What a step of process q does to the ledger and leaves alone for others.
Undisturbed(p) ==
  \A l \in Lease : LeaseMatches(p, l)' /\ l.generation <= auth.generation =>
    LeaseMatches(p, l) /\ runs'[l.run] = runs[l.run]
Effects(q) ==
  /\ RowsSound' /\ OneRunPerRequest'
  /\ auth'.generation >= auth.generation
  /\ \A p \in Process \ {q} : Undisturbed(p)

LEMMA GenerationIsNat ==
  ASSUME LedgerInv PROVE auth.generation \in Nat
BY DEF LedgerInv, Authority

LEMMA QuietStepEffects ==
  ASSUME LedgerInv, HistoryInv, NEW q \in Process, UNCHANGED runs,
         auth'.owner = auth.owner, auth'.run = auth.run,
         auth'.generation = auth.generation
  PROVE  Effects(q)
BY GenerationIsNat DEF Effects, HistoryInv, RowsSound, OneRunPerRequest,
   Undisturbed, LeaseMatches

\* A row of a run that q holds is replaced; then q or nobody holds a lease.
LEMMA ReplacedRowEffects ==
  ASSUME LedgerInv, HistoryInv, NEW q \in Process, NEW r \in DOMAIN runs,
         NEW row, RowSound(r, row), row.key = runs[r].key,
         runs' = [runs EXCEPT ![r] = row],
         auth'.owner \in {q, None}, auth'.generation = auth.generation
  PROVE  Effects(q)
<1>1. /\ DOMAIN runs' = DOMAIN runs /\ runs'[r] = row
      /\ \A x \in DOMAIN runs : x # r => runs'[x] = runs[x]
  OBVIOUS
<1>2. RowsSound'
  BY <1>1 DEF RowsSound, HistoryInv
<1>3. OneRunPerRequest'
  BY <1>1 DEF OneRunPerRequest, HistoryInv
<1>4. \A p \in Process \ {q} : Undisturbed(p)
  BY NoneAssumption DEF Undisturbed, LeaseMatches
<1> QED
  BY <1>2, <1>3, <1>4, GenerationIsNat DEF Effects

LEMMA TransitionEffects ==
  ASSUME LedgerInv, HistoryInv, NEW q \in Process, NEW l \in Lease,
         NEW t \in Time, NEW allowed \in SUBSET Active,
         TransitionAccepted(q, l, t, allowed),
         NEW status \in Status, NEW phase \in Phase, NEW mode \in Mode,
         NEW result \in Result, NEW type \in EventType,
         RowSound(l.run, Moved(runs[l.run], t, status, phase, mode, result,
                               type)),
         Transition(l, t, status, phase, mode, result, type)
  PROVE  Effects(q)
<1> DEFINE row == Moved(runs[l.run], t, status, phase, mode, result, type)
<1>1. /\ l.run \in DOMAIN runs /\ auth.owner = q /\ auth \in Authority
      /\ runs[l.run] \in Row
  BY DEF TransitionAccepted, LeaseCurrent, LeaseMatches, LedgerInv, RowsTyped
<1>2. row.key = runs[l.run].key
  BY <1>1, MovedRow
<1>3. runs' = [runs EXCEPT ![l.run] = row]
  BY DEF Transition
<1>4. auth'.owner \in {q, None} /\ auth'.generation = auth.generation
  BY <1>1, ObservedAuthority DEF Transition
<1> HIDE DEF row
<1>5. RowSound(l.run, row)
  BY DEF row
<1> QED
  BY <1>1, <1>2, <1>3, <1>4, <1>5, ReplacedRowEffects

LEMMA ReconcileEffects ==
  ASSUME LedgerInv, HistoryInv, NEW q \in Process, NEW t \in Time,
         ReconcileAccepted(t), Reconcile(t)
  PROVE  Effects(q)
<1>1. /\ auth \in Authority /\ ActiveRuns \subseteq {auth.run}
      /\ DOMAIN runs' = DOMAIN runs
      /\ \A x \in DOMAIN runs : runs'[x] = IF x \in Unowned(t)
                                  THEN RecoveredRow(runs[x], t) ELSE runs[x]
  BY DEF LedgerInv, AuthorityBindsActiveRun, Reconcile
<1>2. ASSUME NEW x \in DOMAIN runs
      PROVE  RowSound(x, runs'[x]) /\ runs'[x].key = runs[x].key
  <2>1. runs[x] \in Row /\ RowSound(x, runs[x])
    BY DEF LedgerInv, RowsTyped, HistoryInv, RowsSound
  <2>2. RowSound(x, RecoveredRow(runs[x], t))
    BY <2>1, RecoveredRowSound
  <2>3. RecoveredRow(runs[x], t).key = runs[x].key
    BY <2>1, RecoveredRowIs
  <2> QED
    BY <1>1, <2>1, <2>2, <2>3
<1>3. RowsSound' /\ OneRunPerRequest'
  BY <1>1, <1>2 DEF RowsSound, OneRunPerRequest, HistoryInv
<1>4. CASE Bound /\ auth.expires <= t
  <2>1. auth'.owner = None /\ auth'.generation = auth.generation
    BY <1>1, <1>4, ObservedAuthority DEF Reconcile
  <2> QED
    BY <1>3, <2>1, NoneAssumption, GenerationIsNat
       DEF Effects, Undisturbed, LeaseMatches
<1>5. CASE ~(Bound /\ auth.expires <= t)
  <2>1. Unowned(t) = {}
    BY <1>1, <1>5, NoneAssumption
       DEF Unowned, Bound, LedgerInv, RowsTyped, ActiveRuns
  <2>2. \A x \in DOMAIN runs : runs'[x] = runs[x]
    BY <1>1, <2>1
  <2>3. /\ auth'.owner = auth.owner /\ auth'.run = auth.run
        /\ auth'.generation = auth.generation
    BY <1>1, <1>5, ObservedAuthority DEF Reconcile
  <2>4. \A p \in Process \ {q} : Undisturbed(p)
    <3> SUFFICES ASSUME NEW p \in Process, NEW l \in Lease, LeaseMatches(p, l)'
                 PROVE  LeaseMatches(p, l) /\ runs'[l.run] = runs[l.run]
      BY DEF Undisturbed
    <3>1. LeaseMatches(p, l)
      BY <2>3 DEF LeaseMatches
    <3>2. l.run \in DOMAIN runs
      BY <3>1, LeaseNamesActiveRun
    <3> QED
      BY <2>2, <3>1, <3>2
  <2> QED
    BY <1>3, <2>3, <2>4, GenerationIsNat DEF Effects
<1> QED
  BY <1>4, <1>5

LEMMA AppendProgressEffects ==
  ASSUME LedgerInv, HistoryInv, NEW q \in Process, NEW l \in Lease,
         NEW t \in Time, NEW type \in {"PHASE_STARTED", "PHASE_COMPLETED"},
         NEW ph \in WorkPhase, AppendProgress(q, l, t, type, ph)
  PROVE  Effects(q)
<1> DEFINE row == Progressed(runs[l.run], t, type, ph)
<1>1. /\ l.run \in DOMAIN runs /\ auth.owner = q /\ auth \in Authority
      /\ runs[l.run] \in Row /\ runs[l.run].status = "RUNNING"
      /\ RowSound(l.run, runs[l.run])
      /\ \/ type = "PHASE_STARTED" /\ StartIsOrdered(runs[l.run], ph)
         \/ type = "PHASE_COMPLETED" /\ CompletionIsOrdered(runs[l.run], ph)
  BY DEF AppendProgress, LeaseCurrent, LeaseMatches, LedgerInv, RowsTyped,
     HistoryInv, RowsSound
<1>2. RowSound(l.run, row)
  BY <1>1, ProgressedRowSound
<1>3. row.key = runs[l.run].key
  <2>1. type \in EventType /\ ph \in Phase
    BY DEF EventType, WorkPhase
  <2> QED
    BY <1>1, <2>1, ProgressedRow
<1>4. runs' = [runs EXCEPT ![l.run] = row]
  BY DEF AppendProgress
<1>5. auth'.owner \in {q, None} /\ auth'.generation = auth.generation
  BY <1>1, ObservedAuthority DEF AppendProgress
<1> HIDE DEF row
<1> QED
  BY <1>1, <1>2, <1>3, <1>4, <1>5, ReplacedRowEffects

LEMMA FailStopEffects ==
  ASSUME LedgerInv, HistoryInv, NEW q \in Process, NEW l \in Lease,
         NEW t \in Time, FailStop(q, l, t)
  PROVE  Effects(q)
<1> DEFINE u == LogicalTime(t)
           row == RecoveredRow(runs[l.run], u)
<1>1. /\ u \in Time /\ auth \in Authority /\ l.run \in DOMAIN runs
      /\ runs[l.run] \in Row /\ RowSound(l.run, runs[l.run])
  BY LogicalTimeIs DEF FailStop, LedgerInv, RowsTyped, HistoryInv, RowsSound
<1>2. CASE runs[l.run].status \in Terminal
  <2>1. UNCHANGED runs /\ auth' = Observe(auth, u)
    BY <1>2 DEF FailStop
  <2> HIDE DEF u
  <2>2. /\ auth'.owner = auth.owner /\ auth'.run = auth.run
        /\ auth'.generation = auth.generation
    BY <1>1, <2>1, ObservedAuthority
  <2> QED
    BY <2>1, <2>2, QuietStepEffects
<1>3. CASE runs[l.run].status \notin Terminal
  <2>1. /\ LeaseMatches(q, l) \/ ~Bound
        /\ runs' = [runs EXCEPT ![l.run] = row]
        /\ auth' = IF LeaseMatches(q, l) THEN Clear(Observe(auth, u))
                                         ELSE Observe(auth, u)
    BY <1>3 DEF FailStop
  <2>2. RowSound(l.run, row) /\ row.key = runs[l.run].key
    BY <1>1, RecoveredRowSound, RecoveredRowIs
  <2>3. auth'.owner \in {q, None} /\ auth'.generation = auth.generation
    <3> HIDE DEF u, row
    <3>1. LeaseMatches(q, l) \/ auth.owner = None
      BY <2>1 DEF LedgerInv, AuthorityBindsActiveRun
    <3> QED
      BY <1>1, <2>1, <3>1, ObservedAuthority
  <2> HIDE DEF row
  <2> QED
    BY <1>1, <2>1, <2>2, <2>3, ReplacedRowEffects
<1> QED
  BY <1>2, <1>3

LEMMA InsertRunEffects ==
  ASSUME LedgerInv, HistoryInv, NEW q \in Process, NEW r \in RunId,
         InsertRun(q, r)
  PROVE  Effects(q)
<1> DEFINE row == CreatedRow(call[q])
<1>1. RowSound(r, row) /\ row.key = call[q].key
  BY CreatedRowSound DEF CreatedRow
<1>2. /\ DOMAIN runs' = DOMAIN runs \cup {r} /\ runs'[r] = row
      /\ r \notin DOMAIN runs
      /\ \A x \in DOMAIN runs : runs'[x] = runs[x]
      /\ \A x \in DOMAIN runs : runs[x].key # call[q].key
      /\ auth'.owner = q /\ auth'.generation = auth.generation + 1
  BY DEF InsertRun, CanInsert, RowsOf
<1> HIDE DEF row
<1>3. RowsSound'
  BY <1>1, <1>2 DEF HistoryInv, RowsSound
<1>4. OneRunPerRequest'
  BY <1>1, <1>2 DEF HistoryInv, OneRunPerRequest
<1>5. \A p \in Process \ {q} : Undisturbed(p)
  BY <1>2 DEF Undisturbed, LeaseMatches
<1> QED
  BY <1>2, <1>3, <1>4, <1>5, GenerationIsNat DEF Effects

LEMMA PruneEffects ==
  ASSUME LedgerInv, HistoryInv, NEW q \in Process, NEW policy \in Policy,
         Prune(q, policy)
  PROVE  Effects(q)
<1>1. /\ DOMAIN runs' = DOMAIN runs \ PrunableRuns(policy) /\ UNCHANGED auth
      /\ \A x \in DOMAIN runs' : x \in DOMAIN runs /\ runs'[x] = runs[x]
  BY DEF Prune
<1>2. RowsSound' /\ OneRunPerRequest'
  BY <1>1 DEF HistoryInv, RowsSound, OneRunPerRequest
<1>3. \A p \in Process \ {q} : Undisturbed(p)
  <2> SUFFICES ASSUME NEW p \in Process, NEW l \in Lease, LeaseMatches(p, l)'
               PROVE  LeaseMatches(p, l) /\ runs'[l.run] = runs[l.run]
    BY DEF Undisturbed
  <2>1. LeaseMatches(p, l)
    BY <1>1 DEF LeaseMatches
  <2>2. l.run \in DOMAIN runs /\ l.run \in ActiveRuns
    BY <2>1, LeaseNamesActiveRun
  <2>3. l.run \notin PrunableRuns(policy)
    BY <2>2 DEF PrunableRuns, ActiveRuns, Active, Settled
  <2> QED
    BY <1>1, <2>1, <2>2, <2>3
<1> QED
  BY <1>1, <1>2, <1>3, GenerationIsNat DEF Effects

\* A mark whose transaction is let through finds the row it read.
LEMMA FinishMarkEffects ==
  ASSUME IInv, HistoryInv, NEW q \in Process,
         \/ MarkSucceeded(q) \/ MarkPoisoned(q) \/ MarkFailed(q)
         \/ MarkFailedAfterVerifiedSettlement(q)
  PROVE  Effects(q)
<1> DEFINE c == call[q]
           l == c.lease
           t == c.at
<1>1. /\ LedgerInv /\ c.op \in MarkOp /\ l \in Lease /\ t \in Time
      /\ c.mode \in Mode /\ c.result \in Result /\ MarkHolds(q)
  <2>1. call[q] \in Call /\ c.op \in MarkOp
    BY DEF IInv, MarkSucceeded, MarkPoisoned, MarkFailed, MarkOp,
       MarkFailedAfterVerifiedSettlement, FinishMark
  <2> QED
    BY <2>1, CallFields DEF IInv, HistoryInv, MarkOp
<1>2. "COMPLETE" \in Phase
  BY DEF Phase
<1>3. ASSUME NEW op \in MarkOp, NEW allowed \in SUBSET Active,
             NEW status \in Status, NEW type \in EventType,
             FinishMark(q, op, allowed, status, type),
             TransitionAccepted(q, l, t, allowed) =>
               RowSound(l.run, Moved(runs[l.run], t, status, "COMPLETE",
                                     c.mode, c.result, type))
      PROVE  Effects(q)
  <2>1. CASE TransitionAccepted(q, l, t, allowed)
    <3>1. Transition(l, t, status, "COMPLETE", c.mode, c.result, type)
      BY <1>3, <2>1 DEF FinishMark
    <3> HIDE DEF c, l, t
    <3> QED
      BY <1>1, <1>2, <1>3, <2>1, <3>1, TransitionEffects
  <2>2. CASE ~TransitionAccepted(q, l, t, allowed)
    BY <1>1, <1>3, <2>2, QuietStepEffects DEF FinishMark
  <2> QED
    BY <2>1, <2>2
<1>4. ASSUME NEW allowed \in SUBSET Active, TransitionAccepted(q, l, t, allowed)
      PROVE  /\ LeaseMatches(q, l) /\ l.run \in DOMAIN runs
             /\ runs[l.run] \in Row /\ RowSound(l.run, runs[l.run])
             /\ runs[l.run].status \in allowed
  BY <1>1, <1>4 DEF TransitionAccepted, LeaseCurrent, LedgerInv, RowsTyped,
     HistoryInv, RowsSound
<1>5. /\ {"RUNNING"} \in SUBSET Active /\ {"QUEUED"} \in SUBSET Active
      /\ {"RUNNING", "CLEANUP_PENDING"} \in SUBSET Active
      /\ "SUCCEEDED" \in Status /\ "FAILED" \in Status
      /\ "POISONED" \in Status /\ "RUN_SUCCEEDED" \in EventType
      /\ "RUN_FAILED" \in EventType /\ "RUN_POISONED" \in EventType
  BY DEF Active, Status, EventType
<1>6. CASE MarkSucceeded(q)
  <2>1. c.op = "SUCCEED" /\ "SUCCEED" \in MarkOp
    BY <1>6 DEF MarkSucceeded, FinishMark, MarkOp
  <2>2. ASSUME TransitionAccepted(q, l, t, {"RUNNING"})
        PROVE  RowSound(l.run, Moved(runs[l.run], t, "SUCCEEDED", "COMPLETE",
                                     c.mode, c.result, "RUN_SUCCEEDED"))
    <3>1. /\ LeaseMatches(q, l) /\ runs[l.run] \in Row
          /\ RowSound(l.run, runs[l.run]) /\ runs[l.run].status = "RUNNING"
      BY <1>4, <1>5, <2>2
    <3>2. /\ LastEntry(runs[l.run].log) = Entry("PHASE_COMPLETED", "REVIEW")
          /\ c.mode = "LIVE_CODEX_SDK" /\ c.result \in Settlement
          /\ c.result.passing /\ c.result.run = l.run
          /\ c.result.input = runs[l.run].input
      BY <1>1, <2>1, <3>1 DEF MarkHolds
    <3> HIDE DEF c, l, t
    <3> QED
      BY <1>1, <3>1, <3>2, SucceededRowSound
  <2> QED
    BY <1>3, <1>5, <1>6, <2>1, <2>2 DEF MarkSucceeded
<1>7. CASE ~MarkSucceeded(q)
  <2>1. /\ c.op \in MarkOp /\ c.op # "SUCCEED"
        /\ {"POISON", "FAIL", "FAIL_SETTLED"} \subseteq MarkOp
    BY <1>7 DEF MarkPoisoned, MarkFailed, MarkFailedAfterVerifiedSettlement,
       FinishMark, MarkOp
  <2>2. ASSUME NEW allowed \in SUBSET Active,
               TransitionAccepted(q, l, t, allowed)
        PROVE  /\ RowSound(l.run, Moved(runs[l.run], t, "FAILED", "COMPLETE",
                                        c.mode, c.result, "RUN_FAILED"))
               /\ "QUEUED" \notin allowed =>
                    RowSound(l.run, Moved(runs[l.run], t, "POISONED",
                                          "COMPLETE", c.mode, c.result,
                                          "RUN_POISONED"))
    <3>1. /\ LeaseMatches(q, l) /\ runs[l.run] \in Row
          /\ RowSound(l.run, runs[l.run])
          /\ runs[l.run].status \in Active
          /\ "QUEUED" \notin allowed => runs[l.run].status # "QUEUED"
      BY <1>4, <2>2
    <3>2. c.mode \in Mode \ {"LIVE_CODEX_SDK"} /\ c.result = NoResult
      BY <1>1, <2>1, <3>1 DEF MarkHolds
    <3> HIDE DEF c, l, t
    <3> QED
      BY <1>1, <3>1, <3>2, FailedRowSound
  <2>3. CASE MarkPoisoned(q)
    BY <1>3, <1>5, <2>1, <2>2, <2>3 DEF MarkPoisoned
  <2>4. CASE MarkFailed(q)
    BY <1>3, <1>5, <2>1, <2>2, <2>4 DEF MarkFailed
  <2>5. CASE MarkFailedAfterVerifiedSettlement(q)
    BY <1>3, <1>5, <2>1, <2>2, <2>5 DEF MarkFailedAfterVerifiedSettlement
  <2> QED
    BY <1>7, <2>3, <2>4, <2>5
<1> QED
  BY <1>6, <1>7

\* Effects, and what q itself keeps in memory, give the invariant back.
LEMMA HistoryStep ==
  ASSUME IInv, IInv', HistoryInv, NEW q \in Process, Effects(q),
         \A p \in Process \ {q} : leases'[p] = leases[p] /\ call'[p] = call[p],
         \A l \in leases'[q] :
           l \in leases[q] \/ l.generation <= auth'.generation,
         call'[q].op \in MarkOp => call'[q].lease \in leases[q],
         MarkHolds(q)'
  PROVE  HistoryInv'
<1>1. /\ auth.generation \in Nat /\ auth'.generation \in Nat
      /\ auth'.generation >= auth.generation
      /\ leases \in [Process -> SUBSET Lease] /\ call \in [Process -> Call]
  BY DEF IInv, LedgerInv, Authority, Effects
<1>2. \A p \in Process : LeasesAreOld(p) /\ MarkHolds(p)
  BY DEF HistoryInv
<1>3. \A l \in Lease :
        l.generation <= auth.generation => l.generation <= auth'.generation
  BY <1>1 DEF Lease
<1>4. LeasesAreOld(q)'
  <2>1. \A l \in leases[q] : l \in Lease /\ l.generation <= auth'.generation
    BY <1>1, <1>2, <1>3 DEF LeasesAreOld
  <2> QED
    BY <2>1 DEF LeasesAreOld
<1>5. ASSUME NEW p \in Process \ {q}
      PROVE  LeasesAreOld(p)' /\ MarkHolds(p)'
  <2>1. leases'[p] = leases[p] /\ call'[p] = call[p] /\ LeasesAreOld(p)
    BY <1>2
  <2>2. call[p].op \in MarkOp => call[p].lease \in Lease
    BY <1>1, CallFields DEF MarkOp
  <2>3. LeasesAreOld(p)'
    BY <1>1, <1>3, <2>1, <2>2 DEF LeasesAreOld
  <2>4. ASSUME NEW l \in Lease, l = call[p].lease, call[p].op \in MarkOp,
               LeaseMatches(p, l)'
        PROVE  LeaseMatches(p, l) /\ runs'[l.run] = runs[l.run]
    <3>1. Undisturbed(p) /\ l.generation <= auth.generation
      BY <2>1, <2>4 DEF LeasesAreOld, Effects
    <3> QED
      BY <2>4, <3>1 DEF Undisturbed
  <2>5. MarkHolds(p)'
    <3> SUFFICES ASSUME call[p].op \in MarkOp,
                        NEW l \in Lease, l = call[p].lease, LeaseMatches(p, l)'
                 PROVE  MarkHolds(p)'
      BY <2>1, <2>2 DEF MarkHolds, LeaseMatches
    <3>1. LeaseMatches(p, l) /\ runs'[l.run] = runs[l.run] /\ MarkHolds(p)
      BY <1>2, <2>4
    <3> QED
      BY <2>1, <3>1 DEF MarkHolds
  <2> QED
    BY <2>3, <2>5
<1> QED
  BY <1>4, <1>5 DEF Effects, HistoryInv

\* The steps after which q is inside of no mark.
LEMMA UnmarkedStep ==
  ASSUME IInv, IInv', HistoryInv, NEW q \in Process, Effects(q),
         \A p \in Process \ {q} : leases'[p] = leases[p] /\ call'[p] = call[p],
         \A l \in leases'[q] :
           l \in leases[q] \/ l.generation <= auth'.generation,
         call'[q].op \notin MarkOp
  PROVE  HistoryInv'
<1>1. MarkHolds(q)'
  BY DEF MarkHolds
<1> QED
  BY <1>1, HistoryStep

\* markSucceeded and its siblings read the row, then open their transaction.
LEMMA BeginMarkKeepsHistory ==
  ASSUME IInv, IInv', HistoryInv, NEW q \in Process, NEW l \in leases[q],
         NEW t \in Time,
         \/ \E s \in Settlement : BeginSucceed(q, l, t, s)
         \/ \E op \in {"POISON", "FAIL", "FAIL_SETTLED"} :
              BeginFailure(q, l, t, op)
  PROVE  HistoryInv'
<1>1. /\ leases \in [Process -> SUBSET Lease] /\ call \in [Process -> Call]
      /\ UNCHANGED <<runs, auth, leases>> /\ LedgerInv
      /\ \A p \in Process \ {q} : call'[p] = call[p]
      /\ call'[q].lease = l
  BY DEF IInv, BeginSucceed, BeginFailure
<1>2. Effects(q)
  BY <1>1, QuietStepEffects
<1>3. MarkHolds(q)'
  <2>1. CASE \E s \in Settlement : BeginSucceed(q, l, t, s)
    <3>1. PICK s \in Settlement : BeginSucceed(q, l, t, s)
      BY <2>1
    <3>2. call'[q] = [op |-> "SUCCEED", lease |-> l, mode |-> "LIVE_CODEX_SDK",
                      result |-> s, at |-> t]
      BY <1>1, <3>1 DEF BeginSucceed
    <3>3. /\ LastEntry(runs[l.run].log) = Entry("PHASE_COMPLETED", "REVIEW")
          /\ s.passing /\ s.run = l.run /\ s.input = runs[l.run].input
      BY <3>1 DEF BeginSucceed, ReviewCompleted, SettlementBound
    <3> QED
      BY <1>1, <3>2, <3>3 DEF MarkHolds
  <2>2. CASE \E op \in {"POISON", "FAIL", "FAIL_SETTLED"} :
                BeginFailure(q, l, t, op)
    <3>1. PICK op \in {"POISON", "FAIL", "FAIL_SETTLED"} :
                 BeginFailure(q, l, t, op)
      BY <2>2
    <3>2. call'[q] = [op |-> op, lease |-> l, mode |-> runs[l.run].mode,
                      result |-> NoResult, at |-> t]
      BY <1>1, <3>1 DEF BeginFailure
    <3>3. LeaseMatches(q, l) => runs[l.run].mode # "LIVE_CODEX_SDK"
      <4> SUFFICES ASSUME LeaseMatches(q, l)
                   PROVE  runs[l.run].mode # "LIVE_CODEX_SDK"
        OBVIOUS
      <4>1. l.run \in DOMAIN runs /\ l.run \in ActiveRuns
        BY <1>1, LeaseNamesActiveRun
      <4> QED
        BY <4>1 DEF ActiveRuns, Active, HistoryInv, RowsSound, RowSound,
           EvidenceMatchesStatus
    <3>4. call'[q].op # "SUCCEED" /\ call'[q].mode = runs[l.run].mode
          /\ call'[q].result = NoResult
      BY <3>2
    <3>5. LeaseMatches(q, call[q].lease)' => LeaseMatches(q, l)
      BY <1>1 DEF LeaseMatches
    <3> QED
      BY <3>3, <3>4, <3>5 DEF MarkHolds
  <2> QED
    BY <2>1, <2>2
<1> QED
  BY <1>1, <1>2, <1>3, HistoryStep

LEMMA HolderStepKeepsHistory ==
  ASSUME IInv, IInv', HistoryInv, NEW q \in Process, NEW l \in leases[q],
         NEW t \in Time, HolderStep(q, l, t)
  PROVE  HistoryInv'
<1>1. /\ LedgerInv /\ auth \in Authority /\ l \in Lease
      /\ leases \in [Process -> SUBSET Lease] /\ call \in [Process -> Call]
  BY DEF IInv, LedgerInv
<1>2. ASSUME Effects(q), Idle(q), UNCHANGED <<leases, call>>
      PROVE  HistoryInv'
  <2>1. call'[q].op \notin MarkOp
    BY <1>2 DEF Idle, NoCall, MarkOp
  <2> QED
    BY <1>2, <2>1, UnmarkedStep
<1>3. CASE Heartbeat(q, l, t)
  <2> DEFINE o == Observe(auth, t)
  <2>1. /\ o.owner = auth.owner /\ o.run = auth.run
        /\ o.generation = auth.generation /\ o \in Authority
    BY <1>1, ObservedAuthority
  <2>2. UNCHANGED runs /\ auth' = [o EXCEPT !.expires = t + LeaseDuration]
    BY <1>3 DEF Heartbeat
  <2> HIDE DEF o
  <2>3. Effects(q)
    BY <1>1, <2>1, <2>2, QuietStepEffects DEF Authority
  <2> QED
    BY <1>2, <1>3, <2>3 DEF Heartbeat
<1>4. CASE FailStop(q, l, t)
  BY <1>1, <1>2, <1>4, FailStopEffects DEF FailStop
<1>5. CASE MarkRunning(q, l, t) \/ MarkBlocked(q, l, t)
  <2>1. /\ TransitionAccepted(q, l, t, {"QUEUED"}) /\ Idle(q)
        /\ UNCHANGED <<leases, call>>
    BY <1>5 DEF MarkRunning, MarkBlocked
  <2>2. /\ runs[l.run] \in Row /\ RowSound(l.run, runs[l.run])
        /\ runs[l.run].status = "QUEUED"
    BY <1>1, <2>1 DEF TransitionAccepted, LedgerInv, RowsTyped, HistoryInv,
       RowsSound
  <2>3. /\ {"QUEUED"} \in SUBSET Active /\ "RUNNING" \in Status
        /\ "BLOCKED" \in Status /\ "ADMISSION" \in Phase
        /\ "LIVE_EXECUTION_UNVERIFIED" \in Mode /\ "NOT_STARTED" \in Mode
        /\ NoResult \in Result /\ "RUN_STARTED" \in EventType
        /\ "RUN_BLOCKED" \in EventType
    BY DEF Active, Status, Phase, Mode, Result, EventType
  <2>4. /\ RowSound(l.run, Moved(runs[l.run], t, "RUNNING", "ADMISSION",
                           "LIVE_EXECUTION_UNVERIFIED", NoResult, "RUN_STARTED"))
        /\ RowSound(l.run, Moved(runs[l.run], t, "BLOCKED", "ADMISSION",
                           "NOT_STARTED", NoResult, "RUN_BLOCKED"))
    BY <2>2, StartedRowSound
  <2>5. CASE MarkRunning(q, l, t)
    <3>1. Transition(l, t, "RUNNING", "ADMISSION", "LIVE_EXECUTION_UNVERIFIED",
                     NoResult, "RUN_STARTED")
      BY <2>5 DEF MarkRunning
    <3> QED
      BY <1>1, <1>2, <2>1, <2>3, <2>4, <3>1, TransitionEffects
  <2>6. CASE MarkBlocked(q, l, t)
    <3>1. Transition(l, t, "BLOCKED", "ADMISSION", "NOT_STARTED", NoResult,
                     "RUN_BLOCKED")
      BY <2>6 DEF MarkBlocked
    <3> QED
      BY <1>1, <1>2, <2>1, <2>3, <2>4, <3>1, TransitionEffects
  <2> QED
    BY <1>5, <2>5, <2>6
<1>6. CASE MarkCleanupPending(q, l, t)
  <2>1. /\ TransitionAccepted(q, l, t, {"RUNNING"}) /\ Idle(q)
        /\ UNCHANGED <<leases, call>>
        /\ Transition(l, t, "CLEANUP_PENDING", "COMPLETE",
                      "LIVE_EXECUTION_UNVERIFIED", NoResult,
                      "RUN_CLEANUP_PENDING")
    BY <1>6 DEF MarkCleanupPending
  <2>2. /\ runs[l.run] \in Row /\ RowSound(l.run, runs[l.run])
        /\ runs[l.run].status = "RUNNING"
    BY <1>1, <2>1 DEF TransitionAccepted, LedgerInv, RowsTyped, HistoryInv,
       RowsSound
  <2>3. /\ {"RUNNING"} \in SUBSET Active /\ "CLEANUP_PENDING" \in Status
        /\ "COMPLETE" \in Phase /\ "LIVE_EXECUTION_UNVERIFIED" \in Mode
        /\ NoResult \in Result /\ "RUN_CLEANUP_PENDING" \in EventType
    BY DEF Active, Status, Phase, Mode, Result, EventType
  <2> QED
    BY <1>1, <1>2, <2>1, <2>2, <2>3, PendingRowSound, TransitionEffects
<1>7. ASSUME NEW type \in {"PHASE_STARTED", "PHASE_COMPLETED"},
             NEW ph \in WorkPhase, AppendProgress(q, l, t, type, ph)
      PROVE  HistoryInv'
  <2>1. Effects(q)
    BY <1>1, <1>7, AppendProgressEffects
  <2> QED
    BY <1>2, <1>7, <2>1 DEF AppendProgress
<1> QED
  BY <1>3, <1>4, <1>5, <1>6, <1>7, BeginMarkKeepsHistory DEF HolderStep

LEMMA NextKeepsHistory ==
  ASSUME IInv, IInv', HistoryInv, [Next]_vars
  PROVE  HistoryInv'
<1>1. /\ LedgerInv /\ auth \in Authority
      /\ leases \in [Process -> SUBSET Lease] /\ call \in [Process -> Call]
  BY DEF IInv, LedgerInv
<1>2. CASE UNCHANGED vars
  BY <1>2 DEF vars, HistoryInv, RowsSound, OneRunPerRequest, LeasesAreOld,
     MarkHolds, LeaseMatches
\* Every call that opens or ends, but for the marks.
<1>3. ASSUME NEW q \in Process, NEW c, call' = [call EXCEPT ![q] = c],
             c.op \notin MarkOp, UNCHANGED leases, Effects(q)
      PROVE  HistoryInv'
  <2>1. call'[q] = c /\ \A p \in Process \ {q} : call'[p] = call[p]
    BY <1>1, <1>3
  <2> QED
    BY <1>3, <2>1, UnmarkedStep
<1>4. NoCall.op \notin MarkOp
  BY DEF NoCall, MarkOp
<1>5. ASSUME NEW q \in Process, UNCHANGED <<runs, auth>>
      PROVE  Effects(q)
  BY <1>1, <1>5, QuietStepEffects
<1>6. ASSUME NEW q \in Process, NEW t \in Time, BeginReconcile(q, t)
      PROVE  HistoryInv'
  <2>1. [op |-> "RECONCILE", at |-> t].op \notin MarkOp
    BY DEF MarkOp
  <2> QED
    BY <1>3, <1>5, <1>6, <2>1 DEF BeginReconcile
<1>7. ASSUME NEW q \in Process, FinishReconcile(q)
      PROVE  HistoryInv'
  <2>1. call[q].at \in Time
    BY <1>1, <1>7, CallFields DEF FinishReconcile
  <2>2. Effects(q)
    BY <1>1, <1>5, <1>7, <2>1, ReconcileEffects DEF FinishReconcile
  <2> QED
    BY <1>3, <1>4, <1>7, <2>2 DEF FinishReconcile
<1>8. ASSUME NEW q \in Process, NEW key \in Key, NEW input \in Input,
             NEW t \in Time, BeginAdmission(q, key, input, t)
      PROVE  HistoryInv'
  <2> DEFINE c == [op |-> IF ReconcileNeeded(t) THEN "ADMIT_RECONCILE"
                                                ELSE "ADMIT",
                   key |-> key, input |-> input, at |-> t]
  <2>1. c.op \notin MarkOp
    BY DEF MarkOp
  <2>2. call' = [call EXCEPT ![q] = c] /\ UNCHANGED <<runs, auth, leases>>
    BY <1>8 DEF BeginAdmission
  <2> HIDE DEF c
  <2> QED
    BY <1>3, <1>5, <2>1, <2>2
<1>9. ASSUME NEW q \in Process, ReconcileBeforeAdmission(q)
      PROVE  HistoryInv'
  <2>1. call[q].at \in Time /\ call[q] \in Call
    BY <1>1, <1>9, CallFields DEF ReconcileBeforeAdmission
  <2>2. Effects(q)
    BY <1>1, <1>5, <1>9, <2>1, ReconcileEffects DEF ReconcileBeforeAdmission
  <2>3. call'[q].op \notin MarkOp
    BY <1>1, <1>9, <2>1 DEF ReconcileBeforeAdmission, NoCall, MarkOp, Call
  <2>4. \A p \in Process \ {q} : call'[p] = call[p]
    BY <1>1, <1>9 DEF ReconcileBeforeAdmission
  <2> QED
    BY <1>9, <2>2, <2>3, <2>4, UnmarkedStep DEF ReconcileBeforeAdmission
<1>10. ASSUME NEW q \in Process, ReturnExisting(q)
       PROVE  HistoryInv'
  <2>1. /\ call[q].at \in Time /\ auth' = Observe(auth, call[q].at)
        /\ UNCHANGED runs
    BY <1>1, <1>10, CallFields DEF ReturnExisting
  <2>2. Effects(q)
    BY <1>1, <2>1, ObservedAuthority, QuietStepEffects
  <2> QED
    BY <1>3, <1>4, <1>10, <2>2 DEF ReturnExisting
<1>11. ASSUME NEW q \in Process, NEW r \in RunId, InsertRun(q, r)
       PROVE  HistoryInv'
  <2>1. Effects(q)
    BY <1>1, <1>11, InsertRunEffects
  <2>2. \A p \in Process \ {q} : leases'[p] = leases[p] /\ call'[p] = call[p]
    BY <1>1, <1>11 DEF InsertRun
  <2>3. \A l \in leases'[q] :
          l \in leases[q] \/ l.generation = auth.generation + 1
    BY <1>1, <1>11 DEF InsertRun
  <2>4. auth'.generation = auth.generation + 1 /\ auth'.generation \in Nat
    BY <1>1, <1>11, GenerationIsNat DEF InsertRun
  <2>5. call'[q] = NoCall
    BY <1>1, <1>11 DEF InsertRun
  <2> QED
    BY <1>4, <2>1, <2>2, <2>3, <2>4, <2>5, UnmarkedStep
<1>12. ASSUME NEW q \in Process, RefuseAdmission(q)
       PROVE  HistoryInv'
  BY <1>3, <1>4, <1>5, <1>12 DEF RefuseAdmission
<1>13. ASSUME NEW q \in Process, NEW l \in leases[q], NEW t \in Time,
              HolderStep(q, l, t)
       PROVE  HistoryInv'
  BY <1>13, HolderStepKeepsHistory
<1>14. ASSUME NEW q \in Process,
              \/ MarkSucceeded(q) \/ MarkPoisoned(q) \/ MarkFailed(q)
              \/ MarkFailedAfterVerifiedSettlement(q)
       PROVE  HistoryInv'
  <2>1. Effects(q)
    BY <1>14, FinishMarkEffects
  <2>2. UNCHANGED leases /\ call' = [call EXCEPT ![q] = NoCall]
    BY <1>14 DEF MarkSucceeded, MarkPoisoned, MarkFailed,
       MarkFailedAfterVerifiedSettlement, FinishMark
  <2> QED
    BY <1>3, <1>4, <2>1, <2>2
<1>15. ASSUME NEW q \in Process, NEW policy \in Policy, Prune(q, policy)
       PROVE  HistoryInv'
  <2>1. Effects(q)
    BY <1>1, <1>15, PruneEffects
  <2>2. call'[q] = NoCall /\ UNCHANGED <<leases, call>>
    BY <1>15 DEF Prune, Idle
  <2> QED
    BY <1>4, <2>1, <2>2, UnmarkedStep
<1>16. ASSUME NEW q \in Process, Crash(q)
       PROVE  HistoryInv'
  <2>1. /\ \A p \in Process \ {q} : leases'[p] = leases[p] /\ call'[p] = call[p]
        /\ leases'[q] = {} /\ call'[q] = NoCall
    BY <1>1, <1>16 DEF Crash
  <2>2. Effects(q)
    BY <1>5, <1>16 DEF Crash
  <2> QED
    BY <1>4, <2>1, <2>2, UnmarkedStep
<1> QED
  BY <1>2, <1>6, <1>7, <1>8, <1>9, <1>10, <1>11, <1>12, <1>13, <1>14, <1>15,
     <1>16 DEF Next

LEMMA HistoryOfSpec == Spec => [](IInv /\ HistoryInv)
<1>1. Init => HistoryInv
  <2>1. NoCall.op \notin MarkOp
    BY DEF NoCall, MarkOp
  <2> QED
    BY <2>1 DEF Init, HistoryInv, RowsSound, OneRunPerRequest, LeasesAreOld,
       MarkHolds
<1>2. IInv /\ IInv' /\ HistoryInv /\ [Next]_vars => HistoryInv'
  BY NextKeepsHistory
<1> QED
  BY <1>1, <1>2, InvariantOfSpec, PTL DEF Spec

\* Every stored log is an execution in phase order, cut short at most once and
\* closed by the event of its status, and none reaches the cap on events.
THEOREM LogsAreAlwaysExecutions == Spec => []LogsAreExecutions
<1>1. HistoryInv => LogsAreExecutions
  BY DEF HistoryInv, RowsSound, RowSound, LogsAreExecutions
<1> QED
  BY <1>1, HistoryOfSpec, PTL

\* A success carries passing evidence of its own run and input, and no other
\* run carries any.
THEOREM SuccessAlwaysHasOwnEvidence == Spec => []SuccessHasOwnEvidence
<1>1. HistoryInv => SuccessHasOwnEvidence
  BY DEF HistoryInv, RowsSound, RowSound, SuccessHasOwnEvidence
<1> QED
  BY <1>1, HistoryOfSpec, PTL

\* Retried requests, from any process and however interleaved, share one run.
THEOREM RequestsShareOneRun == Spec => []OneRunPerRequest
<1>1. HistoryInv => OneRunPerRequest
  BY DEF HistoryInv
<1> QED
  BY <1>1, HistoryOfSpec, PTL

-----------------------------------------------------------------------------
(* The promise, in terms of the views of the rows                          *)

StatusView == [r \in RunId |-> RunView(r)]
ProgressView == [r \in RunId |-> RecordedView(r)]
HolderView == auth.owner

-----------------------------------------------------------------------------
(* The actions of the promise, in terms of the views                       *)

LEMMA ViewsAreLedger ==
  Ledger!lifecycleVars = <<StatusView, ProgressView, HolderView>>
BY DEF Ledger!lifecycleVars, StatusView, ProgressView, HolderView

\* The views when the row of one run is replaced.
LEMMA ReplacedView ==
  ASSUME RowsTyped, NEW r \in DOMAIN runs, NEW row,
         runs' = [runs EXCEPT ![r] = row]
  PROVE  /\ r \in RunId /\ StatusView[r] = runs[r].status
         /\ ProgressView[r] = IF runs[r].status = "RUNNING"
                                THEN Len(runs[r].log) - 2 ELSE 0
         /\ StatusView' = [StatusView EXCEPT ![r] = row.status]
         /\ ProgressView' = [ProgressView EXCEPT ![r] =
              IF row.status = "RUNNING" THEN Len(row.log) - 2 ELSE 0]
<1>1. /\ DOMAIN runs' = DOMAIN runs /\ runs'[r] = row /\ r \in RunId
      /\ \A x \in DOMAIN runs : x # r => runs'[x] = runs[x]
  BY DEF RowsTyped
<1>2. \A x \in RunId \ {r} : RunView(x)' = RunView(x)
  BY <1>1 DEF RunView
<1>3. \A x \in RunId \ {r} : RecordedView(x)' = RecordedView(x)
  BY <1>1, <1>2 DEF RunView, RecordedView
<1>4. /\ RunView(r)' = row.status /\ RunView(r) = runs[r].status
      /\ RecordedView(r)' = IF row.status = "RUNNING" THEN Len(row.log) - 2
                                                      ELSE 0
      /\ RecordedView(r) = IF runs[r].status = "RUNNING"
                             THEN Len(runs[r].log) - 2 ELSE 0
  BY <1>1 DEF RunView, RecordedView
<1>5. /\ StatusView' = [StatusView EXCEPT ![r] = row.status]
      /\ StatusView[r] = runs[r].status
  BY <1>1, <1>2, <1>4 DEF StatusView
<1>6. /\ ProgressView' = [ProgressView EXCEPT ![r] =
           IF row.status = "RUNNING" THEN Len(row.log) - 2 ELSE 0]
      /\ ProgressView[r] = IF runs[r].status = "RUNNING"
                             THEN Len(runs[r].log) - 2 ELSE 0
  BY <1>1, <1>3, <1>4 DEF ProgressView
<1> QED
  BY <1>1, <1>5, <1>6

LEMMA RecoveredStatus ==
  ASSUME NEW row \in Row, NEW t \in Time, row.status \in Active
  PROVE  RecoveredRow(row, t).status =
           IF row.status = "QUEUED" THEN "FAILED" ELSE "POISONED"
<1>1. /\ row.mode \in Mode /\ NoResult \in Result
      /\ "FAILED" \in Status /\ "POISONED" \in Status /\ "COMPLETE" \in Phase
      /\ "RUN_FAILED" \in EventType /\ "RUN_POISONED" \in EventType
  BY DEF Row, Result, Status, Phase, EventType
<1>2. CASE row.status = "QUEUED"
  BY <1>1, <1>2, MovedRow DEF RecoveredRow
<1>3. CASE row.status # "QUEUED"
  BY <1>1, <1>3, MovedRow DEF RecoveredRow
<1> QED
  BY <1>2, <1>3

LEMMA UnchangedView ==
  ASSUME UNCHANGED runs, auth'.owner = auth.owner
  PROVE  UNCHANGED Ledger!lifecycleVars
BY DEF Ledger!lifecycleVars, RunView, RecordedView

LEMMA StartOfViews ==
  ASSUME NEW p \in Process, NEW r \in RunId, HolderView = p,
         StatusView[r] = "QUEUED", HolderView' = HolderView,
         StatusView' = [StatusView EXCEPT ![r] = "RUNNING"],
         ProgressView' = ProgressView
  PROVE  Ledger!LifecycleNext
<1>1. Ledger!Start(p, r)
  BY DEF Ledger!Start, Ledger!Move, StatusView, ProgressView, HolderView
<1> QED
  BY <1>1 DEF Ledger!LifecycleNext

LEMMA RecordOfViews ==
  ASSUME NEW p \in Process, NEW r \in RunId, HolderView = p,
         StatusView[r] = "RUNNING", ProgressView[r] < 8,
         HolderView' = HolderView, StatusView' = StatusView,
         ProgressView' = [ProgressView EXCEPT ![r] = @ + 1]
  PROVE  Ledger!LifecycleNext
<1>1. Ledger!Record(p, r)
  BY DEF Ledger!Record, Ledger!PhaseEvents, StatusView, ProgressView, HolderView
<1> QED
  BY <1>1 DEF Ledger!LifecycleNext

LEMMA AwaitCleanupOfViews ==
  ASSUME NEW p \in Process, NEW r \in RunId, HolderView = p,
         StatusView[r] = "RUNNING", HolderView' = HolderView,
         StatusView' = [StatusView EXCEPT ![r] = "CLEANUP_PENDING"],
         ProgressView' = [ProgressView EXCEPT ![r] = 0]
  PROVE  Ledger!LifecycleNext
<1>1. Ledger!AwaitCleanup(p, r)
  BY DEF Ledger!AwaitCleanup, Ledger!Move, StatusView, ProgressView, HolderView
<1> QED
  BY <1>1 DEF Ledger!LifecycleNext

\* The four ways in which the holder closes its run.
LEMMA CloseOfViews ==
  ASSUME NEW p \in Process, NEW r \in RunId, HolderView = p,
         NEW to,
         \/ to = "SUCCEEDED" /\ StatusView[r] = "RUNNING" /\ ProgressView[r] = 8
         \/ to = "BLOCKED" /\ StatusView[r] = "QUEUED"
         \/ to = "FAILED" /\ StatusView[r] \in Active
         \/ to = "POISONED" /\ StatusView[r] \in Active \ {"QUEUED"},
         HolderView' = None,
         StatusView' = [StatusView EXCEPT ![r] = to],
         ProgressView' = [ProgressView EXCEPT ![r] = 0]
  PROVE  Ledger!LifecycleNext
<1>1. \/ Ledger!Succeed(p, r) \/ Ledger!Block(p, r)
      \/ Ledger!Fail(p, r) \/ Ledger!Poison(p, r)
  BY DEF Ledger!Succeed, Ledger!Block, Ledger!Fail, Ledger!Poison,
     Ledger!Close, Ledger!Move, Ledger!Running, Ledger!PhaseEvents, Active,
     StatusView, ProgressView, HolderView
<1> QED
  BY <1>1 DEF Ledger!LifecycleNext

LEMMA FenceOfViews ==
  ASSUME NEW r \in RunId, StatusView[r] \in Active, HolderView' = None,
         StatusView' = [StatusView EXCEPT ![r] =
           IF StatusView[r] = "QUEUED" THEN "FAILED" ELSE "POISONED"],
         ProgressView' = [ProgressView EXCEPT ![r] = 0]
  PROVE  Ledger!LifecycleNext
<1>1. Ledger!Fence(r)
  BY DEF Ledger!Fence, Ledger!FencedStatus, Ledger!Move, Ledger!Open,
     Ledger!Running, Active, StatusView, ProgressView, HolderView
<1> QED
  BY <1>1 DEF Ledger!LifecycleNext

-----------------------------------------------------------------------------
(* Each kind of transaction is a step of the promise                       *)

LEMMA ReconcileRefines ==
  ASSUME LedgerInv, NEW t \in Time, Reconcile(t)
  PROVE  Ledger!LifecycleNext \/ UNCHANGED Ledger!lifecycleVars
<1>1. /\ auth \in Authority /\ RowsTyped
      /\ runs' = [r \in DOMAIN runs |->
           IF r \in Unowned(t) THEN RecoveredRow(runs[r], t) ELSE runs[r]]
  BY DEF LedgerInv, Reconcile
<1>2. CASE Bound /\ auth.expires <= t
  <2> DEFINE r == auth.run
             row == RecoveredRow(runs[r], t)
  <2>1. /\ r \in DOMAIN runs /\ runs[r].status \in Active
        /\ Unowned(t) = {r} /\ auth' = Clear(Observe(auth, t))
        /\ runs[r] \in Row
    BY <1>1, <1>2 DEF LedgerInv, AuthorityBindsActiveRun, ActiveRuns, Unowned,
       Reconcile, RowsTyped
  <2>2. runs' = [runs EXCEPT ![r] = row]
    BY <1>1, <2>1 DEF RowsTyped
  <2>3. row.status = IF runs[r].status = "QUEUED" THEN "FAILED" ELSE "POISONED"
    BY <2>1, RecoveredStatus
  <2>4. HolderView' = None
    BY <1>1, <2>1, ObservedAuthority DEF HolderView
  <2> HIDE DEF row, r
  <2>5. /\ r \in RunId /\ StatusView[r] \in Active
        /\ StatusView' = [StatusView EXCEPT ![r] =
             IF StatusView[r] = "QUEUED" THEN "FAILED" ELSE "POISONED"]
        /\ ProgressView' = [ProgressView EXCEPT ![r] = 0]
    BY <1>1, <2>1, <2>2, <2>3, ReplacedView
  <2> QED
    BY <2>4, <2>5, FenceOfViews
<1>3. CASE ~(Bound /\ auth.expires <= t)
  <2>1. Unowned(t) = {} /\ auth' = Observe(auth, t)
    BY <1>1, <1>3, NoneAssumption DEF Unowned, Bound, LedgerInv,
       AuthorityBindsActiveRun, RowsTyped, ActiveRuns, Reconcile
  <2>2. UNCHANGED runs
    BY <1>1, <2>1 DEF RowsTyped
  <2>3. auth'.owner = auth.owner
    BY <1>1, <2>1, ObservedAuthority
  <2> QED
    BY <2>2, <2>3, UnchangedView
<1> QED
  BY <1>2, <1>3

LEMMA FailStopRefines ==
  ASSUME LedgerInv, NEW q \in Process, NEW l \in Lease, NEW t \in Time,
         FailStop(q, l, t)
  PROVE  Ledger!LifecycleNext \/ UNCHANGED Ledger!lifecycleVars
<1> DEFINE r == l.run
           u == LogicalTime(t)
           row == RecoveredRow(runs[r], u)
<1>1. /\ u \in Time /\ auth \in Authority /\ RowsTyped /\ r \in DOMAIN runs
      /\ runs[r] \in Row
  BY LogicalTimeIs DEF FailStop, LedgerInv, RowsTyped
<1>2. CASE runs[r].status \in Terminal
  <2>1. UNCHANGED runs /\ auth' = Observe(auth, u)
    BY <1>2 DEF FailStop
  <2> HIDE DEF u
  <2> QED
    BY <1>1, <2>1, ObservedAuthority, UnchangedView
<1>3. CASE runs[r].status \notin Terminal
  <2>1. runs[r].status \in Active
    BY <1>1, <1>3 DEF Row, Status, Terminal, Settled, Active
  <2>2. /\ LeaseMatches(q, l)
        /\ runs' = [runs EXCEPT ![r] = row]
        /\ auth' = Clear(Observe(auth, u))
    <3>1. Bound
      BY <1>1, <2>1, NoneAssumption DEF LedgerInv, AuthorityBindsActiveRun,
         ActiveRuns, Bound, RowsTyped
    <3> QED
      BY <1>3, <3>1 DEF FailStop
  <2>3. row.status = IF runs[r].status = "QUEUED" THEN "FAILED" ELSE "POISONED"
    BY <1>1, <2>1, RecoveredStatus
  <2> HIDE DEF row, u, r
  <2>4. HolderView' = None
    BY <1>1, <2>2, ObservedAuthority DEF HolderView
  <2>5. /\ r \in RunId /\ StatusView[r] \in Active
        /\ StatusView' = [StatusView EXCEPT ![r] =
             IF StatusView[r] = "QUEUED" THEN "FAILED" ELSE "POISONED"]
        /\ ProgressView' = [ProgressView EXCEPT ![r] = 0]
    <3>1. RowsTyped /\ r \in DOMAIN runs /\ runs' = [runs EXCEPT ![r] = row]
      BY <1>1, <2>2
    <3>2. /\ r \in RunId /\ StatusView[r] = runs[r].status
          /\ StatusView' = [StatusView EXCEPT ![r] = row.status]
          /\ ProgressView' = [ProgressView EXCEPT ![r] =
               IF row.status = "RUNNING" THEN Len(row.log) - 2 ELSE 0]
      BY <3>1, ReplacedView
    <3>3. row.status # "RUNNING"
      BY <2>3
    <3> QED
      BY <2>1, <2>3, <3>2, <3>3
  <2> QED
    BY <2>4, <2>5, FenceOfViews
<1> QED
  BY <1>2, <1>3

LEMMA InsertRunRefines ==
  ASSUME LedgerInv, NEW q \in Process, NEW r \in RunId, InsertRun(q, r)
  PROVE  Ledger!LifecycleNext
<1>1. CreatedRow(call[q]).status = "QUEUED"
  BY DEF CreatedRow
<1>2. /\ DOMAIN runs' = DOMAIN runs \cup {r} /\ r \notin DOMAIN runs
      /\ runs'[r].status = "QUEUED" /\ auth'.owner = q
      /\ \A x \in DOMAIN runs : runs'[x] = runs[x]
      /\ \A x \in DOMAIN runs : runs[x].status \notin Blocking
  BY <1>1 DEF InsertRun, CanInsert
<1>3. /\ RunView(r) = "ABSENT" /\ RunView(r)' = "QUEUED"
      /\ \A x \in RunId \ {r} : RunView(x)' = RunView(x)
  BY <1>2 DEF RunView
<1>4. \A x \in RunId : RecordedView(x)' = RecordedView(x)
  BY <1>2, <1>3 DEF RecordedView, RunView
<1>5. /\ StatusView' = [StatusView EXCEPT ![r] = "QUEUED"]
      /\ StatusView[r] = "ABSENT" /\ ProgressView' = ProgressView
  BY <1>3, <1>4 DEF StatusView, ProgressView
<1>6. \A x \in RunId : RunView(x) \notin Blocking
  BY <1>2 DEF RunView, Blocking, Active
<1>7. Ledger!Admit(q, r)
  BY <1>2, <1>5, <1>6 DEF Ledger!Admit, Ledger!AdmissionOpen, Ledger!Move,
     Ledger!Closing, Ledger!Open, Ledger!Running, Blocking, Active,
     StatusView, ProgressView
<1> QED
  BY <1>7 DEF Ledger!LifecycleNext

LEMMA PruneRefines ==
  ASSUME RowsTyped, NEW q \in Process, NEW policy \in Policy, Prune(q, policy)
  PROVE  Ledger!LifecycleNext
<1> DEFINE gone == PrunableRuns(policy)
<1>1. /\ DOMAIN runs' = DOMAIN runs \ gone /\ UNCHANGED auth
      /\ \A x \in DOMAIN runs' : runs'[x] = runs[x]
      /\ gone \in SUBSET RunId
      /\ \A x \in gone : x \in DOMAIN runs /\ runs[x].status \in Settled
  BY DEF Prune, PrunableRuns, RowsTyped
<1> HIDE DEF gone
<1>2. \A x \in RunId :
        RunView(x)' = IF x \in gone THEN "ABSENT" ELSE RunView(x)
  BY <1>1 DEF RunView
<1>3. \A x \in RunId : RecordedView(x)' = RecordedView(x)
  BY <1>1, <1>2 DEF RecordedView, RunView, Settled
<1>4. \A x \in gone : RunView(x) \in Settled
  BY <1>1 DEF RunView
<1>5. Ledger!Forget(gone)
  BY <1>1, <1>2, <1>3, <1>4 DEF Ledger!Forget, Ledger!Finished, Settled
<1> QED
  BY <1>1, <1>5 DEF Ledger!LifecycleNext

\* The holder's transition, seen as its new status.
LEMMA TransitionViews ==
  ASSUME LedgerInv, NEW q \in Process, NEW l \in Lease,
         NEW t \in Time, NEW allowed \in SUBSET Active,
         TransitionAccepted(q, l, t, allowed),
         NEW status \in Status, NEW phase \in Phase, NEW mode \in Mode,
         NEW result \in Result, NEW type \in EventType,
         Transition(l, t, status, phase, mode, result, type)
  PROVE  /\ l.run \in RunId /\ HolderView = q
         /\ StatusView[l.run] \in allowed
         /\ runs[l.run].status = StatusView[l.run] /\ runs[l.run] \in Row
         /\ ProgressView[l.run] = IF runs[l.run].status = "RUNNING"
                                   THEN Len(runs[l.run].log) - 2 ELSE 0
         /\ StatusView' = [StatusView EXCEPT ![l.run] = status]
         /\ ProgressView' = [ProgressView EXCEPT ![l.run] =
              IF status = "RUNNING" THEN Len(runs[l.run].log) - 1 ELSE 0]
         /\ HolderView' = IF status \in Terminal THEN None ELSE HolderView
<1> DEFINE r == l.run
           row == Moved(runs[r], t, status, phase, mode, result, type)
<1>1. /\ r \in DOMAIN runs /\ runs[r].status \in allowed /\ auth.owner = q
      /\ runs[r] \in Row /\ RowsTyped /\ auth \in Authority
  BY DEF TransitionAccepted, LeaseCurrent, LeaseMatches, LedgerInv, RowsTyped
<1>2. runs' = [runs EXCEPT ![r] = row]
  BY DEF Transition
<1>3. /\ row.status = status /\ runs[r].log \in Seq(Event)
      /\ Len(row.log) = Len(runs[r].log) + 1
  <2>1. row.status = status /\ row.log = Append(runs[r].log, Entry(type, phase))
    BY <1>1, MovedRow
  <2>2. runs[r].log \in Seq(Event)
    BY <1>1 DEF Row
  <2> HIDE DEF row
  <2> QED
    BY <2>1, <2>2, AppendedLog
<1>4. HolderView' = IF status \in Terminal THEN None ELSE HolderView
  BY <1>1, ObservedAuthority DEF Transition, HolderView
<1> HIDE DEF row
<1>5. Len(row.log) - 2 = Len(runs[r].log) - 1
  <2> DEFINE n == Len(runs[r].log)
  <2>1. n \in Nat /\ Len(row.log) = n + 1
    BY <1>3
  <2> HIDE DEF n
  <2>2. Len(row.log) - 2 = n - 1
    BY <2>1
  <2> QED
    BY <2>2 DEF n
<1> QED
  <2>1. /\ r \in RunId /\ StatusView[r] = runs[r].status
        /\ ProgressView[r] = IF runs[r].status = "RUNNING"
                               THEN Len(runs[r].log) - 2 ELSE 0
        /\ StatusView' = [StatusView EXCEPT ![r] = row.status]
        /\ ProgressView' = [ProgressView EXCEPT ![r] =
             IF row.status = "RUNNING" THEN Len(row.log) - 2 ELSE 0]
    BY <1>1, <1>2, ReplacedView
  <2> QED
    BY <1>1, <1>3, <1>4, <1>5, <2>1 DEF HolderView

LEMMA MarkRunningRefines ==
  ASSUME LedgerInv, RowsSound, NEW q \in Process, NEW l \in Lease,
         NEW t \in Time, MarkRunning(q, l, t)
  PROVE  Ledger!LifecycleNext
<1>1. /\ TransitionAccepted(q, l, t, {"QUEUED"})
      /\ Transition(l, t, "RUNNING", "ADMISSION", "LIVE_EXECUTION_UNVERIFIED",
                    NoResult, "RUN_STARTED")
  BY DEF MarkRunning
<1>2. /\ {"QUEUED"} \in SUBSET Active /\ "RUNNING" \in Status
      /\ "ADMISSION" \in Phase /\ "LIVE_EXECUTION_UNVERIFIED" \in Mode
      /\ NoResult \in Result /\ "RUN_STARTED" \in EventType
      /\ "RUNNING" \notin Terminal
  BY DEF Active, Status, Phase, Mode, Result, EventType, Terminal, Settled
<1>3. /\ l.run \in RunId /\ HolderView = q /\ StatusView[l.run] = "QUEUED"
      /\ runs[l.run].status = "QUEUED" /\ ProgressView[l.run] = 0
      /\ StatusView' = [StatusView EXCEPT ![l.run] = "RUNNING"]
      /\ ProgressView' = [ProgressView EXCEPT ![l.run] = Len(runs[l.run].log) - 1]
      /\ HolderView' = HolderView
  BY <1>1, <1>2, TransitionViews
<1>4. Len(runs[l.run].log) = 1
  BY <1>1, <1>3 DEF TransitionAccepted, RowsSound, RowSound, LogMatchesStatus
<1>5. ProgressView' = ProgressView
  BY <1>3, <1>4 DEF ProgressView
<1> QED
  BY <1>3, <1>5, StartOfViews

LEMMA MarkBlockedRefines ==
  ASSUME LedgerInv, NEW q \in Process, NEW l \in Lease, NEW t \in Time,
         MarkBlocked(q, l, t)
  PROVE  Ledger!LifecycleNext
<1>1. /\ TransitionAccepted(q, l, t, {"QUEUED"})
      /\ Transition(l, t, "BLOCKED", "ADMISSION", "NOT_STARTED", NoResult,
                    "RUN_BLOCKED")
  BY DEF MarkBlocked
<1>2. /\ {"QUEUED"} \in SUBSET Active /\ "BLOCKED" \in Status
      /\ "ADMISSION" \in Phase /\ "NOT_STARTED" \in Mode
      /\ NoResult \in Result /\ "RUN_BLOCKED" \in EventType
      /\ "BLOCKED" \in Terminal
  BY DEF Active, Status, Phase, Mode, Result, EventType, Terminal, Settled
<1>3. /\ l.run \in RunId /\ HolderView = q /\ StatusView[l.run] = "QUEUED"
      /\ StatusView' = [StatusView EXCEPT ![l.run] = "BLOCKED"]
      /\ ProgressView' = [ProgressView EXCEPT ![l.run] = 0]
      /\ HolderView' = None
  BY <1>1, <1>2, TransitionViews
<1> QED
  BY <1>3, CloseOfViews

LEMMA MarkCleanupPendingRefines ==
  ASSUME LedgerInv, NEW q \in Process, NEW l \in Lease, NEW t \in Time,
         MarkCleanupPending(q, l, t)
  PROVE  Ledger!LifecycleNext
<1>1. /\ TransitionAccepted(q, l, t, {"RUNNING"})
      /\ Transition(l, t, "CLEANUP_PENDING", "COMPLETE",
                    "LIVE_EXECUTION_UNVERIFIED", NoResult,
                    "RUN_CLEANUP_PENDING")
  BY DEF MarkCleanupPending
<1>2. /\ {"RUNNING"} \in SUBSET Active /\ "CLEANUP_PENDING" \in Status
      /\ "COMPLETE" \in Phase /\ "LIVE_EXECUTION_UNVERIFIED" \in Mode
      /\ NoResult \in Result /\ "RUN_CLEANUP_PENDING" \in EventType
      /\ "CLEANUP_PENDING" \notin Terminal
  BY DEF Active, Status, Phase, Mode, Result, EventType, Terminal, Settled
<1>3. /\ l.run \in RunId /\ HolderView = q /\ StatusView[l.run] = "RUNNING"
      /\ StatusView' = [StatusView EXCEPT ![l.run] = "CLEANUP_PENDING"]
      /\ ProgressView' = [ProgressView EXCEPT ![l.run] = 0]
      /\ HolderView' = HolderView
  BY <1>1, <1>2, TransitionViews
<1> QED
  BY <1>3, AwaitCleanupOfViews

LEMMA AppendProgressRefines ==
  ASSUME LedgerInv, RowsSound, NEW q \in Process, NEW l \in Lease,
         NEW t \in Time, NEW type \in {"PHASE_STARTED", "PHASE_COMPLETED"},
         NEW ph \in WorkPhase, AppendProgress(q, l, t, type, ph)
  PROVE  Ledger!LifecycleNext
<1> DEFINE r == l.run
           row == Progressed(runs[r], t, type, ph)
           n == Len(runs[r].log)
<1>1. /\ r \in DOMAIN runs /\ runs[r].status = "RUNNING" /\ auth.owner = q
      /\ runs[r] \in Row /\ RowsTyped /\ auth \in Authority
      /\ RowSound(r, runs[r])
      /\ \/ type = "PHASE_STARTED" /\ StartIsOrdered(runs[r], ph)
         \/ type = "PHASE_COMPLETED" /\ CompletionIsOrdered(runs[r], ph)
  BY DEF AppendProgress, LeaseCurrent, LeaseMatches, LedgerInv, RowsTyped,
     RowsSound
<1>2. runs' = [runs EXCEPT ![r] = row] /\ auth' = Observe(auth, t)
  BY DEF AppendProgress
<1>3. n \in Nat /\ n >= 2 /\ n < 10 /\ runs[r].log \in Seq(Event)
  BY <1>1, RunningLog, NextEntryIsOrdered DEF RowSound
<1>4. row.status = "RUNNING" /\ Len(row.log) = n + 1
  <2>1. type \in EventType /\ ph \in Phase
    BY DEF EventType, WorkPhase
  <2>2. row.status = "RUNNING" /\ row.log = Append(runs[r].log, Entry(type, ph))
    BY <1>1, <2>1, ProgressedRow
  <2>3. Len(Append(runs[r].log, Entry(type, ph))) = n + 1
    BY <1>3, <2>1, AppendedLog
  <2> HIDE DEF row, n
  <2> QED
    BY <2>2, <2>3
<1>5. HolderView = q /\ HolderView' = HolderView
  BY <1>1, <1>2, ObservedAuthority DEF HolderView
<1> HIDE DEF row
<1>6. /\ r \in RunId /\ StatusView[r] = "RUNNING" /\ ProgressView[r] = n - 2
      /\ StatusView' = [StatusView EXCEPT ![r] = "RUNNING"]
      /\ ProgressView' = [ProgressView EXCEPT ![r] = Len(row.log) - 2]
  BY ZenonT(40), <1>1, <1>2, <1>4, ReplacedView
<1> HIDE DEF n
<1>7. Len(row.log) - 2 = (n - 2) + 1 /\ n - 2 < 8
  BY <1>3, <1>4
<1>8. StatusView' = StatusView
  BY <1>6 DEF StatusView
<1>9. ProgressView' = [ProgressView EXCEPT ![r] = @ + 1]
  BY <1>6, <1>7
<1> HIDE DEF r
<1> QED
  BY <1>5, <1>6, <1>7, <1>8, <1>9, RecordOfViews

LEMMA FinishMarkRefines ==
  ASSUME IInv, HistoryInv, NEW q \in Process,
         \/ MarkSucceeded(q) \/ MarkPoisoned(q) \/ MarkFailed(q)
         \/ MarkFailedAfterVerifiedSettlement(q)
  PROVE  Ledger!LifecycleNext \/ UNCHANGED Ledger!lifecycleVars
<1> DEFINE c == call[q]
           l == c.lease
           t == c.at
<1>1. /\ LedgerInv /\ c.op \in MarkOp /\ l \in Lease /\ t \in Time
      /\ c.mode \in Mode /\ c.result \in Result /\ MarkHolds(q)
  <2>1. call[q] \in Call /\ c.op \in MarkOp
    BY DEF IInv, MarkSucceeded, MarkPoisoned, MarkFailed, MarkOp,
       MarkFailedAfterVerifiedSettlement, FinishMark
  <2> QED
    BY <2>1, CallFields DEF IInv, HistoryInv, MarkOp
<1>2. /\ {"RUNNING"} \in SUBSET Active /\ {"QUEUED"} \in SUBSET Active
      /\ {"RUNNING", "CLEANUP_PENDING"} \in SUBSET Active
      /\ {"RUNNING", "CLEANUP_PENDING"} = Active \ {"QUEUED"}
      /\ "COMPLETE" \in Phase
      /\ "RUN_SUCCEEDED" \in EventType /\ "RUN_FAILED" \in EventType
      /\ "RUN_POISONED" \in EventType
      /\ {"SUCCEEDED", "FAILED", "POISONED"} \subseteq Status
      /\ {"SUCCEEDED", "FAILED", "POISONED"} \subseteq Terminal
  BY DEF Active, Status, Phase, EventType, Terminal, Settled
<1>3. ASSUME NEW allowed \in SUBSET Active, NEW type \in EventType,
             NEW to \in {"SUCCEEDED", "FAILED", "POISONED"},
             TransitionAccepted(q, l, t, allowed),
             Transition(l, t, to, "COMPLETE", c.mode, c.result, type)
      PROVE  /\ l.run \in RunId /\ HolderView = q /\ HolderView' = None
             /\ StatusView[l.run] \in allowed
             /\ runs[l.run].status = StatusView[l.run] /\ runs[l.run] \in Row
             /\ ProgressView[l.run] = IF runs[l.run].status = "RUNNING"
                                       THEN Len(runs[l.run].log) - 2 ELSE 0
             /\ StatusView' = [StatusView EXCEPT ![l.run] = to]
             /\ ProgressView' = [ProgressView EXCEPT ![l.run] = 0]
  <2>1. to \in Status /\ to \in Terminal /\ to # "RUNNING"
    BY <1>2
  <2> HIDE DEF c, l, t
  <2> QED
    BY <1>1, <1>2, <1>3, <2>1, TransitionViews
<1>4. ASSUME UNCHANGED <<runs, auth>>
      PROVE  UNCHANGED Ledger!lifecycleVars
  BY <1>4, UnchangedView
<1>5. CASE MarkSucceeded(q)
  <2>1. CASE TransitionAccepted(q, l, t, {"RUNNING"})
    <3>1. Transition(l, t, "SUCCEEDED", "COMPLETE", c.mode, c.result,
                     "RUN_SUCCEEDED")
      BY <1>5, <2>1 DEF MarkSucceeded, FinishMark
    <3>2. /\ l.run \in RunId /\ HolderView = q /\ HolderView' = None
          /\ StatusView[l.run] = "RUNNING"
          /\ runs[l.run].status = "RUNNING" /\ runs[l.run] \in Row
          /\ ProgressView[l.run] = Len(runs[l.run].log) - 2
          /\ StatusView' = [StatusView EXCEPT ![l.run] = "SUCCEEDED"]
          /\ ProgressView' = [ProgressView EXCEPT ![l.run] = 0]
      BY <1>2, <1>3, <2>1, <3>1
    <3>3. LastEntry(runs[l.run].log) = Entry("PHASE_COMPLETED", "REVIEW")
      BY <1>1, <1>5, <2>1 DEF MarkHolds, MarkSucceeded, FinishMark,
         TransitionAccepted, LeaseCurrent
    <3>4. LogMatchesStatus(runs[l.run])
      BY <2>1 DEF TransitionAccepted, HistoryInv, RowsSound, RowSound
    <3>5. Len(runs[l.run].log) = 10
      BY <3>2, <3>3, <3>4, ReviewIsLast
    <3>6. ProgressView[l.run] = 8
      BY <3>2, <3>5
    <3> HIDE DEF l
    <3> QED
      BY <3>2, <3>6, CloseOfViews
  <2>2. CASE ~TransitionAccepted(q, l, t, {"RUNNING"})
    BY <1>4, <1>5, <2>2 DEF MarkSucceeded, FinishMark
  <2> QED
    BY <2>1, <2>2
<1>6. CASE MarkPoisoned(q)
  <2> DEFINE allowed == {"RUNNING", "CLEANUP_PENDING"}
  <2>1. CASE TransitionAccepted(q, l, t, allowed)
    <3>1. Transition(l, t, "POISONED", "COMPLETE", c.mode, c.result,
                     "RUN_POISONED")
      BY <1>6, <2>1 DEF MarkPoisoned, FinishMark
    <3>2. /\ l.run \in RunId /\ HolderView = q /\ HolderView' = None
          /\ StatusView[l.run] \in allowed
          /\ StatusView' = [StatusView EXCEPT ![l.run] = "POISONED"]
          /\ ProgressView' = [ProgressView EXCEPT ![l.run] = 0]
      BY <1>2, <1>3, <2>1, <3>1
    <3> HIDE DEF l
    <3> QED
      BY <1>2, <3>2, CloseOfViews
  <2>2. CASE ~TransitionAccepted(q, l, t, allowed)
    BY <1>4, <1>6, <2>2 DEF MarkPoisoned, FinishMark
  <2> QED
    BY <2>1, <2>2
<1>7. ASSUME NEW op, NEW allowed \in SUBSET Active,
             FinishMark(q, op, allowed, "FAILED", "RUN_FAILED")
      PROVE  Ledger!LifecycleNext \/ UNCHANGED Ledger!lifecycleVars
  <2>1. CASE TransitionAccepted(q, l, t, allowed)
    <3>1. Transition(l, t, "FAILED", "COMPLETE", c.mode, c.result, "RUN_FAILED")
      BY <1>7, <2>1 DEF FinishMark
    <3>2. /\ l.run \in RunId /\ HolderView = q /\ HolderView' = None
          /\ StatusView[l.run] \in Active
          /\ StatusView' = [StatusView EXCEPT ![l.run] = "FAILED"]
          /\ ProgressView' = [ProgressView EXCEPT ![l.run] = 0]
      BY <1>2, <1>3, <2>1, <3>1
    <3> HIDE DEF l
    <3> QED
      BY <3>2, CloseOfViews
  <2>2. CASE ~TransitionAccepted(q, l, t, allowed)
    BY <1>4, <1>7, <2>2 DEF FinishMark
  <2> QED
    BY <2>1, <2>2
<1> QED
  BY <1>2, <1>5, <1>6, <1>7 DEF MarkFailed, MarkFailedAfterVerifiedSettlement

LEMMA HolderStepRefines ==
  ASSUME IInv, HistoryInv, NEW q \in Process, NEW l \in leases[q],
         NEW t \in Time, HolderStep(q, l, t)
  PROVE  Ledger!LifecycleNext \/ UNCHANGED Ledger!lifecycleVars
<1>1. LedgerInv /\ RowsSound /\ auth \in Authority /\ l \in Lease
  BY DEF IInv, LedgerInv, HistoryInv
<1>2. CASE Heartbeat(q, l, t)
  <2> DEFINE o == Observe(auth, t)
  <2>1. o.owner = auth.owner /\ o \in Authority
    BY <1>1, ObservedAuthority
  <2>2. UNCHANGED runs /\ auth' = [o EXCEPT !.expires = t + LeaseDuration]
    BY <1>2 DEF Heartbeat
  <2> HIDE DEF o
  <2>3. auth'.owner = auth.owner
    BY <2>1, <2>2 DEF Authority
  <2> QED
    BY <2>2, <2>3, UnchangedView
<1>3. CASE \/ \E s \in Settlement : BeginSucceed(q, l, t, s)
           \/ \E op \in {"POISON", "FAIL", "FAIL_SETTLED"} :
                BeginFailure(q, l, t, op)
  BY <1>3, UnchangedView DEF BeginSucceed, BeginFailure
<1> QED
  BY <1>1, <1>2, <1>3, FailStopRefines, MarkRunningRefines, MarkBlockedRefines,
     MarkCleanupPendingRefines, AppendProgressRefines DEF HolderStep

LEMMA NextRefines ==
  ASSUME IInv, HistoryInv, [Next]_vars
  PROVE  Ledger!LifecycleNext \/ UNCHANGED Ledger!lifecycleVars
<1>1. /\ LedgerInv /\ RowsTyped /\ auth \in Authority
      /\ call \in [Process -> Call]
  BY DEF IInv, LedgerInv
<1>2. ASSUME UNCHANGED <<runs, auth>>
      PROVE  UNCHANGED Ledger!lifecycleVars
  BY <1>2, UnchangedView
<1>3. CASE UNCHANGED vars
  BY <1>2, <1>3 DEF vars
<1>4. ASSUME NEW q \in Process,
             \/ FinishReconcile(q) \/ ReconcileBeforeAdmission(q)
      PROVE  Ledger!LifecycleNext \/ UNCHANGED Ledger!lifecycleVars
  <2>1. call[q].at \in Time
    BY <1>1, <1>4, CallFields DEF FinishReconcile, ReconcileBeforeAdmission
  <2> QED
    BY <1>1, <1>2, <1>4, <2>1, ReconcileRefines
       DEF FinishReconcile, ReconcileBeforeAdmission
<1>5. ASSUME NEW q \in Process, ReturnExisting(q)
      PROVE  UNCHANGED Ledger!lifecycleVars
  <2>1. /\ call[q].at \in Time /\ auth' = Observe(auth, call[q].at)
        /\ UNCHANGED runs
    BY <1>1, <1>5, CallFields DEF ReturnExisting
  <2> QED
    BY <1>1, <2>1, ObservedAuthority, UnchangedView
<1>6. ASSUME NEW q \in Process, NEW r \in RunId, InsertRun(q, r)
      PROVE  Ledger!LifecycleNext
  BY <1>1, <1>6, InsertRunRefines
<1>7. ASSUME NEW q \in Process, NEW l \in leases[q], NEW t \in Time,
             HolderStep(q, l, t)
      PROVE  Ledger!LifecycleNext \/ UNCHANGED Ledger!lifecycleVars
  BY <1>7, HolderStepRefines
<1>8. ASSUME NEW q \in Process,
             \/ MarkSucceeded(q) \/ MarkPoisoned(q) \/ MarkFailed(q)
             \/ MarkFailedAfterVerifiedSettlement(q)
      PROVE  Ledger!LifecycleNext \/ UNCHANGED Ledger!lifecycleVars
  BY <1>8, FinishMarkRefines
<1>9. ASSUME NEW q \in Process, NEW policy \in Policy, Prune(q, policy)
      PROVE  Ledger!LifecycleNext
  BY <1>1, <1>9, PruneRefines
<1>10. ASSUME NEW q \in Process,
              \/ \E t \in Time : BeginReconcile(q, t)
              \/ \E key \in Key, input \in Input, t \in Time :
                   BeginAdmission(q, key, input, t)
              \/ RefuseAdmission(q) \/ Crash(q)
       PROVE  UNCHANGED Ledger!lifecycleVars
  BY <1>2, <1>10 DEF BeginReconcile, BeginAdmission, RefuseAdmission, Crash
<1> QED
  BY <1>3, <1>4, <1>5, <1>6, <1>7, <1>8, <1>9, <1>10 DEF Next

LEMMA InitRefines == Init => Ledger!LifecycleInit
BY DEF Init, Ledger!LifecycleInit, RunView, RecordedView

\* Whatever processes race, crash, are slow or read their clocks wrongly, what
\* the ledger stores changes only as its promise allows.
THEOREM LedgerKeepsItsPromise == Spec => ImplementsLifecycle
<1>1. Init => Ledger!LifecycleInit
  BY InitRefines
<1>2. IInv /\ HistoryInv /\ [Next]_vars =>
        [Ledger!LifecycleNext]_(Ledger!lifecycleVars)
  BY NextRefines
<1> QED
  BY <1>1, <1>2, HistoryOfSpec, PTL
     DEF Spec, ImplementsLifecycle, Ledger!LifecycleSpec
=============================================================================
