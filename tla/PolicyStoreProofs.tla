-------------------------- MODULE PolicyStoreProofs --------------------------
(***************************************************************************)
(* Proofs about PolicyStore: its types, the gapless chain of versions, and *)
(* that the decisions of a workspace can be reproduced, for any number of  *)
(* processes, projects, texts and ambiguities.                             *)
(*                                                                         *)
(* The argument is about calls that wait between their checks and their    *)
(* transaction.  While one waits, its project may be extended, moved or    *)
(* deleted; but stored versions keep what the checks looked at, and a      *)
(* deleted workspace never comes back, so a workspace that is still there  *)
(* still holds the parent that was checked.  The transaction then succeeds *)
(* only if that parent is the current version.                             *)
(***************************************************************************)
EXTENDS PolicyStore, Sequences, TLAPS

\* What the checks of appendVersion establish of a version and its parent.
Fits(parent, version) ==
  /\ parent.created <= version.created
  /\ version.decision = None =>
       KeepsSelections(parent, version.text, version.ir)
  /\ version.decision # None => Reproduces(parent, version)

\* A row: from the second version on, each fits the one before it, in a
\* workspace; a project is created without a decision.
ChainFits(versions, n) ==
  \A v \in 2..n : Fits(versions[v - 1], versions[v])
RowOK(id, pr) ==
  /\ ProjectOK(pr)
  /\ pr.current >= 1
  /\ DOMAIN pr.versions = 1..pr.current
  /\ pr.versions[1].decision = None
  /\ id \in Reserved => ChainFits(pr.versions, pr.current)
RowsOK == \A id \in Stored : id \in Policy /\ RowOK(id, projects[id])

\* A tombstone and a stored project exclude each other.
RetiredAreGone == retired \subseteq Reserved /\ retired \cap Stored = {}

\* A workspace with a pending append is retired or still holds its parent.
PendingAppendOK(c) ==
  /\ c.policy \in Stored \cup retired
  /\ c.policy \in Stored =>
       /\ c.expected \in DOMAIN projects[c.policy].versions
       /\ Fits(projects[c.policy].versions[c.expected], c.version)
PendingAppendsFit ==
  \A p \in Process :
    call[p].op = "APPEND" /\ call[p].policy \in Reserved
      => PendingAppendOK(call[p])

IInv ==
  /\ RowsOK
  /\ RetiredAreGone
  /\ call \in [Process -> Call]
  /\ PendingAppendsFit

-----------------------------------------------------------------------------
(* Versions                                                                *)

LEMMA FirstStateType == \A ir : FirstState(ir) \in LifecycleState
BY DEF FirstState, LifecycleState

LEMMA ResolvedType ==
  ASSUME NEW ir \in Interpretation, NEW d \in Decision, d.ambiguity \in DOMAIN ir
  PROVE  Resolved(ir, d) \in Interpretation
<1>1. PICK A \in SUBSET Ambiguity : ir \in [A -> Option \cup {None}]
  BY DEF Interpretation
<1>2. d.option \in Option
  BY DEF Decision
<1>3. Resolved(ir, d) \in [A -> Option \cup {None}]
  BY <1>1, <1>2 DEF Resolved
<1> QED
  BY <1>3 DEF Interpretation

\* The versions that the two forms of append prepare are well formed and fit.
LEMMA SilentVersionFits ==
  ASSUME NEW parent \in Version, NEW text \in Text,
         NEW ir \in Interpretation \cup {None}, NEW t \in Time,
         parent.created <= t, KeepsSelections(parent, text, ir)
  PROVE  /\ NewVersion(text, ir, None, t) \in Version
         /\ Fits(parent, NewVersion(text, ir, None, t))
BY FirstStateType DEF NewVersion, Version, Fits

LEMMA DecidedVersionFits ==
  ASSUME NEW parent \in Version, NEW d \in Decision, NEW t \in Time,
         parent.created <= t, DecisionFits(parent, d, t)
  PROVE  LET v == NewVersion(parent.text, Resolved(parent.ir, d), d, t) IN
         v \in Version /\ Fits(parent, v)
<1> DEFINE ir == Resolved(parent.ir, d)
           v == NewVersion(parent.text, ir, d, t)
<1>1. parent.ir \in Interpretation /\ d.ambiguity \in DOMAIN parent.ir
  BY DEF DecisionFits, Version
<1>2. ir \in Interpretation
  BY <1>1, ResolvedType
<1>3. v \in Version
  BY <1>2, FirstStateType DEF NewVersion, Version
<1>4. d # None /\ ir # None
  BY <1>2, NotInterpretedAssumption
<1>5. /\ DOMAIN ir = DOMAIN parent.ir
      /\ \A a \in DOMAIN parent.ir :
           ir[a] = IF a = d.ambiguity THEN d.option ELSE parent.ir[a]
  <2>1. PICK A \in SUBSET Ambiguity : parent.ir \in [A -> Option \cup {None}]
    BY <1>1 DEF Interpretation
  <2> QED
    BY <2>1, <1>1 DEF Resolved
<1>6. Reproduces(parent, v)
  <2>1. v.decision = d /\ v.text = parent.text /\ v.ir = ir /\ v.created = t
    BY DEF NewVersion
  <2> HIDE DEF v, ir
  <2> QED
    BY <2>1, <1>4, <1>5 DEF Reproduces, DecisionFits
<1>7. v.decision = d /\ v.created = t
  BY DEF NewVersion
<1> HIDE DEF v
<1> QED
  BY <1>3, <1>4, <1>6, <1>7 DEF Fits, v

\* A lifecycle transition touches nothing that Fits looks at.
Same(v, w) ==
  /\ v.text = w.text /\ v.ir = w.ir /\ v.decision = w.decision
  /\ v.created = w.created

LEMMA FitsLooksAtNoState ==
  ASSUME NEW v, NEW w, NEW v2, NEW w2, Same(v, v2), Same(w, w2), Fits(v, w)
  PROVE  Fits(v2, w2)
BY DEF Same, Fits, KeepsSelections, Reproduces

-----------------------------------------------------------------------------
(* Rows                                                                    *)

\* What a step leaves of a row that is stored before and after it.
Extends(pr, pr2) ==
  /\ DOMAIN pr.versions \subseteq DOMAIN pr2.versions
  /\ \A v \in DOMAIN pr.versions : Same(pr.versions[v], pr2.versions[v])

LEMMA RowFields ==
  ASSUME NEW id, NEW pr, RowOK(id, pr)
  PROVE  /\ pr.current \in Nat /\ pr.current >= 1 /\ pr.updated \in Time
         /\ DOMAIN pr.versions = 1..pr.current
         /\ pr.versions \in [1..pr.current -> Version]
         /\ pr.current \in DOMAIN pr.versions
         /\ \A v \in 1..pr.current : pr.versions[v] \in Version
         /\ pr.versions[pr.current] \in Version
BY DEF RowOK, ProjectOK, Project

LEMMA AppendedRow ==
  ASSUME NEW id, NEW pr, NEW c, RowOK(id, pr), c.version \in Version,
         c.expected = pr.current,
         id \in Reserved => Fits(pr.versions[c.expected], c.version)
  PROVE  RowOK(id, Appended(pr, c)) /\ Extends(pr, Appended(pr, c))
<1> DEFINE n == pr.current
           new == Appended(pr, c)
<1>1. /\ n \in Nat /\ n >= 1 /\ pr.updated \in Time
      /\ pr.versions \in [1..n -> Version]
      /\ DOMAIN pr.versions = 1..n
  BY RowFields
<1>2. c.version.created \in Time
  BY DEF Version
<1>3. 1..n \cup {n + 1} = 1..(n + 1)
  BY <1>1
<1>4. new.versions = [v \in 1..(n + 1) |->
                        IF v = n + 1 THEN c.version ELSE pr.versions[v]]
  BY <1>1, <1>3 DEF Appended
<1>5. /\ new.current = n + 1 /\ new.updated = c.version.created
      /\ new \in Project(new.versions)
  BY <1>1, <1>2 DEF Appended, Project
<1>6. new.versions \in [1..(n + 1) -> Version]
  BY <1>1, <1>4
<1>7. \A v \in 1..n : new.versions[v] = pr.versions[v]
  BY <1>1, <1>4
<1>8. new.versions[n + 1] = c.version
  BY <1>1, <1>4
<1>9. id \in Reserved => ChainFits(new.versions, n + 1)
  <2> SUFFICES ASSUME id \in Reserved, NEW v \in 2..(n + 1)
               PROVE  Fits(new.versions[v - 1], new.versions[v])
    BY DEF ChainFits
  <2>1. CASE v = n + 1
    <3>1. v - 1 = n /\ n \in 1..n
      BY <2>1, <1>1
    <3> QED
      BY <2>1, <3>1, <1>7, <1>8
  <2>2. CASE v \in 2..n
    <3>1. v - 1 \in 1..n /\ v \in 1..n
      BY <2>2, <1>1
    <3>2. Fits(pr.versions[v - 1], pr.versions[v])
      BY <2>2 DEF RowOK, ChainFits
    <3> QED
      BY <3>1, <3>2, <1>7
  <2> QED
    BY <2>1, <2>2, <1>1
<1>10. Extends(pr, new)
  <2> HIDE DEF new
  <2> QED
    BY <1>1, <1>6, <1>7 DEF Extends, Same
<1>11. RowOK(id, new)
  <2>1. new.versions[1].decision = None
    BY <1>1, <1>7 DEF RowOK
  <2> HIDE DEF new
  <2>2. new.current >= 1 /\ DOMAIN new.versions = 1..new.current
    BY <1>1, <1>5, <1>6
  <2>3. ProjectOK(new)
    BY <2>2, <1>1, <1>5, <1>6 DEF ProjectOK
  <2> QED
    BY <1>5, <1>9, <2>1, <2>2, <2>3 DEF RowOK
<1> QED
  BY <1>10, <1>11

LEMMA MovedRow ==
  ASSUME NEW id, NEW pr, NEW c, RowOK(id, pr), c.version \in DOMAIN pr.versions,
         c.move \in CanTransition, c.at \in Time
  PROVE  RowOK(id, Moved(pr, c)) /\ Extends(pr, Moved(pr, c))
<1> DEFINE n == pr.current
           new == Moved(pr, c)
           row == [pr.versions[c.version] EXCEPT !.state = c.move[2]]
<1>1. /\ n \in Nat /\ n >= 1 /\ pr.updated \in Time
      /\ pr.versions \in [1..n -> Version]
      /\ DOMAIN pr.versions = 1..n
  BY RowFields
<1>2. c.move[2] \in LifecycleState
  BY DEF CanTransition, LifecycleState
<1>3. pr.versions[c.version] \in Version
  BY <1>1
<1>4. row \in Version /\ Same(pr.versions[c.version], row)
  BY <1>2, <1>3 DEF Version, Same
<1>5. /\ new.versions = [pr.versions EXCEPT ![c.version] = row]
      /\ new.current = n /\ new.updated = c.at
      /\ new \in Project(new.versions)
  BY <1>1 DEF Moved, RowOK, ProjectOK, Project
<1> HIDE DEF row, new
<1>6. new.versions \in [1..n -> Version]
  BY <1>1, <1>4, <1>5
<1>7. \A v \in 1..n : Same(pr.versions[v], new.versions[v])
  BY <1>1, <1>4, <1>5 DEF Same
<1>8. id \in Reserved => ChainFits(new.versions, n)
  <2> SUFFICES ASSUME id \in Reserved, NEW v \in 2..n
               PROVE  Fits(new.versions[v - 1], new.versions[v])
    BY DEF ChainFits
  <2>1. v - 1 \in 1..n /\ v \in 1..n
    BY <1>1
  <2>2. Fits(pr.versions[v - 1], pr.versions[v])
    BY DEF RowOK, ChainFits
  <2> QED
    BY <2>1, <2>2, <1>7, FitsLooksAtNoState
<1>9. new.versions[1].decision = None
  BY <1>1, <1>7 DEF RowOK, Same
<1>10. RowOK(id, new)
  BY <1>1, <1>5, <1>6, <1>8, <1>9 DEF RowOK, ProjectOK
<1>11. Extends(pr, new)
  BY <1>1, <1>6, <1>7 DEF Extends
<1> QED
  BY <1>10, <1>11 DEF new

-----------------------------------------------------------------------------
(* Steps                                                                   *)

\* A step that leaves every stored workspace extended or retired, and creates
\* only workspaces that were neither stored nor retired, cannot spoil a
\* pending append.
StepKeepsWorkspaces ==
  /\ \A id \in Reserved : id \in Stored \cup retired => id \in Stored' \cup retired'
  /\ \A id \in Reserved \cap Stored' :
       /\ id \notin retired
       /\ id \in Stored => Extends(projects[id], projects[id]')

LEMMA PendingKept ==
  ASSUME StepKeepsWorkspaces, NEW c, c.policy \in Reserved, PendingAppendOK(c)
  PROVE  PendingAppendOK(c)'
<1>1. c.policy \in Stored' \cup retired'
  BY DEF StepKeepsWorkspaces, PendingAppendOK
<1>2. ASSUME c.policy \in Stored'
      PROVE  /\ c.expected \in DOMAIN projects[c.policy]'.versions
             /\ Fits(projects[c.policy]'.versions[c.expected], c.version)
  <2>1. /\ c.policy \in Stored
        /\ Extends(projects[c.policy], projects[c.policy]')
    BY <1>2 DEF StepKeepsWorkspaces, PendingAppendOK
  <2>2. /\ c.expected \in DOMAIN projects[c.policy].versions
        /\ Fits(projects[c.policy].versions[c.expected], c.version)
    BY <2>1 DEF PendingAppendOK
  <2>3. Same(c.version, c.version)
    BY DEF Same
  <2> QED
    BY <2>1, <2>2, <2>3, FitsLooksAtNoState DEF Extends
<1> QED
  BY <1>1, <1>2 DEF PendingAppendOK

\* The calls of a type.
LEMMA CallTypes ==
  ASSUME NEW c \in Call
  PROVE  /\ c.op = "APPEND" => /\ c.policy \in Policy /\ c.expected \in Nat
                               /\ c.version \in Version
         /\ c.op = "TRANSITION" => /\ c.policy \in Policy /\ c.version \in Nat
                                   /\ c.move \in CanTransition /\ c.at \in Time
BY DEF Call, NoCall

\* Once the rows, the tombstones and the calls are known to be well formed, a
\* step keeps the invariant if it spoils no pending append, of those that go
\* on and of the one that begins.
LEMMA PendingAppendsKept ==
  ASSUME IInv, StepKeepsWorkspaces,
         \A p \in Process :
           \/ call'[p] = call[p]
           \/ call'[p].op # "APPEND"
           \/ call'[p].policy \in Reserved => PendingAppendOK(call[p])'
  PROVE  PendingAppendsFit'
<1> SUFFICES ASSUME NEW p \in Process, call'[p].op = "APPEND",
                    call'[p].policy \in Reserved, call'[p] = call[p]
             PROVE  PendingAppendOK(call[p])'
  BY DEF PendingAppendsFit
<1>1. PendingAppendOK(call[p])
  BY DEF IInv, PendingAppendsFit
<1>2. PICK c : c = call[p]
  OBVIOUS
<1>3. PendingAppendOK(c)'
  BY <1>1, <1>2, PendingKept
<1> QED
  BY <1>2, <1>3 DEF PendingAppendOK

\* Steps that write no row.
LEMMA ExtendsReflexive == \A pr : Extends(pr, pr)
BY DEF Extends, Same

LEMMA NothingWritten ==
  ASSUME IInv, UNCHANGED <<projects, retired>>
  PROVE  RowsOK' /\ RetiredAreGone' /\ StepKeepsWorkspaces
<1> USE DEF Stored
<1>1. RowsOK'
  BY DEF IInv, RowsOK, RowOK, ProjectOK, Project
<1>2. RetiredAreGone'
  BY DEF IInv, RetiredAreGone
<1>3. StepKeepsWorkspaces
  BY ExtendsReflexive DEF IInv, RetiredAreGone, StepKeepsWorkspaces
<1> QED
  BY <1>1, <1>2, <1>3

LEMMA CallDropped ==
  ASSUME IInv, NEW p \in Process, call' = [call EXCEPT ![p] = NoCall]
  PROVE  /\ call' \in [Process -> Call]
         /\ \A q \in Process : call'[q] = call[q] \/ call'[q].op # "APPEND"
BY DEF IInv, Call, NoCall

LEMMA CallDroppedStep ==
  ASSUME IInv, NEW p \in Process, call' = [call EXCEPT ![p] = NoCall],
         RowsOK', RetiredAreGone', StepKeepsWorkspaces
  PROVE  IInv'
<1>1. PendingAppendsFit'
  BY CallDropped, PendingAppendsKept
<1> QED
  BY <1>1, CallDropped DEF IInv

LEMMA CallsKeptStep ==
  ASSUME IInv, UNCHANGED call, RowsOK', RetiredAreGone', StepKeepsWorkspaces
  PROVE  IInv'
<1>1. PendingAppendsFit'
  BY PendingAppendsKept
<1> QED
  BY <1>1 DEF IInv

LEMMA CallBeginsStep ==
  ASSUME IInv, NEW p \in Process, NEW c \in Call,
         call' = [call EXCEPT ![p] = c], UNCHANGED <<projects, retired>>,
         c.op = "APPEND" => PendingAppendOK(c)
  PROVE  IInv'
<1>1. RowsOK' /\ RetiredAreGone' /\ StepKeepsWorkspaces
  BY NothingWritten
<1>2. call' \in [Process -> Call]
  BY DEF IInv
<1>3. PendingAppendsFit'
  <2> SUFFICES ASSUME NEW q \in Process, call'[q].op = "APPEND",
                      call'[q].policy \in Reserved
               PROVE  PendingAppendOK(call[q])'
    BY DEF PendingAppendsFit
  <2>1. CASE q = p
    <3>1. call'[q] = c
      BY <2>1 DEF IInv
    <3>2. PendingAppendOK(c)
      BY <3>1
    <3> QED
      BY <3>1, <3>2 DEF PendingAppendOK, Stored
  <2>2. CASE q # p
    <3>1. call'[q] = call[q]
      BY <2>2 DEF IInv
    <3>2. PendingAppendOK(call[q])
      BY <3>1 DEF IInv, PendingAppendsFit
    <3> QED
      BY <3>1, <3>2 DEF PendingAppendOK, Stored
  <2> QED
    BY <2>1, <2>2
<1> QED
  BY <1>1, <1>2, <1>3 DEF IInv

-----------------------------------------------------------------------------
(* One lemma per action that writes rows or begins a call                  *)

LEMMA CreateKeepsIInv ==
  ASSUME IInv, NEW p \in Process, NEW id \in Policy, NEW text \in Text,
         NEW ir \in Interpretation \cup {None}, NEW t \in Time,
         CreateProject(p, id, text, ir, t)
  PROVE  IInv'
<1> DEFINE v1 == NewVersion(text, ir, None, t)
           new == [current |-> 1, updated |-> t, versions |-> [v \in {1} |-> v1]]
<1>1. /\ Stored' = Stored \cup {id}
      /\ id \notin Stored /\ (id \in Reserved => id \notin retired)
      /\ projects'[id] = new
      /\ \A x \in Stored : projects'[x] = projects[x]
      /\ UNCHANGED <<retired, call>>
  BY DEF CreateProject, CanCreate, Stored
<1>2. v1 \in Version /\ v1.decision = None
  BY FirstStateType DEF NewVersion, Version
<1>3. RowOK(id, new)
  <2> HIDE DEF v1
  <2>1. ProjectOK(new)
    BY <1>2 DEF ProjectOK, Project
  <2>2. DOMAIN new.versions = 1..new.current /\ new.versions[1] = v1
    OBVIOUS
  <2>3. 2..1 = {}
    OBVIOUS
  <2> QED
    BY <1>2, <2>1, <2>2, <2>3 DEF RowOK, ChainFits
<1> HIDE DEF new
<1>4. RowsOK'
  BY <1>1, <1>3 DEF IInv, RowsOK, RowOK, ProjectOK, Project
<1>5. RetiredAreGone'
  BY <1>1 DEF IInv, RetiredAreGone
<1>6. StepKeepsWorkspaces
  BY <1>1, ExtendsReflexive DEF IInv, RetiredAreGone, StepKeepsWorkspaces
<1> QED
  BY <1>1, <1>4, <1>5, <1>6, CallsKeptStep

\* The rows that a deletion leaves are as they were.
LEMMA RemovalKeepsRows ==
  ASSUME IInv, NEW id, RemoveProject(id)
  PROVE  RowsOK' /\ Stored' = Stored \ {id}
         /\ \A x \in Stored' : projects'[x] = projects[x]
BY DEF IInv, RowsOK, RowOK, ProjectOK, Project, RemoveProject, Stored

LEMMA DeleteKeepsIInv ==
  ASSUME IInv, NEW p \in Process, NEW id \in Policy, DeleteProject(p, id)
  PROVE  IInv'
<1>1. RemoveProject(id) /\ id \notin Reserved /\ UNCHANGED <<retired, call>>
  BY DEF DeleteProject
<1>2. RowsOK' /\ Stored' = Stored \ {id}
      /\ \A x \in Stored' : projects'[x] = projects[x]
  BY <1>1, RemovalKeepsRows
<1>3. RetiredAreGone'
  BY <1>1, <1>2 DEF IInv, RetiredAreGone
<1>4. StepKeepsWorkspaces
  BY <1>1, <1>2, ExtendsReflexive DEF IInv, RetiredAreGone, StepKeepsWorkspaces
<1> QED
  BY <1>1, <1>2, <1>3, <1>4, CallsKeptStep

LEMMA RetireKeepsIInv ==
  ASSUME IInv, NEW p \in Process, NEW id \in Policy,
         DeleteAnonymousWorkspace(p, id)
  PROVE  IInv'
<1>1. /\ RemoveProject(id) /\ id \in Reserved /\ UNCHANGED call
      /\ retired' = retired \cup {id}
  BY DEF DeleteAnonymousWorkspace, StoredWorkspaces
<1>2. RowsOK' /\ Stored' = Stored \ {id}
      /\ \A x \in Stored' : projects'[x] = projects[x]
  BY <1>1, RemovalKeepsRows
<1>3. RetiredAreGone'
  BY <1>1, <1>2 DEF IInv, RetiredAreGone
<1>4. StepKeepsWorkspaces
  BY <1>1, <1>2, ExtendsReflexive DEF IInv, RetiredAreGone, StepKeepsWorkspaces
<1> QED
  BY <1>1, <1>2, <1>3, <1>4, CallsKeptStep

\* A call that begins an append of a version that fits the current one.
LEMMA AppendBegins ==
  ASSUME IInv, NEW p \in Process, NEW id \in Policy, NEW version \in Version,
         id \in Stored, Fits(Current(id), version),
         BeginAppendOf(p, id, version), UNCHANGED <<projects, retired>>
  PROVE  IInv'
<1>1. PICK c : c = [op |-> "APPEND", policy |-> id,
                    expected |-> projects[id].current, version |-> version]
  OBVIOUS
<1>2. /\ projects[id].current \in Nat
      /\ projects[id].current \in DOMAIN projects[id].versions
  BY RowFields DEF IInv, RowsOK
<1>3. c \in Call
  BY <1>1, <1>2 DEF Call
<1>4. PendingAppendOK(c)
  BY <1>1, <1>2 DEF PendingAppendOK, Current
<1>5. call' = [call EXCEPT ![p] = c]
  BY <1>1 DEF BeginAppendOf
<1> QED
  BY <1>3, <1>4, <1>5, CallBeginsStep

LEMMA CurrentVersionType ==
  ASSUME IInv, NEW id \in Stored
  PROVE  Current(id) \in Version
BY RowFields DEF IInv, RowsOK, Current

LEMMA BeginAppendKeepsIInv ==
  ASSUME IInv, NEW p \in Process, NEW id \in Policy, NEW text \in Text,
         NEW ir \in Interpretation \cup {None}, NEW t \in Time,
         BeginAppend(p, id, text, ir, t)
  PROVE  IInv'
<1> DEFINE v == NewVersion(text, ir, None, t)
<1>1. /\ id \in Stored /\ Current(id).created <= t
      /\ KeepsSelections(Current(id), text, ir)
      /\ BeginAppendOf(p, id, v)
      /\ UNCHANGED <<projects, retired>>
  BY DEF BeginAppend, CanExtend
<1>2. v \in Version /\ Fits(Current(id), v)
  BY <1>1, CurrentVersionType, SilentVersionFits
<1> HIDE DEF v
<1> QED
  BY <1>1, <1>2, AppendBegins

LEMMA BeginDecisionKeepsIInv ==
  ASSUME IInv, NEW p \in Process, NEW id \in Policy, NEW d \in Decision,
         NEW t \in Time, BeginDecision(p, id, d, t)
  PROVE  IInv'
<1> DEFINE v == NewVersion(Current(id).text, Resolved(Current(id).ir, d), d, t)
<1>1. /\ id \in Stored /\ Current(id).created <= t
      /\ DecisionFits(Current(id), d, t)
      /\ BeginAppendOf(p, id, v)
      /\ UNCHANGED <<projects, retired>>
  BY DEF BeginDecision, CanExtend
<1>2. v \in Version /\ Fits(Current(id), v)
  BY <1>1, CurrentVersionType, DecidedVersionFits
<1>3. PICK w : w = v
  OBVIOUS
<1> HIDE DEF v
<1> QED
  BY <1>1, <1>2, <1>3, AppendBegins

\* An append that succeeds extends the version its checks looked at.
LEMMA AppendSucceeds ==
  ASSUME IInv, NEW p \in Process, AppendVersion(p)
  PROVE  LET c == call[p] IN
         /\ c.policy \in Stored /\ c.policy \in Policy
         /\ c.expected = projects[c.policy].current
         /\ c.version \in Version
         /\ c.policy \in Reserved =>
              Fits(projects[c.policy].versions[c.expected], c.version)
<1>1. call[p] \in Call /\ call[p].op = "APPEND" /\ AppendReply(call[p]) = "OK"
  BY DEF AppendVersion, IInv
<1>2. /\ call[p].policy \in Stored
      /\ projects[call[p].policy].current = call[p].expected
  BY <1>1 DEF AppendReply
<1>3. call[p].policy \in Reserved =>
        Fits(projects[call[p].policy].versions[call[p].expected], call[p].version)
  BY <1>1, <1>2 DEF IInv, PendingAppendsFit, PendingAppendOK
<1> QED
  BY <1>1, <1>2, <1>3, CallTypes

\* A step that rewrites one stored row, and extends it.
LEMMA RowRewritten ==
  ASSUME IInv, NEW id \in Stored, NEW new,
         projects' = [projects EXCEPT ![id] = new], UNCHANGED retired,
         RowOK(id, new), Extends(projects[id], new)
  PROVE  RowsOK' /\ RetiredAreGone' /\ StepKeepsWorkspaces
<1>1. /\ Stored' = Stored /\ projects'[id] = new
      /\ \A x \in Stored \ {id} : projects'[x] = projects[x]
  BY DEF Stored
<1>2. RowsOK'
  <2> SUFFICES ASSUME NEW x \in Stored
               PROVE  x \in Policy /\ RowOK(x, projects[x])'
    BY <1>1 DEF RowsOK
  <2>1. RowOK(x, projects[x]) /\ x \in Policy
    BY DEF IInv, RowsOK
  <2>2. CASE x = id
    BY <1>1, <2>1, <2>2 DEF RowOK, ProjectOK, Project
  <2>3. CASE x # id
    BY <1>1, <2>1, <2>3 DEF RowOK, ProjectOK, Project
  <2> QED
    BY <2>2, <2>3
<1>3. RetiredAreGone'
  BY <1>1 DEF IInv, RetiredAreGone
<1>4. StepKeepsWorkspaces
  BY <1>1, ExtendsReflexive DEF IInv, RetiredAreGone, StepKeepsWorkspaces
<1> QED
  BY <1>2, <1>3, <1>4

LEMMA AppendKeepsIInv ==
  ASSUME IInv, NEW p \in Process, AppendVersion(p)
  PROVE  IInv'
<1>1. PICK c : c = call[p]
  OBVIOUS
<1>2. PICK new : new = Appended(projects[c.policy], c)
  OBVIOUS
<1>3. c.policy \in Stored /\ RowOK(c.policy, projects[c.policy])
  BY <1>1, AppendSucceeds DEF IInv, RowsOK
<1>4. RowOK(c.policy, new) /\ Extends(projects[c.policy], new)
  BY <1>1, <1>2, <1>3, AppendSucceeds, AppendedRow
<1>5. /\ projects' = [projects EXCEPT ![c.policy] = new]
      /\ call' = [call EXCEPT ![p] = NoCall] /\ UNCHANGED retired
  BY <1>1, <1>2 DEF AppendVersion
<1>6. RowsOK' /\ RetiredAreGone' /\ StepKeepsWorkspaces
  BY <1>3, <1>4, <1>5, RowRewritten
<1> QED
  BY <1>5, <1>6, CallDroppedStep

LEMMA TransitionKeepsIInv ==
  ASSUME IInv, NEW p \in Process, TransitionState(p)
  PROVE  IInv'
<1>1. call' = [call EXCEPT ![p] = NoCall] /\ UNCHANGED retired
  BY DEF TransitionState
<1>2. CASE ~CanMove(call[p])
  <2>1. UNCHANGED <<projects, retired>>
    BY <1>1, <1>2 DEF TransitionState
  <2> QED
    BY <1>1, <2>1, NothingWritten, CallDroppedStep
<1>3. CASE CanMove(call[p])
  <2>1. PICK c : c = call[p]
    OBVIOUS
  <2>2. PICK new : new = Moved(projects[c.policy], c)
    OBVIOUS
  <2>3. c \in Call /\ c.op = "TRANSITION"
    BY <2>1 DEF IInv, TransitionState
  <2>4. /\ c.policy \in Stored /\ RowOK(c.policy, projects[c.policy])
        /\ c.version \in DOMAIN projects[c.policy].versions
    BY <1>3, <2>1 DEF CanMove, IInv, RowsOK
  <2>5. RowOK(c.policy, new) /\ Extends(projects[c.policy], new)
    BY <2>2, <2>3, <2>4, CallTypes, MovedRow
  <2>6. projects' = [projects EXCEPT ![c.policy] = new]
    BY <1>3, <2>1, <2>2 DEF TransitionState
  <2> QED
    BY <1>1, <2>4, <2>5, <2>6, RowRewritten, CallDroppedStep
<1> QED
  BY <1>2, <1>3

LEMMA BeginTransitionKeepsIInv ==
  ASSUME IInv, NEW p \in Process, NEW id \in Policy, NEW move \in AskedMoves,
         NEW t \in Time, BeginTransition(p, id, move, t)
  PROVE  IInv'
<1>1. PICK c : c = [op |-> "TRANSITION", policy |-> id,
                    version |-> projects[id].current, move |-> move, at |-> t]
  OBVIOUS
<1>2. /\ id \in Stored /\ move \in CanTransition
      /\ call' = [call EXCEPT ![p] = c] /\ UNCHANGED <<projects, retired>>
  BY <1>1 DEF BeginTransition
<1>3. projects[id].current \in Nat
  BY <1>2, RowFields DEF IInv, RowsOK
<1>4. c \in Call /\ c.op # "APPEND"
  BY <1>1, <1>2, <1>3 DEF Call
<1> QED
  BY <1>2, <1>4, CallBeginsStep

-----------------------------------------------------------------------------
(* The invariant                                                           *)

LEMMA InitIInv == Init => IInv
BY DEF Init, IInv, RowsOK, RetiredAreGone, PendingAppendsFit, Call, NoCall, Stored

LEMMA NextIInv == IInv /\ [Next]_vars => IInv'
<1> SUFFICES ASSUME IInv, [Next]_vars PROVE IInv'
  OBVIOUS
<1>1. CASE UNCHANGED vars
  <2>1. UNCHANGED <<projects, retired>> /\ UNCHANGED call
    BY <1>1 DEF vars
  <2> QED
    BY <2>1, NothingWritten, CallsKeptStep
<1>2. ASSUME NEW p \in Process, RefuseAppend(p) \/ Crash(p)
      PROVE  IInv'
  <2>1. UNCHANGED <<projects, retired>> /\ call' = [call EXCEPT ![p] = NoCall]
    BY <1>2 DEF RefuseAppend, Crash
  <2> QED
    BY <2>1, NothingWritten, CallDroppedStep
<1> QED
  BY <1>1, <1>2, CreateKeepsIInv, DeleteKeepsIInv, RetireKeepsIInv,
     BeginAppendKeepsIInv, BeginDecisionKeepsIInv, AppendKeepsIInv,
     BeginTransitionKeepsIInv, TransitionKeepsIInv DEF Next

LEMMA InvariantHolds == Spec => []IInv
BY InitIInv, NextIInv, PTL DEF Spec

\* Rows and calls keep their types.
THEOREM PolicyTypesHold == Spec => []PolicyTypeOK
<1>1. IInv => PolicyTypeOK
  BY DEF IInv, RowsOK, RowOK, RetiredAreGone, PolicyTypeOK
<1> QED
  BY <1>1, InvariantHolds, PTL

\* Racing appends, deletions and creations leave no gap and no fork in the
\* versions of a project, and no workspace whose times run backwards.
THEOREM ChainHolds == Spec => []VersionsFormOneChain
<1>1. ASSUME IInv PROVE VersionsFormOneChain
  <2> SUFFICES ASSUME NEW id \in Stored
               PROVE  LET pr == projects[id] IN
                 /\ pr.current >= 1 /\ DOMAIN pr.versions = 1..pr.current
                 /\ id \in Reserved =>
                      \A v \in 2..pr.current :
                        pr.versions[v - 1].created <= pr.versions[v].created
    BY DEF VersionsFormOneChain
  <2>1. RowOK(id, projects[id])
    BY <1>1 DEF IInv, RowsOK
  <2> QED
    BY <2>1 DEF RowOK, ChainFits, Fits
<1> QED
  BY <1>1, InvariantHolds, PTL

\* Whatever slips in between the checks of a decision and its transaction, a
\* stored decision of a workspace can be reproduced from the version before.
THEOREM DecisionsHold == Spec => []DecisionsReproduce
<1>1. ASSUME IInv PROVE DecisionsReproduce
  <2> SUFFICES ASSUME NEW id \in StoredWorkspaces,
                      NEW v \in DOMAIN projects[id].versions,
                      projects[id].versions[v].decision # None
               PROVE  /\ v - 1 \in DOMAIN projects[id].versions
                      /\ Reproduces(projects[id].versions[v - 1],
                                    projects[id].versions[v])
    BY DEF DecisionsReproduce
  <2>1. RowOK(id, projects[id]) /\ id \in Reserved
    BY <1>1 DEF IInv, RowsOK, StoredWorkspaces
  <2>2. /\ projects[id].current \in Nat
        /\ DOMAIN projects[id].versions = 1..projects[id].current
    BY <2>1, RowFields
  <2>3. v # 1
    BY <2>1 DEF RowOK
  <2>4. v \in 2..projects[id].current /\ v - 1 \in 1..projects[id].current
    BY <2>2, <2>3
  <2>5. Fits(projects[id].versions[v - 1], projects[id].versions[v])
    BY <2>1, <2>4 DEF RowOK, ChainFits
  <2> QED
    BY <2>2, <2>4, <2>5 DEF Fits
<1> QED
  BY <1>1, InvariantHolds, PTL
-----------------------------------------------------------------------------
(***************************************************************************)
(* The stored rows of anonymous workspaces implement PolicyHistory.  A     *)
(* stored workspace is seen as its chain of versions, each with the        *)
(* decision that led to it.  IInv gives what a step needs to be one of the *)
(* history's: an append that succeeds puts a version after the one it was  *)
(* checked against, and a tombstone stays.                                 *)
(***************************************************************************)

StageView == [id \in Reserved |-> StageOf(id)]
HistoryView == [id \in Reserved |-> HistoryOf(id)]

-----------------------------------------------------------------------------
(* Entries                                                                 *)

LEMMA EntriesFollow ==
  ASSUME NEW parent \in Version, NEW v \in Version, Fits(parent, v)
  PROVE  History!Follows(EntryOf(parent), EntryOf(v))
<1>1. CASE v.decision = None
  BY <1>1 DEF Fits, KeepsSelections, EntryOf, Choice, History!Follows,
              History!FollowsSilently
<1>2. CASE v.decision # None
  <2>1. v.decision \in Decision /\ Reproduces(parent, v)
    BY <1>2 DEF Version, Fits
  <2> DEFINE d == v.decision
  <2>2. /\ Choice(d) = [ambiguity |-> d.ambiguity, option |-> d.option]
        /\ Choice(d) # None
    BY <1>2, <2>1, NotInterpretedAssumption DEF Choice, Decision
  <2>3. v.ir = [parent.ir EXCEPT ![d.ambiguity] = d.option]
    <3>1. parent.ir \in Interpretation /\ v.ir \in Interpretation
      BY <2>1 DEF Reproduces, Version
    <3>2. PICK A \in SUBSET Ambiguity : parent.ir \in [A -> Option \cup {None}]
      BY <3>1 DEF Interpretation
    <3>3. PICK B \in SUBSET Ambiguity : v.ir \in [B -> Option \cup {None}]
      BY <3>1 DEF Interpretation
    <3>4. A = B
      BY <2>1, <3>2, <3>3 DEF Reproduces
    <3> QED
      BY <2>1, <3>2, <3>3, <3>4 DEF Reproduces
  <2>4. /\ v.text = parent.text /\ parent.ir # None
        /\ d.ambiguity \in DOMAIN parent.ir /\ parent.ir[d.ambiguity] # d.option
    BY <2>1 DEF Reproduces
  <2> QED
    BY <2>2, <2>3, <2>4 DEF EntryOf, History!Follows, History!FollowsByDecision
<1> QED
  BY <1>1, <1>2

LEMMA EntryIsInNext ==
  ASSUME NEW v \in Version
  PROVE  \E text \in Text, ir \in Interpretation \cup {None},
            decided \in History!Decision \cup {None} :
           EntryOf(v) = History!HistoryEntry(text, ir, decided)
<1>1. Choice(v.decision) \in History!Decision \cup {None}
  BY DEF Version, Decision, Choice, History!Decision
<1>2. v.text \in Text /\ v.ir \in Interpretation \cup {None}
  BY DEF Version
<1> QED
  BY <1>1, <1>2 DEF EntryOf, History!HistoryEntry

-----------------------------------------------------------------------------
(* Views                                                                   *)

LEMMA ViewsAreHistory == History!historyVars = <<StageView, HistoryView>>
BY DEF History!historyVars, StageView, HistoryView

\* A workspace whose row keeps its length and what Same keeps looks the same.
SameLooks(id) ==
  /\ id \in Stored <=> id \in Stored'
  /\ id \in retired <=> id \in retired'
  /\ id \in Stored => /\ projects[id]'.current = projects[id].current
                      /\ Extends(projects[id], projects[id]')

LEMMA SameView ==
  ASSUME IInv, NEW id \in Reserved, SameLooks(id)
  PROVE  StageOf(id)' = StageOf(id) /\ HistoryOf(id)' = HistoryOf(id)
<1>1. StageOf(id)' = StageOf(id)
  BY DEF SameLooks, StageOf
<1>2. CASE id \notin Stored
  BY <1>1, <1>2 DEF SameLooks, HistoryOf
<1>3. CASE id \in Stored
  <2>1. DOMAIN projects[id].versions = 1..projects[id].current
    BY <1>3 DEF IInv, RowsOK, RowOK
  <2>2. \A v \in 1..projects[id].current :
          EntryOf(projects[id].versions[v])' = EntryOf(projects[id].versions[v])
    BY <1>3, <2>1 DEF SameLooks, Extends, Same, EntryOf, Choice
  <2> QED
    BY <1>1, <1>3, <2>2 DEF SameLooks, HistoryOf
<1> QED
  BY <1>1, <1>2, <1>3

\* When every other workspace looks the same, the views change at one place.
LEMMA OneViewChanges ==
  ASSUME IInv, NEW w \in Reserved, \A id \in Reserved \ {w} : SameLooks(id)
  PROVE  /\ StageView' = [StageView EXCEPT ![w] = StageOf(w)']
         /\ HistoryView' = [HistoryView EXCEPT ![w] = HistoryOf(w)']
<1>1. \A id \in Reserved \ {w} :
        StageOf(id)' = StageOf(id) /\ HistoryOf(id)' = HistoryOf(id)
  BY SameView
<1> QED
  BY <1>1 DEF StageView, HistoryView

LEMMA NoViewChanges ==
  ASSUME IInv, \A id \in Reserved : SameLooks(id)
  PROVE  UNCHANGED History!historyVars
<1>1. \A id \in Reserved :
        StageOf(id)' = StageOf(id) /\ HistoryOf(id)' = HistoryOf(id)
  BY SameView
<1> QED
  BY <1>1 DEF History!historyVars

LEMMA LiveAreStored == History!Live = StoredWorkspaces
BY DEF History!Live, StoredWorkspaces, StageOf, Stored

-----------------------------------------------------------------------------
(* One lemma per kind of step                                              *)

LEMMA CreateRefines ==
  ASSUME IInv, NEW p \in Process, NEW id \in Policy, NEW text \in Text,
         NEW ir \in Interpretation \cup {None}, NEW t \in Time,
         CreateProject(p, id, text, ir, t)
  PROVE  History!HistoryNext \/ UNCHANGED History!historyVars
<1> DEFINE v1 == NewVersion(text, ir, None, t)
           new == [current |-> 1, updated |-> t, versions |-> [v \in {1} |-> v1]]
<1>1. /\ Stored' = Stored \cup {id}
      /\ id \notin Stored
      /\ projects'[id] = new
      /\ \A x \in Stored : projects'[x] = projects[x]
      /\ retired' = retired
  BY DEF CreateProject, CanCreate, Stored
<1>2. \A x \in Reserved \ {id} : SameLooks(x)
  BY <1>1, ExtendsReflexive DEF SameLooks
<1>3. CASE id \notin Reserved
  BY <1>2, <1>3, NoViewChanges
<1>4. CASE id \in Reserved
  <2>1. id \notin retired /\ Cardinality(StoredWorkspaces) < Capacity
    BY <1>4 DEF CreateProject, CanCreate
  <2>2. StageOf(id) = "ABSENT" /\ StageOf(id)' = "LIVE"
    BY <1>1, <2>1 DEF StageOf
  <2>3. HistoryOf(id)' = <<History!HistoryEntry(text, ir, None)>>
    <3>1. HistoryOf(id)' = [v \in 1..1 |-> EntryOf(new.versions[v])]
      <4> HIDE DEF v1
      <4>1. projects'[id].current = 1
        BY <1>1
      <4> HIDE DEF new
      <4> QED
        BY <1>1, <4>1 DEF HistoryOf, EntryOf, Choice
    <3>2. EntryOf(new.versions[1]) = History!HistoryEntry(text, ir, None)
      BY DEF NewVersion, EntryOf, Choice, History!HistoryEntry
    <3> QED
      BY <3>1, <3>2
  <2>4. /\ StageView' = [StageView EXCEPT ![id] = "LIVE"]
        /\ HistoryView' = [HistoryView EXCEPT ![id] =
                             <<History!HistoryEntry(text, ir, None)>>]
        /\ StageView[id] = "ABSENT"
    BY <1>2, <1>4, <2>2, <2>3, OneViewChanges DEF StageView
  <2>5. History!Cardinality(History!Live) < Capacity
    <3>1. Cardinality(History!Live) < Capacity
      BY <2>1, LiveAreStored
    <3>2. \A S : History!Cardinality(S) = Cardinality(S)
      BY Zenon DEF Cardinality, History!Cardinality
    <3> QED
      BY <3>1, <3>2
  <2>6. History!Open(id, text, ir)
    BY <1>4, <2>4, <2>5 DEF History!Open, StageView, HistoryView
  <2> QED
    BY <1>4, <2>6 DEF History!HistoryNext, History!Interpretation, Interpretation
<1> QED
  BY <1>3, <1>4

LEMMA RemovalRefines ==
  ASSUME IInv, NEW p \in Process, NEW id \in Policy,
         DeleteProject(p, id) \/ DeleteAnonymousWorkspace(p, id)
  PROVE  History!HistoryNext \/ UNCHANGED History!historyVars
<1>1. RemoveProject(id) /\ id \in Stored
  BY DEF DeleteProject, DeleteAnonymousWorkspace, StoredWorkspaces
<1>2. Stored' = Stored \ {id} /\ \A x \in Stored' : projects'[x] = projects[x]
  BY <1>1, RemovalKeepsRows
<1>3. CASE DeleteProject(p, id)
  <2>1. id \notin Reserved /\ retired' = retired
    BY <1>3 DEF DeleteProject
  <2>2. \A x \in Reserved : SameLooks(x)
    BY <1>2, <2>1, ExtendsReflexive DEF SameLooks
  <2> QED
    BY <2>2, NoViewChanges
<1>4. CASE DeleteAnonymousWorkspace(p, id)
  <2>1. id \in Reserved /\ retired' = retired \cup {id}
    BY <1>4 DEF DeleteAnonymousWorkspace, StoredWorkspaces
  <2>2. \A x \in Reserved \ {id} : SameLooks(x)
    BY <1>2, <2>1, ExtendsReflexive DEF SameLooks
  <2>3. StageOf(id) = "LIVE" /\ StageOf(id)' = "RETIRED" /\ HistoryOf(id)' = <<>>
    BY <1>1, <1>2, <2>1 DEF StageOf, HistoryOf
  <2>4. /\ StageView' = [StageView EXCEPT ![id] = "RETIRED"]
        /\ HistoryView' = [HistoryView EXCEPT ![id] = <<>>]
        /\ StageView[id] = "LIVE"
    BY <2>1, <2>2, <2>3, OneViewChanges DEF StageView
  <2>5. History!Retire(id)
    BY <2>4 DEF History!Retire, StageView, HistoryView
  <2> QED
    BY <2>1, <2>5 DEF History!HistoryNext
<1> QED
  BY <1>3, <1>4

LEMMA AppendRefines ==
  ASSUME IInv, NEW p \in Process, AppendVersion(p)
  PROVE  History!HistoryNext \/ UNCHANGED History!historyVars
<1>1. PICK c : c = call[p]
  OBVIOUS
<1> DEFINE w == c.policy
           pr == projects[w]
           n == pr.current
           new == Appended(pr, c)
<1>2. /\ w \in Stored /\ c.expected = n /\ c.version \in Version
      /\ w \in Reserved => Fits(pr.versions[n], c.version)
  BY <1>1, AppendSucceeds
<1>3. projects' = [projects EXCEPT ![w] = new] /\ retired' = retired
  BY <1>1 DEF AppendVersion
<1>4. /\ Stored' = Stored /\ projects'[w] = new
      /\ \A x \in Stored \ {w} : projects'[x] = projects[x]
  BY <1>2, <1>3 DEF Stored
<1>5. \A x \in Reserved \ {w} : SameLooks(x)
  BY <1>3, <1>4, ExtendsReflexive DEF SameLooks
<1>6. CASE w \notin Reserved
  BY <1>5, <1>6, NoViewChanges
<1>7. CASE w \in Reserved
  <2>1. RowOK(w, pr)
    BY <1>2 DEF IInv, RowsOK
  <2>2. /\ n \in Nat /\ n >= 1 /\ DOMAIN pr.versions = 1..n
        /\ pr.versions[n] \in Version
    BY <2>1, RowFields
  <2> DEFINE e == EntryOf(c.version)
             h == HistoryOf(w)
  <2>3. h = [v \in 1..n |-> EntryOf(pr.versions[v])]
    BY <1>2 DEF HistoryOf
  <2>4. /\ new.current = n + 1
        /\ new.versions = [v \in 1..(n + 1) |->
             IF v = n + 1 THEN c.version ELSE pr.versions[v]]
    <3>1. 1..n \cup {n + 1} = 1..(n + 1)
      BY <2>2
    <3> QED
      BY <1>2, <2>2, <3>1 DEF Appended
  <2>5. HistoryOf(w)' = [v \in 1..(n + 1) |-> EntryOf(new.versions[v])]
    <3>1. projects'[w].current = n + 1 /\ projects'[w].versions = new.versions
      BY <1>4, <2>4
    <3> HIDE DEF new, n
    <3> QED
      BY <1>2, <1>4, <3>1 DEF HistoryOf, EntryOf, Choice
  <2> HIDE DEF new, n
  <2>6. HistoryOf(w)' = Append(h, e)
    <3>1. \A v \in 1..n : EntryOf(new.versions[v]) = h[v]
      BY <2>2, <2>3, <2>4
    <3>2. EntryOf(new.versions[n + 1]) = e
      BY <2>2, <2>4
    <3>3. Len(h) = n
      BY <2>2, <2>3
    <3> HIDE DEF e, h
    <3> QED
      BY <2>2, <2>3, <2>5, <3>1, <3>2, <3>3
  <2>7. StageOf(w) = "LIVE" /\ StageOf(w)' = "LIVE"
    BY <1>2, <1>4 DEF StageOf
  <2>8. h[Len(h)] = EntryOf(pr.versions[n])
    BY <2>2, <2>3
  <2>9. History!Follows(h[Len(h)], e)
    BY <1>2, <1>7, <2>2, <2>8, EntriesFollow DEF n
  <2> HIDE DEF e, h
  <2>10. /\ StageView' = StageView
         /\ HistoryView' = [HistoryView EXCEPT ![w] = Append(h, e)]
         /\ StageView[w] = "LIVE" /\ HistoryView[w] = h
    <3>1. StageView' = [StageView EXCEPT ![w] = "LIVE"]
      BY <1>5, <1>7, <2>7, OneViewChanges
    <3>2. StageView[w] = "LIVE" /\ StageView' = StageView
      BY <1>7, <2>7, <3>1 DEF StageView
    <3> QED
      BY <1>5, <1>7, <2>6, <3>2, OneViewChanges DEF HistoryView, h
  <2>11. History!Extend(w, e)
    BY <2>9, <2>10 DEF History!Extend, StageView, HistoryView
  <2>12. \E text \in Text, ir \in Interpretation \cup {None},
            decided \in History!Decision \cup {None} :
           e = History!HistoryEntry(text, ir, decided)
    BY <1>2, EntryIsInNext DEF e
  <2>13. Len(HistoryView'[w]) = Len(HistoryView[w]) + 1
    <3>1. HistoryView'[w] = Append(h, e)
      BY <1>7, <2>10 DEF HistoryView
    <3>2. Len(h) = n /\ h = [v \in 1..n |-> h[v]]
      BY <2>2, <2>3 DEF h
    <3>3. Len(Append(h, e)) = n + 1
      BY <2>2, <3>2
    <3> QED
      BY <2>10, <3>1, <3>2, <3>3
  <2> QED
    BY <1>7, <2>11, <2>12, <2>13
       DEF History!HistoryNext, History!Interpretation, Interpretation, HistoryView
<1> QED
  BY <1>6, <1>7

LEMMA TransitionRefines ==
  ASSUME IInv, NEW p \in Process, TransitionState(p)
  PROVE  UNCHANGED History!historyVars
<1>1. PICK c : c = call[p]
  OBVIOUS
<1>2. retired' = retired
  BY DEF TransitionState
<1>3. CASE ~CanMove(call[p])
  <2>1. projects' = projects
    BY <1>3 DEF TransitionState
  <2>2. \A x \in Reserved : SameLooks(x)
    BY <1>2, <2>1, ExtendsReflexive DEF SameLooks, Stored
  <2> QED
    BY <2>2, NoViewChanges
<1>4. CASE CanMove(call[p])
  <2>1. c \in Call /\ c.op = "TRANSITION"
    BY <1>1 DEF IInv, TransitionState
  <2>2. /\ c.policy \in Stored /\ RowOK(c.policy, projects[c.policy])
        /\ c.version \in DOMAIN projects[c.policy].versions
    BY <1>1, <1>4 DEF CanMove, IInv, RowsOK
  <2>3. PICK new : new = Moved(projects[c.policy], c)
    OBVIOUS
  <2>4. Extends(projects[c.policy], new)
    BY <2>1, <2>2, <2>3, CallTypes, MovedRow
  <2>5. new.current = projects[c.policy].current
    BY <2>2, <2>3 DEF Moved, RowOK, ProjectOK, Project
  <2>6. projects' = [projects EXCEPT ![c.policy] = new]
    BY <1>1, <1>4, <2>3 DEF TransitionState
  <2>7. /\ Stored' = Stored /\ projects'[c.policy] = new
        /\ \A x \in Stored \ {c.policy} : projects'[x] = projects[x]
    BY <2>2, <2>6 DEF Stored
  <2>8. \A x \in Reserved : SameLooks(x)
    BY <1>2, <2>4, <2>5, <2>7, ExtendsReflexive DEF SameLooks
  <2> QED
    BY <2>8, NoViewChanges
<1> QED
  BY <1>3, <1>4

-----------------------------------------------------------------------------
(* The refinement                                                          *)

LEMMA InitIsHistory == Init => History!HistoryInit
BY DEF Init, History!HistoryInit, StageOf, HistoryOf, Stored

LEMMA NextIsHistory ==
  IInv /\ [Next]_vars => [History!HistoryNext]_(History!historyVars)
<1> SUFFICES ASSUME IInv, [Next]_vars
             PROVE  History!HistoryNext \/ UNCHANGED History!historyVars
  OBVIOUS
<1>1. ASSUME UNCHANGED <<projects, retired>>
      PROVE  UNCHANGED History!historyVars
  <2>1. \A x \in Reserved : SameLooks(x)
    BY <1>1, ExtendsReflexive DEF SameLooks, Stored
  <2> QED
    BY <2>1, NoViewChanges
<1>2. CASE UNCHANGED vars
  BY <1>1, <1>2 DEF vars
<1>3. ASSUME NEW p \in Process, NEW id \in Policy, NEW text \in Text,
             NEW ir \in Interpretation \cup {None}, NEW t \in Time,
             BeginAppend(p, id, text, ir, t)
      PROVE  UNCHANGED History!historyVars
  BY <1>1, <1>3 DEF BeginAppend
<1>4. ASSUME NEW p \in Process, NEW id \in Policy, NEW d \in Decision,
             NEW t \in Time, BeginDecision(p, id, d, t)
      PROVE  UNCHANGED History!historyVars
  BY <1>1, <1>4 DEF BeginDecision
<1>5. ASSUME NEW p \in Process, NEW id \in Policy, NEW move \in AskedMoves,
             NEW t \in Time, BeginTransition(p, id, move, t)
      PROVE  UNCHANGED History!historyVars
  BY <1>1, <1>5 DEF BeginTransition
<1>6. ASSUME NEW p \in Process, RefuseAppend(p) \/ Crash(p)
      PROVE  UNCHANGED History!historyVars
  BY <1>1, <1>6 DEF RefuseAppend, Crash
<1> QED
  BY <1>2, <1>3, <1>4, <1>5, <1>6, CreateRefines, RemovalRefines,
     AppendRefines, TransitionRefines DEF Next

\* Whatever appends, expiries, crashes and repeated creations race, what the
\* store holds of a workspace changes only as PolicyHistory promises.
THEOREM StoreKeepsHistories == Spec => ImplementsHistory
<1>1. Init => History!HistoryInit
  BY InitIsHistory
<1>2. IInv /\ [Next]_vars => [History!HistoryNext]_(History!historyVars)
  BY NextIsHistory
<1> QED
  BY <1>1, <1>2, InvariantHolds, PTL
     DEF Spec, ImplementsHistory, History!HistorySpec
=============================================================================
