------------------------ MODULE LocalChallengeProofs ------------------------
(***************************************************************************)
(* The local challenge for any processes, operators, starts and faults.    *)
(*                                                                         *)
(* The lock: whoever has published its lock owns the directory "active"    *)
(* until it retires it itself, because an operator retires what was        *)
(* observed with a dead owner, and a nonce is never taken twice; what an   *)
(* operator observed is either retired already or still there              *)
(* (DeskFits).  The evidence: what was validated last is in its place or   *)
(* in the one backup, and at each place of the section it is known in      *)
(* which (SectionFits).  The repair: at each stage the workspace differs   *)
(* from the fresh one only where it may (StageFits).                       *)
(***************************************************************************)
EXTENDS LocalChallenge, FiniteSetTheorems, TLAPS

-----------------------------------------------------------------------------
(* The lock                                                                *)

Unpublished == {"probe", "publish", "unpublished"}
Published   == {"confirm", "held", "release", "retire"}
Lock == [owner : Process, nonce : 1..nonces]

LockTypeOK ==
  /\ nonces \in Nat
  /\ active \in Lock \cup {Free}
  /\ tombstones \subseteq 1..nonces
  /\ lockAt \in [Process -> {"off"} \cup Unpublished \cup Published]
  /\ own \in [Process -> 0..nonces]
  /\ tries \in [Process -> Nat]
  /\ left \subseteq Process
  /\ desk \in [Operator -> Lock \cup {Free}]

\* A living process has a nonce of its own, and its lock is in place exactly
\* from its publication to its release.
OwnerFits(p) ==
  /\ own[p] = 0 <=> lockAt[p] = "off"
  /\ lockAt[p] # "off" => own[p] \notin tombstones
  /\ \A q \in Process : own[p] = own[q] /\ own[p] # 0 => p = q
  /\ lockAt[p] \in Unpublished => active.nonce # own[p]
  /\ lockAt[p] \in Published => active = Owner(p)

\* Nobody alive has this nonce.
Abandoned(lock) == \A p \in Process : own[p] # lock.nonce

DeskFits(o) ==
  desk[o] # Free /\ desk[o].nonce \notin tombstones =>
    active = desk[o] /\ Abandoned(desk[o]) /\ left = {}

\* Children are those of the owner of an abandoned lock that is still there.
ChildrenFit ==
  left # {} => active # Free /\ Abandoned(active) /\ left = {active.owner}

LockInv ==
  /\ LockTypeOK
  /\ active.nonce \notin tombstones
  /\ \A p \in Process : OwnerFits(p)
  /\ \A o \in Operator : DeskFits(o)
  /\ ChildrenFit

-----------------------------------------------------------------------------
(* The evidence                                                            *)

Place == {"start", "prepare", "repair", "setAside", "promote", "validate",
          "rollBack", "restore", "discard", "discarding", "cleanup"}
SectionState == [at : Place, preserve : BOOLEAN]

Kept(e) == \E b \in backups : b.evidence = e
InPlace == latest # NoEvidence => final = latest
InBackup == latest # NoEvidence => Kept(latest)

\* The backup of the run that promotes, if there was something to set aside.
OneBackup(p) ==
  /\ \A b \in backups : b.of = own[p]
  /\ \A b, c \in backups : b = c

SectionFits(p) ==
  /\ ~Holds(p) => section[p] = Outside
  /\ Holds(p) =>
       /\ In(p, "prepare") \/ In(p, "repair") \/ In(p, "setAside") =>
            backups = {} /\ InPlace
       /\ In(p, "promote") \/ In(p, "validate") \/ In(p, "rollBack") =>
            OneBackup(p) /\ InBackup
       /\ In(p, "promote") => final = NoEvidence
       /\ In(p, "restore") =>
            /\ OneBackup(p) /\ InBackup
            /\ section[p].preserve <=> Mine(p) # {}
       /\ In(p, "discard") => OneBackup(p)
       /\ In(p, "discard") \/ In(p, "discarding") => InPlace
       /\ In(p, "cleanup") =>
            InPlace \/ (section[p].preserve /\ InBackup)

EvidenceInv ==
  /\ section \in [Process -> SectionState]
  /\ IsFiniteSet(backups)
  /\ InPlace \/ InBackup
  /\ \A p \in Process : SectionFits(p)
-----------------------------------------------------------------------------
(* The repair                                                              *)

Fields == {"stage", "attempt", "tree", "baseline", "before", "events",
           "observed", "passed", "tested"}
AllContents == UNION {Contents(p) : p \in Paths}
Workspace == [Paths -> [is : AllContents, stamp : Nat]]

\* Nothing but the planned files and what is built has been touched.
Confined(t) ==
  t["other"] = FreshWorkspace["other"] /\ t["stray"] = FreshWorkspace["stray"]
\* A turn may have added the stray file, which its report will show.
StrayShows(t) ==
  t["stray"] = FreshWorkspace["stray"] \/ t["stray"].is = "present"
\* What a report has established, of the tree the commands were run in.
Reported(r) ==
  /\ Confined(r.tested) /\ r.tested["test"].is = "seeded"
  /\ r.observed.patch = Patch(r.tested)
Built(t) == t["dist"].is = t["src"].is

StageFits(r) ==
  /\ r.stage \notin {"none", "failed", "passed"} =>
       /\ DOMAIN r = Fields
       /\ r.tree \in Workspace /\ r.before \in Workspace
       /\ r.tested \in Workspace /\ r.baseline \in Workspace
       /\ Confined(r.before)
  /\ r.stage \in {"cartography", "execution"} => r.tree = r.before
  /\ r.stage \in {"edits", "report"} => StrayShows(r.tree)
  /\ r.stage = "fixture-typecheck" =>
       /\ Confined(r.tree) /\ r.tree["test"].is = "seeded"
       /\ r.observed.patch = Patch(r.tree)
  /\ r.stage \in {"fixture-test", "corpus", "review"} => Reported(r)
  /\ r.stage = "fixture-test" => (r.passed => Built(r.tested))
  /\ r.stage \in {"corpus", "review"} => Built(r.tested)
  /\ r.stage = "review" => r.tree = r.tested /\ r.tree["dist"].is = "right"
  /\ r.stage = "passed" =>
       /\ Confined(r.tree) /\ Built(r.tree)
       /\ r.tree["src"].is = "right" /\ r.tree["test"].is = "seeded"
       /\ r.patch = Patch(r.tree)

RepairInv ==
  /\ DOMAIN repair = Process
  /\ \A p \in Process : StageFits(repair[p])
IInv == LockInv /\ EvidenceInv /\ RepairInv

-----------------------------------------------------------------------------
(* Steps of the lock                                                       *)

\* A process under the lock ends its work.
EndSection(p) ==
  /\ Holds(p) /\ Enter(p, "release")
  /\ UNCHANGED <<active, tombstones, own, tries, left, desk, nonces>>

LockAction ==
  \/ \E p \in Process : StartProcess(p) \/ LockStep(p) \/ EndSection(p) \/ Crash(p)
  \/ \E o \in Operator : Observe(o) \/ Retire(o)
  \/ DescendantsEnd

LEMMA LockStateFacts ==
  ASSUME LockInv
  PROVE  /\ active # Free <=> active \in Lock
         /\ \A lock \in Lock : lock.owner \in Process /\ lock.nonce \in 1..nonces
         /\ \A lock \in Lock : lock.nonce # 0
         /\ \A p \in Process : lockAt[p] # "off" => Owner(p) \in Lock
         /\ Free.nonce = 0
<1>1. \A lock \in Lock : lock.owner \in Process /\ lock.nonce \in 1..nonces
                          /\ lock.nonce # 0
  BY DEF Lock, LockInv, LockTypeOK
<1>2. Free.nonce = 0
  BY DEF Free
<1>3. ASSUME NEW p \in Process, lockAt[p] # "off"
      PROVE  Owner(p) \in Lock
  BY <1>3 DEF Owner, Lock, LockInv, LockTypeOK, OwnerFits
<1> QED BY <1>1, <1>2, <1>3 DEF LockInv, LockTypeOK

\* A lock that no living process has published is abandoned.
LEMMA DeadOwnerAbandons ==
  ASSUME LockInv, active # Free, ~Alive(active.owner)
  PROVE  Abandoned(active)
<1> SUFFICES ASSUME NEW p \in Process, own[p] = active.nonce
             PROVE  FALSE
  BY DEF Abandoned
<1>1. lockAt[p] # "off"
  BY LockStateFacts DEF LockInv, OwnerFits
<1>2. lockAt[p] \in Published
  BY <1>1 DEF LockInv, LockTypeOK, OwnerFits
<1>3. active.owner = p
  BY <1>2 DEF LockInv, OwnerFits, Owner
<1> QED BY <1>1, <1>3 DEF Alive

\* Whoever has published its lock excludes every other, the children of the
\* dead, and what an operator may retire.
LEMMA PublishedExcludes ==
  ASSUME LockInv, NEW p \in Process, lockAt[p] \in Published
  PROVE  /\ active = Owner(p) /\ active # Free /\ left = {}
         /\ \A q \in Process : lockAt[q] \in Published => p = q
         /\ \A o \in Operator : desk[o] # Free => desk[o].nonce \in tombstones
<1>1. active = Owner(p) /\ own[p] # 0 /\ active.nonce = own[p]
  BY DEF LockInv, OwnerFits, Owner, Published
<1>2. active # Free
  BY <1>1, LockStateFacts
<1>3. ~Abandoned(active)
  BY <1>1 DEF Abandoned
<1>4. left = {}
  BY <1>3 DEF LockInv, ChildrenFit
<1>5. ASSUME NEW q \in Process, lockAt[q] \in Published
      PROVE  p = q
  BY <1>1, <1>5 DEF LockInv, OwnerFits, Owner
<1>6. ASSUME NEW o \in Operator, desk[o] # Free
      PROVE  desk[o].nonce \in tombstones
  BY <1>3, <1>6 DEF LockInv, DeskFits
<1> QED BY <1>1, <1>2, <1>4, <1>5, <1>6

\* A process that moves without touching the lock.
LEMMA MoveKeepsLock ==
  ASSUME LockInv, NEW p \in Process, NEW to, Enter(p, to), lockAt[p] # "off",
         \/ lockAt[p] \in Unpublished /\ to \in Unpublished
         \/ lockAt[p] \in Published /\ to \in Published,
         tries' \in [Process -> Nat],
         UNCHANGED <<active, tombstones, own, left, desk, nonces>>
  PROVE  LockInv'
<1> USE DEF LockInv
<1>1. LockTypeOK'
  BY DEF LockTypeOK, Enter, Lock
<1>2. \A q \in Process : OwnerFits(q)'
  BY DEF OwnerFits, Owner, Enter, LockTypeOK, Published, Unpublished
<1>3. (\A o \in Operator : DeskFits(o)') /\ ChildrenFit'
  BY DEF DeskFits, ChildrenFit, Abandoned
<1> QED BY <1>1, <1>2, <1>3

\* A process that ends leaves its lock, if any, to the operator.
LEMMA QuitKeepsLock ==
  ASSUME LockInv, NEW p \in Process, Quit(p), lockAt[p] # "off",
         UNCHANGED <<active, tombstones, left, desk, nonces>>
  PROVE  LockInv'
<1> USE DEF LockInv
<1>1. LockTypeOK'
  BY DEF LockTypeOK, Quit, Enter, Lock
<1>2. \A q \in Process : OwnerFits(q)'
  BY DEF OwnerFits, Owner, Quit, Enter, LockTypeOK, Published, Unpublished
<1>3. ASSUME NEW lock \in Lock, Abandoned(lock)
      PROVE  Abandoned(lock)'
  BY <1>3, LockStateFacts DEF Abandoned, Quit, LockTypeOK
<1>4. \A o \in Operator : DeskFits(o)'
  BY <1>3 DEF DeskFits, LockTypeOK, Abandoned
<1>5. ChildrenFit'
  BY <1>3 DEF ChildrenFit, LockTypeOK, Abandoned
<1> QED BY <1>1, <1>2, <1>4, <1>5

LEMMA StartKeepsLock ==
  ASSUME LockInv, NEW p \in Process, StartProcess(p)
  PROVE  LockInv'
<1> USE DEF LockInv
<1>1. LockTypeOK'
  BY DEF LockTypeOK, StartProcess, Enter, Lock, Alive, Unpublished
<1>2. active.nonce # nonces + 1 /\ nonces + 1 \notin tombstones /\ nonces + 1 # 0
      /\ \A q \in Process : own[q] # nonces + 1
  BY LockStateFacts DEF LockTypeOK
<1>3. \A q \in Process : OwnerFits(q)'
  BY <1>2 DEF OwnerFits, Owner, StartProcess, Enter, Alive, LockTypeOK, Published, Unpublished
<1>4. ASSUME NEW lock \in Lock, Abandoned(lock)
      PROVE  Abandoned(lock)'
  BY <1>4, LockStateFacts DEF Abandoned, StartProcess, LockTypeOK
<1>5. \A o \in Operator : DeskFits(o)'
  BY <1>4 DEF DeskFits, LockTypeOK, Abandoned, StartProcess
<1>6. ChildrenFit'
  BY <1>4 DEF ChildrenFit, LockTypeOK, Abandoned, StartProcess
<1> QED BY <1>1, <1>3, <1>5, <1>6 DEF StartProcess

LEMMA PublishKeepsLock ==
  ASSUME LockInv, NEW p \in Process, Publish(p), active = Free
  PROVE  LockInv'
<1> USE DEF LockInv
<1>1. Owner(p) \in Lock /\ active' = Owner(p) /\ active'.nonce = own[p]
      /\ own[p] \notin tombstones
      /\ UNCHANGED <<tombstones, own, tries, left, desk, nonces>>
      /\ lockAt' = [lockAt EXCEPT ![p] = "confirm"] /\ lockAt[p] = "publish"
  BY LockStateFacts DEF Publish, Publishable, Enter, Owner, OwnerFits
<1>2. LockTypeOK'
  BY <1>1 DEF LockTypeOK, Lock, Published
<1>3. \A q \in Process : lockAt[q] \notin Published
  BY PublishedExcludes
<1>4. \A q \in Process : OwnerFits(q)'
  BY <1>1, <1>3 DEF OwnerFits, Owner, LockTypeOK, Published, Unpublished
<1>5. left = {} /\ \A o \in Operator : desk[o] # Free => desk[o].nonce \in tombstones
  BY DEF ChildrenFit, DeskFits
<1> QED BY <1>1, <1>2, <1>4, <1>5 DEF DeskFits, ChildrenFit

LEMMA ReleaseKeepsLock ==
  ASSUME LockInv, NEW p \in Process, Release(p)
  PROVE  LockInv'
<1> USE DEF LockInv
<1>1. /\ active' = Free /\ tombstones' = tombstones \cup {own[p]} /\ own[p] # 0
      /\ lockAt' = [lockAt EXCEPT ![p] = "off"] /\ own' = [own EXCEPT ![p] = 0]
      /\ tries' = [tries EXCEPT ![p] = 0] /\ UNCHANGED <<left, desk, nonces>>
      /\ lockAt[p] \in Published
  BY DEF Release, Retired, Quit, Enter, OwnerFits, Published
<1>2. LockTypeOK'
  <2>1. own[p] \in 1..nonces /\ 0 \in 0..nonces
    BY <1>1 DEF LockTypeOK
  <2> QED BY <1>1, <2>1 DEF LockTypeOK, Lock
<1>3. \A q \in Process : lockAt[q] \in Published => p = q
  BY <1>1, PublishedExcludes
<1>4. \A q \in Process : OwnerFits(q)'
  BY <1>1, <1>3, LockStateFacts DEF OwnerFits, Owner, LockTypeOK, Published, Unpublished
<1>5. left = {} /\ \A o \in Operator : desk[o] # Free => desk[o].nonce \in tombstones
  BY <1>1, PublishedExcludes
<1>6. active'.nonce \notin tombstones'
  BY <1>1, LockStateFacts DEF LockTypeOK
<1> QED BY <1>1, <1>2, <1>4, <1>5, <1>6 DEF DeskFits, ChildrenFit

LEMMA CrashKeepsLock ==
  ASSUME LockInv, NEW p \in Process, Crash(p)
  PROVE  LockInv'
<1> USE DEF LockInv
<1>1. CASE left' = left
  BY <1>1, QuitKeepsLock DEF Crash, Alive
<1>2. CASE Holds(p) /\ left' = left \cup {p}
  <2>1. /\ active = Owner(p) /\ active # Free /\ left = {} /\ lockAt[p] \in Published
        /\ \A o \in Operator : desk[o] # Free => desk[o].nonce \in tombstones
    BY <1>2, PublishedExcludes DEF Holds, Published
  <2>2. LockTypeOK'
    BY <1>2 DEF LockTypeOK, Crash, Quit, Enter, Lock
  <2>3. \A q \in Process : OwnerFits(q)'
    BY DEF OwnerFits, Owner, Crash, Quit, Enter, LockTypeOK, Published, Unpublished
  <2>4. ChildrenFit'
    <3>1. left' = {active.owner}
      BY <1>2, <2>1 DEF Owner
    <3>2. Abandoned(active)'
      BY <2>1, LockStateFacts
         DEF Abandoned, Owner, Crash, Quit, OwnerFits, LockTypeOK, Published
    <3> QED BY <2>1, <3>1, <3>2 DEF ChildrenFit, Crash
  <2>5. \A o \in Operator : DeskFits(o)'
    BY <2>1 DEF DeskFits, Crash
  <2> QED BY <2>2, <2>3, <2>4, <2>5 DEF Crash
<1> QED BY <1>1, <1>2 DEF Crash

LEMMA OperatorKeepsLock ==
  ASSUME LockInv, NEW o \in Operator, Observe(o) \/ Retire(o)
  PROVE  LockInv'
<1> USE DEF LockInv
<1>1. CASE Observe(o)
  <2>1. Abandoned(active) /\ left = {} /\ desk' = [desk EXCEPT ![o] = active]
        /\ UNCHANGED <<active, tombstones, lockAt, own, tries, left, nonces>>
    BY <1>1, DeadOwnerAbandons DEF Observe, ChildrenFit
  <2>2. LockTypeOK'
    BY <2>1 DEF LockTypeOK, Lock
  <2>3. (\A q \in Process : OwnerFits(q)') /\ ChildrenFit'
    BY <2>1 DEF OwnerFits, Owner, ChildrenFit, Abandoned
  <2>4. \A d \in Operator : DeskFits(d)'
    BY <2>1 DEF DeskFits, Abandoned, LockTypeOK
  <2> QED BY <2>1, <2>2, <2>3, <2>4
<1>2. CASE Retire(o)
  <2>1. CASE active # Free /\ desk[o].nonce \notin tombstones
    <3>1. active = desk[o] /\ Abandoned(active) /\ left = {}
      BY <1>2, <2>1 DEF Retire, DeskFits
    <3>2. /\ active' = Free /\ tombstones' = tombstones \cup {active.nonce}
          /\ desk' = [desk EXCEPT ![o] = Free]
          /\ UNCHANGED <<lockAt, own, tries, left, nonces>>
      BY <1>2, <2>1, <3>1 DEF Retire, Retired
    <3>3. LockTypeOK'
      BY <2>1, <3>2, LockStateFacts DEF LockTypeOK, Lock
    <3>4. \A q \in Process : OwnerFits(q)'
      <4>1. \A q \in Process : lockAt[q] \notin Published
        BY <3>1, PublishedExcludes DEF Abandoned, Owner
      <4> QED BY <3>1, <3>2, <4>1, LockStateFacts
              DEF OwnerFits, Owner, Abandoned, Published, Unpublished, LockTypeOK
    <3>5. \A d \in Operator : DeskFits(d)'
      BY <3>2 DEF DeskFits, LockTypeOK
    <3>6. active'.nonce \notin tombstones' /\ ChildrenFit'
      BY <2>1, <3>1, <3>2, LockStateFacts DEF LockTypeOK, ChildrenFit
    <3> QED BY <3>3, <3>4, <3>5, <3>6
  <2>2. CASE UNCHANGED <<active, tombstones>>
    <3>1. desk' = [desk EXCEPT ![o] = Free]
          /\ UNCHANGED <<active, tombstones, lockAt, own, tries, left, nonces>>
      BY <1>2, <2>2 DEF Retire
    <3>2. LockTypeOK'
      BY <3>1 DEF LockTypeOK, Lock
    <3>3. (\A q \in Process : OwnerFits(q)') /\ ChildrenFit'
      BY <3>1 DEF OwnerFits, Owner, ChildrenFit, Abandoned
    <3>4. \A d \in Operator : DeskFits(d)'
      BY <3>1 DEF DeskFits, Abandoned, LockTypeOK
    <3> QED BY <3>1, <3>2, <3>3, <3>4
  <2> QED BY <1>2, <2>1, <2>2 DEF Retire
<1> QED BY <1>1, <1>2

LEMMA LockActionKeepsLock ==
  ASSUME LockInv, LockAction \/ UNCHANGED lockVars
  PROVE  LockInv'
<1>1. CASE UNCHANGED lockVars
  BY <1>1 DEF LockInv, LockTypeOK, Lock, OwnerFits, Owner, DeskFits, ChildrenFit,
              Abandoned, lockVars
<1>2. ASSUME NEW p \in Process, LockStep(p)
      PROVE  LockInv'
  <2>1. CASE Probe(p) \/ Retry(p) \/ Confirm(p) \/ ObserveOwn(p)
    <3>1. /\ UNCHANGED <<active, tombstones, left, desk, nonces>>
          /\ lockAt[p] # "off"
          /\ \/ Quit(p)
             \/ /\ UNCHANGED own
                /\ \/ lockAt[p] \in Unpublished /\ \E to \in Unpublished : Enter(p, to)
                   \/ lockAt[p] \in Published /\ \E to \in Published : Enter(p, to)
      BY <2>1 DEF Probe, Retry, Confirm, ObserveOwn, Unpublished, Published
    <3>2. Quit(p) \/ tries' \in [Process -> Nat]
      BY <2>1 DEF Probe, Retry, Confirm, ObserveOwn, LockInv, LockTypeOK
    <3> QED BY <3>1, <3>2, QuitKeepsLock, MoveKeepsLock
  <2>2. CASE Publish(p)
    <3>1. CASE active = Free
      BY <2>2, <3>1, PublishKeepsLock
    <3>2. CASE active # Free
      <4>1. Enter(p, "unpublished") /\ lockAt[p] = "publish" /\ tries' = tries
            /\ UNCHANGED <<active, tombstones, own, left, desk, nonces>>
        BY <2>2, <3>2 DEF Publish, Publishable
      <4>2. "unpublished" \in Unpublished /\ "publish" \in Unpublished
        BY DEF Unpublished
      <4> QED BY <4>1, <4>2, MoveKeepsLock DEF LockInv, LockTypeOK
    <3> QED BY <3>1, <3>2
  <2> QED BY <1>2, <2>1, <2>2, ReleaseKeepsLock DEF LockStep
<1>3. ASSUME NEW p \in Process, EndSection(p)
      PROVE  LockInv'
  <2>1. lockAt[p] = "held" /\ tries' = tries
    BY <1>3 DEF EndSection, Holds
  <2>2. "held" \in Published /\ "release" \in Published
    BY DEF Published
  <2> QED BY <1>3, <2>1, <2>2, MoveKeepsLock DEF EndSection, LockInv, LockTypeOK
<1>4. CASE DescendantsEnd
  BY <1>4 DEF DescendantsEnd, LockInv, LockTypeOK, Lock, OwnerFits, Owner, DeskFits,
              ChildrenFit, Abandoned
<1> QED
  BY <1>1, <1>2, <1>3, <1>4, StartKeepsLock, CrashKeepsLock, OperatorKeepsLock
     DEF LockAction
-----------------------------------------------------------------------------
(* Steps of the section, on the evidence                                   *)

\* What a step of process p in its section may do to the others: nothing.
OnlySection(p) ==
  /\ Holds(p)
  /\ section' \in [Process -> SectionState]
  /\ \A q \in Process \ {p} : section'[q] = section[q] /\ lockAt'[q] = lockAt[q]

LEMMA SectionStepKeepsEvidence ==
  ASSUME LockInv, EvidenceInv, NEW p \in Process, OnlySection(p),
         IsFiniteSet(backups'), (InPlace \/ InBackup)', SectionFits(p)'
  PROVE  EvidenceInv'
<1>1. ASSUME NEW q \in Process, q # p
      PROVE  SectionFits(q)'
  <2>1. ~Holds(q) /\ lockAt'[q] = lockAt[q]
    BY <1>1, PublishedExcludes DEF OnlySection, Holds, Published
  <2>2. section'[q] = Outside
    BY <1>1, <2>1 DEF EvidenceInv, SectionFits, OnlySection
  <2> QED BY <2>1, <2>2 DEF SectionFits, Holds
<1> QED BY <1>1 DEF EvidenceInv, OnlySection

\* Leaving the section, well or not.
LEMMA LeaveKeepsEvidence ==
  ASSUME LockInv, EvidenceInv, NEW p \in Process, Leave(p),
         IsFiniteSet(backups'), (InPlace \/ InBackup)'
  PROVE  EvidenceInv'
<1>1. section' = [section EXCEPT ![p] = Outside]
      /\ Outside \in SectionState
      /\ lockAt' = [lockAt EXCEPT ![p] = "release"] /\ Holds(p)
  BY DEF Leave, Enter, Outside, SectionState, Place
<1>2. OnlySection(p)
  BY <1>1 DEF OnlySection, EvidenceInv, LockInv, LockTypeOK
<1>3. SectionFits(p)'
  BY <1>1 DEF SectionFits, Holds, LockInv, LockTypeOK, EvidenceInv
<1> QED BY <1>2, <1>3, SectionStepKeepsEvidence

\* What a place of the section and its flag become.
Arrives(p, at, preserve) ==
  /\ OnlySection(p) /\ lockAt' = lockAt
  /\ section'[p] = [at |-> at, preserve |-> preserve]

LEMMA GoArrives ==
  ASSUME LockInv, EvidenceInv, NEW p \in Process, Holds(p), lockAt' = lockAt,
         NEW at \in Place, Go(p, at)
  PROVE  Arrives(p, at, section[p].preserve)
<1>1. section[p] \in SectionState
  BY DEF EvidenceInv
<1>2. [section[p] EXCEPT !.at = at] = [at |-> at, preserve |-> section[p].preserve]
      /\ [at |-> at, preserve |-> section[p].preserve] \in SectionState
  BY <1>1 DEF SectionState
<1> QED BY <1>2 DEF Go, Arrives, OnlySection, EvidenceInv

LEMMA FlagArrives ==
  ASSUME LockInv, EvidenceInv, NEW p \in Process, Holds(p), lockAt' = lockAt,
         NEW at \in Place, NEW preserve \in BOOLEAN,
         section' = [section EXCEPT ![p] = [at |-> at, preserve |-> preserve]]
  PROVE  Arrives(p, at, preserve)
<1>1. [at |-> at, preserve |-> preserve] \in SectionState
  BY DEF SectionState
<1> QED BY <1>1 DEF Arrives, OnlySection, EvidenceInv

\* Before promotion the evidence is in its place.
LEMMA BeforePromotion ==
  ASSUME LockInv, EvidenceInv, NEW p \in Process,
         Recover(p) \/ Prepare(p) \/ Conclude(p)
  PROVE  EvidenceInv'
<1>1. CASE Recover(p)
  <2>1. CASE backups = {} /\ Go(p, "prepare") /\ UNCHANGED <<lockVars, evidenceVars, repair>>
    <3>1. InPlace /\ Holds(p) /\ UNCHANGED <<lockAt, final, backups, latest>>
      BY <1>1, <2>1 DEF EvidenceInv, InBackup, InPlace, Kept, Recover, In, lockVars, evidenceVars
    <3>2. Arrives(p, "prepare", section[p].preserve)
      BY <2>1, <3>1, GoArrives DEF Place
    <3> QED BY <2>1, <3>1, <3>2, SectionStepKeepsEvidence
            DEF Arrives, SectionFits, In, InPlace, EvidenceInv, Holds
  <2>2. CASE Leave(p) /\ UNCHANGED evidenceVars
    BY <2>2, LeaveKeepsEvidence DEF EvidenceInv, evidenceVars, InPlace, InBackup, Kept
  <2>3. CASE /\ ~NeedsManualRecovery
             /\ \E b \in backups : final' = b.evidence
             /\ backups' = {} /\ Go(p, "prepare")
             /\ UNCHANGED <<lockVars, faults, latest, repair>>
    <3>1. PICK b : backups = {b}
      BY <2>3, FS_Singleton DEF NeedsManualRecovery, EvidenceInv
    <3>2. final' = b.evidence /\ final = NoEvidence /\ UNCHANGED latest
      BY <2>3, <3>1 DEF NeedsManualRecovery
    <3>3. InPlace'
      BY <3>1, <3>2 DEF EvidenceInv, InPlace, InBackup, Kept
    <3>4. Arrives(p, "prepare", section[p].preserve)
      BY <1>1, <2>3, GoArrives DEF Place, Recover, In, lockVars
    <3>5. IsFiniteSet(backups')
      BY <2>3, FS_EmptySet
    <3> QED BY <2>3, <3>3, <3>4, <3>5, SectionStepKeepsEvidence
            DEF Arrives, OnlySection, SectionFits, In, Holds
  <2> QED BY <1>1, <2>1, <2>2, <2>3 DEF Recover
<1>2. CASE Prepare(p)
  <2>1. CASE Leave(p)
    BY <1>2, <2>1, LeaveKeepsEvidence
       DEF Prepare, EvidenceInv, evidenceVars, InPlace, InBackup, Kept
  <2>2. CASE Go(p, "repair") /\ InSection
    <3>1. InPlace /\ Holds(p) /\ backups = {} /\ UNCHANGED <<lockAt, final, backups, latest>>
      BY <1>2, <2>2 DEF EvidenceInv, SectionFits, Prepare, In, InSection, lockVars, evidenceVars
    <3>2. Arrives(p, "repair", section[p].preserve)
      BY <2>2, <3>1, GoArrives DEF Place
    <3> QED BY <3>1, <3>2, SectionStepKeepsEvidence
            DEF Arrives, SectionFits, In, InPlace, EvidenceInv, Holds
  <2> QED BY <1>2, <2>1, <2>2 DEF Prepare
<1>3. CASE Conclude(p)
  <2>1. InPlace /\ Holds(p) /\ backups = {} /\ UNCHANGED <<lockAt, final, backups, latest>>
    BY <1>3 DEF EvidenceInv, SectionFits, Conclude, In, InSection, Untouched, lockVars
  <2>2. PICK at \in {"cleanup", "setAside"} : Arrives(p, at, section[p].preserve)
    BY <1>3, <2>1, GoArrives DEF Place, Conclude
  <2> QED BY <2>1, <2>2, SectionStepKeepsEvidence
          DEF Arrives, SectionFits, In, InPlace, EvidenceInv, Holds
<1> QED BY <1>1, <1>2, <1>3
\* While the evidence is replaced the backup has what was validated last, and
\* from the validation on the new evidence is what was validated last.
LEMMA DuringPromotion ==
  ASSUME LockInv, EvidenceInv, NEW p \in Process,
         SetAside(p) \/ Promote(p) \/ Validate(p) \/ BeginDiscard(p) \/ EndDiscard(p)
  PROVE  EvidenceInv'
<1>0. Holds(p) /\ lockAt' = lockAt
  BY DEF SetAside, Promote, Validate, BeginDiscard, EndDiscard, In, InSection, lockVars
<1> USE DEF Fault
<1>1. CASE SetAside(p)
  <2>1. backups = {} /\ InPlace /\ UNCHANGED latest
    BY <1>0, <1>1 DEF EvidenceInv, SectionFits, SetAside, In
  <2>2. CASE Go(p, "promote") /\ final' = NoEvidence
             /\ backups' = backups \cup (IF final = NoEvidence THEN {}
                                         ELSE {[of |-> own[p], evidence |-> final]})
    <3>1. Arrives(p, "promote", section[p].preserve)
      BY <1>0, <2>2, GoArrives DEF Place
    <3>2. IsFiniteSet(backups')
      <4>1. backups' = {} \/ backups' = {[of |-> own[p], evidence |-> final]}
        BY <2>1, <2>2
      <4> QED BY <4>1, FS_EmptySet, FS_Singleton
    <3>3. own' = own
      BY <1>1 DEF SetAside, InSection, lockVars
    <3>4. OneBackup(p)' /\ InBackup'
      <4>1. CASE final = NoEvidence
        BY <2>1, <2>2, <3>3, <4>1 DEF OneBackup, InBackup, InPlace, Kept
      <4>2. CASE final # NoEvidence
        <5>1. backups' = {[of |-> own[p], evidence |-> final]}
          BY <2>1, <2>2, <4>2
        <5> QED BY <2>1, <3>3, <5>1 DEF OneBackup, InBackup, InPlace, Kept
      <4> QED BY <4>1, <4>2
    <3> QED BY <1>0, <2>2, <3>1, <3>2, <3>4, SectionStepKeepsEvidence
            DEF Arrives, SectionFits, In, Holds
  <2>3. CASE Go(p, "cleanup") /\ UNCHANGED <<final, backups>>
    <3>1. Arrives(p, "cleanup", section[p].preserve)
      BY <1>0, <2>3, GoArrives DEF Place
    <3> QED BY <1>0, <2>1, <2>3, <3>1, SectionStepKeepsEvidence
            DEF Arrives, SectionFits, In, Holds, EvidenceInv, InPlace
  <2> QED BY <1>1, <2>2, <2>3 DEF SetAside
<1>2. CASE Promote(p)
  <2>1. OneBackup(p) /\ InBackup /\ UNCHANGED <<own, backups, latest>>
    BY <1>0, <1>2 DEF EvidenceInv, SectionFits, Promote, In, InSection, lockVars
  <2>2. PICK at \in {"validate", "rollBack"} : Arrives(p, at, section[p].preserve)
    BY <1>0, <1>2, GoArrives DEF Place, Promote
  <2> QED BY <1>0, <2>1, <2>2, SectionStepKeepsEvidence
          DEF Arrives, SectionFits, In, Holds, EvidenceInv, InBackup, Kept, OneBackup
<1>3. CASE Validate(p)
  <2>1. OneBackup(p) /\ InBackup /\ UNCHANGED <<own, backups, final>>
    BY <1>0, <1>3 DEF EvidenceInv, SectionFits, Validate, In, InSection, lockVars
  <2>2. CASE Go(p, "discard") /\ latest' = final
    <3>1. Arrives(p, "discard", section[p].preserve)
      BY <1>0, <2>2, GoArrives DEF Place
    <3> QED BY <1>0, <2>1, <2>2, <3>1, SectionStepKeepsEvidence
            DEF Arrives, SectionFits, In, Holds, EvidenceInv, InPlace, OneBackup
  <2>3. CASE Go(p, "rollBack") /\ UNCHANGED latest
    <3>1. Arrives(p, "rollBack", section[p].preserve)
      BY <1>0, <2>3, GoArrives DEF Place
    <3> QED BY <1>0, <2>1, <2>3, <3>1, SectionStepKeepsEvidence
            DEF Arrives, SectionFits, In, Holds, EvidenceInv, InBackup, Kept, OneBackup
  <2> QED BY <1>3, <2>2, <2>3 DEF Validate
<1>4. CASE BeginDiscard(p)
  <2>1. OneBackup(p) /\ InPlace /\ UNCHANGED <<final, latest>>
    BY <1>0, <1>4 DEF EvidenceInv, SectionFits, BeginDiscard, In
  <2>2. Arrives(p, "discarding", section[p].preserve)
    BY <1>0, <1>4, GoArrives DEF Place, BeginDiscard
  <2>3. IsFiniteSet(backups')
    <3>1. CASE backups = {}
      BY <1>4, <3>1, FS_EmptySet DEF BeginDiscard, Mine
    <3>2. CASE backups # {}
      <4>1. PICK b : backups = {b} /\ Mine(p) = {b}
        BY <2>1, <3>2 DEF OneBackup, Mine
      <4>2. backups' = {[b EXCEPT !.evidence = Damaged(@)]}
        BY <1>4, <4>1 DEF BeginDiscard
      <4> QED BY <4>2, FS_Singleton
    <3> QED BY <3>1, <3>2
  <2> QED BY <1>0, <2>1, <2>2, <2>3, SectionStepKeepsEvidence
          DEF Arrives, SectionFits, In, Holds, InPlace
<1>5. CASE EndDiscard(p)
  <2>1. InPlace /\ UNCHANGED <<final, latest>> /\ backups' \subseteq backups
    BY <1>0, <1>5 DEF EvidenceInv, SectionFits, EndDiscard, In
  <2>2. PICK preserve \in BOOLEAN : Arrives(p, "cleanup", preserve)
    <3>1. section[p].preserve \in BOOLEAN /\ (Mine(p) # {}) \in BOOLEAN
      BY DEF EvidenceInv, SectionState
    <3> QED BY <1>0, <1>5, <3>1, GoArrives, FlagArrives DEF Place, EndDiscard
  <2>3. IsFiniteSet(backups')
    BY <2>1, FS_Subset DEF EvidenceInv
  <2> QED BY <1>0, <2>1, <2>2, <2>3, SectionStepKeepsEvidence
          DEF Arrives, SectionFits, In, Holds, InPlace
<1> QED BY <1>1, <1>2, <1>3, <1>4, <1>5

\* When the promotion fails, the backup comes back or is kept.
LEMMA AfterFailure ==
  ASSUME LockInv, EvidenceInv, NEW p \in Process,
         RollBack(p) \/ Restore(p) \/ CleanUp(p)
  PROVE  EvidenceInv'
<1>0. Holds(p)
  BY DEF RollBack, Restore, CleanUp, In
<1>1. CASE RollBack(p)
  <2>1. OneBackup(p) /\ InBackup /\ UNCHANGED <<own, backups, latest>> /\ lockAt' = lockAt
    BY <1>0, <1>1 DEF EvidenceInv, SectionFits, RollBack, In, InSection, lockVars
  <2>2. \/ Mine(p) # {} /\ Arrives(p, "restore", TRUE)
        \/ Mine(p) = {} /\ Arrives(p, "restore", FALSE)
    <3>1. CASE Mine(p) # {}
      <4>1. Preserve(p) = TRUE
        BY <3>1 DEF Preserve
      <4> QED BY <1>0, <1>1, <2>1, <3>1, <4>1, FlagArrives DEF Place, RollBack
    <3>2. CASE Mine(p) = {}
      <4>1. Preserve(p) = FALSE
        BY <3>2 DEF Preserve
      <4> QED BY <1>0, <1>1, <2>1, <3>2, <4>1, FlagArrives DEF Place, RollBack
    <3> QED BY <3>1, <3>2
  <2>3. Mine(p)' = Mine(p)
    BY <2>1 DEF Mine
  <2>4. section'[p].at = "restore" /\ (section'[p].preserve <=> Mine(p)' # {})
    BY <2>2, <2>3 DEF Arrives
  <2> QED BY <1>0, <2>1, <2>2, <2>4, SectionStepKeepsEvidence
          DEF Arrives, SectionFits, In, Holds, EvidenceInv, InBackup, Kept, OneBackup
<1>2. CASE Restore(p)
  <2>1. OneBackup(p) /\ InBackup /\ UNCHANGED <<own, latest>> /\ lockAt' = lockAt
        /\ (section[p].preserve <=> Mine(p) # {}) /\ section[p].preserve \in BOOLEAN
    BY <1>0, <1>2
       DEF EvidenceInv, SectionFits, SectionState, Restore, In, InSection, lockVars
  <2>2. Mine(p) = backups
    BY <2>1 DEF Mine, OneBackup
  <2>3. ASSUME NEW b \in Mine(p), final' = b.evidence, backups' = backups \ {b},
               section' = [section EXCEPT ![p] = [at |-> "cleanup", preserve |-> FALSE]]
        PROVE  EvidenceInv'
    <3>1. backups' = {} /\ InPlace'
      BY <2>1, <2>2, <2>3 DEF OneBackup, InPlace, InBackup, Kept
    <3>2. Arrives(p, "cleanup", FALSE)
      BY <1>0, <2>1, <2>3, FlagArrives DEF Place
    <3> QED BY <1>0, <3>1, <3>2, FS_EmptySet, SectionStepKeepsEvidence
            DEF Arrives, SectionFits, In, Holds
  <2>4. CASE Mine(p) = {} /\ final' = NoEvidence /\ Go(p, "cleanup") /\ UNCHANGED backups
    <3>1. InPlace'
      BY <2>1, <2>2, <2>4 DEF InPlace, InBackup, Kept
    <3>2. Arrives(p, "cleanup", section[p].preserve)
      BY <1>0, <2>1, <2>4, GoArrives DEF Place
    <3> QED BY <1>0, <2>4, <3>1, <3>2, SectionStepKeepsEvidence
            DEF Arrives, SectionFits, In, Holds, EvidenceInv
  <2>5. CASE Go(p, "cleanup") /\ UNCHANGED backups
    <3>1. InBackup' /\ (InPlace' \/ section[p].preserve)
      BY <2>1, <2>2, <2>5 DEF InBackup, InPlace, Kept
    <3>2. Arrives(p, "cleanup", section[p].preserve)
      BY <1>0, <2>1, <2>5, GoArrives DEF Place
    <3> QED BY <1>0, <2>5, <3>1, <3>2, SectionStepKeepsEvidence
            DEF Arrives, SectionFits, In, Holds, EvidenceInv
  <2> QED BY <1>2, <2>3, <2>4, <2>5 DEF Restore, Fault
<1>3. CASE CleanUp(p)
  <2>1. /\ InPlace \/ (section[p].preserve /\ InBackup)
        /\ UNCHANGED <<final, latest>> /\ backups' \subseteq backups
        /\ section[p].preserve => backups' = backups
    BY <1>0, <1>3 DEF EvidenceInv, SectionFits, CleanUp, In
  <2>2. IsFiniteSet(backups')
    BY <2>1, FS_Subset DEF EvidenceInv
  <2>3. (InPlace \/ InBackup)'
    BY <2>1 DEF InPlace, InBackup, Kept
  <2> QED BY <1>3, <2>2, <2>3, LeaveKeepsEvidence DEF CleanUp
<1> QED BY <1>1, <1>2, <1>3
\* A step of the lock neither begins nor ends a section, except that whoever
\* has taken the lock is at its start.
LEMMA LockMoveKeepsEvidence ==
  ASSUME LockInv, EvidenceInv, LockMoves
  PROVE  EvidenceInv'
<1>0. UNCHANGED <<final, backups, latest, section>>
  BY DEF LockMoves, evidenceVars
<1>1. ASSUME NEW q \in Process
      PROVE  /\ Holds(q) => Holds(q)' /\ own'[q] = own[q]
             /\ section[q] = Outside \/ Holds(q)
  <2>1. section[q] = Outside \/ Holds(q)
    BY DEF EvidenceInv, SectionFits
  <2>2. Holds(q) => Holds(q)' /\ own'[q] = own[q]
    <3>1. ASSUME NEW p \in Process, StartProcess(p) \/ LockStep(p), Holds(q)
          PROVE  Holds(q)' /\ own'[q] = own[q]
      BY <3>1 DEF StartProcess, LockStep, Probe, Publish, Retry, Confirm, ObserveOwn, Release,
                  Quit, Enter, Holds, Alive, LockInv, LockTypeOK
    <3>2. ASSUME NEW o \in Operator, Observe(o) \/ Retire(o)
          PROVE  UNCHANGED <<lockAt, own>>
      BY <3>2 DEF Observe, Retire
    <3> QED BY <3>1, <3>2 DEF LockMoves, DescendantsEnd, Holds
  <2> QED BY <2>1, <2>2
<1>2. ASSUME NEW q \in Process
      PROVE  SectionFits(q)'
  <2>1. CASE Holds(q)
    BY <1>0, <1>1, <2>1
       DEF EvidenceInv, SectionFits, In, InPlace, InBackup, Kept, OneBackup, Mine
  <2>2. CASE ~Holds(q)
    BY <1>0, <1>1, <2>2 DEF SectionFits, In, Outside
  <2> QED BY <2>1, <2>2
<1> QED BY <1>0, <1>2 DEF EvidenceInv, InPlace, InBackup, Kept

LEMMA DeathKeepsEvidence ==
  ASSUME LockInv, EvidenceInv, NEW p \in Process, Dies(p)
  PROVE  EvidenceInv'
<1>1. /\ UNCHANGED <<final, backups, latest>>
      /\ section' = [section EXCEPT ![p] = Outside]
      /\ lockAt' = [lockAt EXCEPT ![p] = "off"] /\ own' = [own EXCEPT ![p] = 0]
  BY DEF Dies, Crash, Quit, Enter, evidenceVars
<1>2. Outside \in SectionState
  BY DEF Outside, SectionState, Place
<1>3. ASSUME NEW q \in Process
      PROVE  SectionFits(q)'
  <2>1. CASE q = p
    BY <1>1, <2>1 DEF SectionFits, Holds, EvidenceInv, LockInv, LockTypeOK
  <2>2. CASE q # p
    BY <1>1, <2>2 DEF EvidenceInv, SectionFits, Holds, In, InPlace, InBackup, Kept, OneBackup,
                      Mine, LockInv, LockTypeOK
  <2> QED BY <2>1, <2>2
<1> QED BY <1>1, <1>2, <1>3 DEF EvidenceInv, InPlace, InBackup, Kept

LEMMA StepKeepsEvidence ==
  ASSUME LockInv, EvidenceInv, [Next]_vars
  PROVE  EvidenceInv'
<1>1. ASSUME UNCHANGED <<lockVars, evidenceVars, section>>
      PROVE  EvidenceInv'
  BY <1>1 DEF lockVars, evidenceVars, EvidenceInv, SectionFits, Holds, In, InPlace, InBackup,
              Kept, OneBackup, Mine
<1>2. ASSUME NEW p \in Process, CheckOrBuildFails(p)
      PROVE  EvidenceInv'
  BY <1>2, LeaveKeepsEvidence
     DEF CheckOrBuildFails, EvidenceInv, evidenceVars, InPlace, InBackup, Kept
<1>3. ASSUME NEW p \in Process, Orchestrate(p) \/ CommandLeftovers(p)
      PROVE  EvidenceInv'
  BY <1>1, <1>3 DEF Orchestrate, CommandLeftovers
<1> QED
  BY <1>1, <1>2, <1>3, BeforePromotion, DuringPromotion, AfterFailure,
     LockMoveKeepsEvidence, DeathKeepsEvidence DEF Next, SectionStep, vars

-----------------------------------------------------------------------------
(* Steps of the repair                                                     *)

LEMMA WorkspaceFacts ==
  /\ FreshWorkspace \in Workspace /\ Confined(FreshWorkspace)
  /\ {"edited", "absent", "present"} \subseteq AllContents
  /\ Sources \subseteq AllContents /\ Tests \subseteq AllContents
<1>1. /\ Sources \subseteq AllContents /\ Tests \subseteq AllContents
      /\ {"kept", "edited", "absent", "present"} \subseteq AllContents
  BY DEF AllContents, Contents, Paths, Sources, Tests
<1>2. FreshWorkspace \in Workspace
  BY <1>1 DEF FreshWorkspace, Workspace, Entry, Sources, Tests
<1> QED BY <1>1, <1>2 DEF Confined

LEMMA WrittenFacts ==
  ASSUME NEW t \in Workspace, NEW p \in Paths, NEW c \in AllContents
  PROVE  /\ Written(t, p, c) \in Workspace
         /\ Written(t, p, c)[p].is = c
         /\ \A q \in Paths \ {p} : Written(t, p, c)[q] = t[q]
BY DEF Written, Workspace, Entry

LEMMA PlannedWriteFacts ==
  ASSUME NEW t \in Workspace, NEW p \in Planned, NEW c \in Sources \cup Tests
  PROVE  /\ Written(t, p, c) \in Workspace
         /\ Written(t, p, c)["stray"] = t["stray"]
<1>1. p \in Paths /\ "stray" \in Paths \ {p} /\ c \in AllContents
  BY WorkspaceFacts DEF Paths, Planned
<1> QED BY <1>1, WrittenFacts

LEMMA StrayedFacts ==
  ASSUME NEW t \in Workspace, t["stray"] = FreshWorkspace["stray"], NEW after \in Strayed(t)
  PROVE  after \in Workspace /\ StrayShows(after)
<1>1. /\ "other" \in Paths /\ "stray" \in Paths /\ "stray" \in Paths \ {"other"}
      /\ "edited" \in AllContents /\ "absent" \in AllContents /\ "present" \in AllContents
  BY WorkspaceFacts DEF Paths
<1>2. CASE after = Written(t, "other", "edited")
  <2>1. Written(t, "other", "edited") \in Workspace
    BY <1>1, WrittenFacts
  <2>2. Written(t, "other", "edited")["stray"] = t["stray"]
    BY <1>1, WrittenFacts
  <2> QED BY <1>2, <2>1, <2>2 DEF StrayShows
<1>3. CASE after = Written(t, "other", "absent")
  <2>1. Written(t, "other", "absent") \in Workspace
    BY <1>1, WrittenFacts
  <2>2. Written(t, "other", "absent")["stray"] = t["stray"]
    BY <1>1, WrittenFacts
  <2> QED BY <1>3, <2>1, <2>2 DEF StrayShows
<1>4. CASE after = Written(t, "stray", "present")
  BY SMTT(30), <1>1, <1>4, WrittenFacts DEF StrayShows
<1> QED BY <1>2, <1>3, <1>4 DEF Strayed

LEMMA MeddledIsWorkspace ==
  ASSUME NEW t \in Workspace, NEW after \in Meddled(t)
  PROVE  after \in Workspace
<1>1. CASE after = t
  BY <1>1
<1>2. ASSUME NEW p \in Paths, NEW c \in Contents(p), after = Written(t, p, c)
      PROVE  after \in Workspace
  BY <1>2, WrittenFacts DEF AllContents
<1> QED BY <1>1, <1>2 DEF Meddled

LEMMA BecomeKeepsRepair ==
  ASSUME RepairInv, NEW p \in Process, NEW r, StageFits(r), Become(p, r)
  PROVE  RepairInv'
BY DEF RepairInv, Become

LEMMA FailKeepsRepair ==
  ASSUME RepairInv, NEW p \in Process, NEW code, Fail(p, code)
  PROVE  RepairInv'
<1>1. StageFits([stage |-> "failed", code |-> code])
  BY DEF StageFits
<1> QED BY <1>1, BecomeKeepsRepair DEF Fail

LEMMA ReadOnlyKeepsRepair ==
  ASSUME RepairInv, NEW p \in Process, NEW result, StageFits(result), NEW code,
         ReadOnlyPhase(p, result, code)
  PROVE  RepairInv'
BY BecomeKeepsRepair, FailKeepsRepair DEF ReadOnlyPhase

LEMMA NextAttemptKeepsRepair ==
  ASSUME RepairInv, NEW p \in Process, NEW code, NextAttempt(p, code),
         repair[p].stage \in {"fixture-test", "corpus"}, repair[p].tree = repair[p].tested
  PROVE  RepairInv'
<1> DEFINE r == repair[p]
           again == [r EXCEPT !.stage = "execution", !.attempt = @ + 1, !.before = r.tree,
                              !.events = {}, !.passed = TRUE, !.tested = r.baseline]
<1>1. /\ DOMAIN r = Fields /\ r.tree \in Workspace /\ r.baseline \in Workspace
      /\ Confined(r.tree)
  BY DEF RepairInv, StageFits, Reported
<1>2. /\ DOMAIN again = Fields /\ again.stage = "execution" /\ again.tree = r.tree
      /\ again.before = r.tree /\ again.tested = r.baseline /\ again.baseline = r.baseline
  BY <1>1 DEF Fields
<1>3. StageFits(again)
  <2> HIDE DEF again
  <2> QED BY <1>1, <1>2 DEF StageFits
<1> QED BY <1>3, BecomeKeepsRepair, FailKeepsRepair DEF NextAttempt

\* The turns up to the report.
LEMMA TurnKeepsRepair ==
  ASSUME RepairInv, NEW p \in Process,
         \/ Cartograph(p) \/ ExecutionTurn(p) \/ RefuseTypedRepairEdits(p)
         \/ \E src \in Sources, test \in Tests : ApplyTypedRepairEdits(p, src, test)
  PROVE  RepairInv'
<1> DEFINE r == repair[p]
<1>0. StageFits(r)
  BY DEF RepairInv
<1> HIDE DEF r
<1>1. CASE Cartograph(p)
  <2> DEFINE next == [r EXCEPT !.stage = "execution"]
  <2>1. r.stage = "cartography" /\ DOMAIN r = Fields
    BY <1>0, <1>1 DEF Cartograph, At, StageFits, r
  <2>2. /\ DOMAIN next = Fields /\ next.stage = "execution" /\ next.tree = r.tree
        /\ next.before = r.before /\ next.tested = r.tested /\ next.baseline = r.baseline
    BY <2>1 DEF Fields
  <2>3. StageFits(next)
    <3> HIDE DEF next
    <3> QED BY <1>0, <2>1, <2>2 DEF StageFits
  <2> QED BY <1>1, <2>3, ReadOnlyKeepsRepair DEF Cartograph, r
<1>2. CASE RefuseTypedRepairEdits(p)
  BY <1>2, FailKeepsRepair DEF RefuseTypedRepairEdits
<1>3. ASSUME NEW after \in Workspace, r.stage = "execution", StrayShows(after),
             Become(p, [r EXCEPT !.stage = "edits", !.tree = after])
      PROVE  RepairInv'
  <2> DEFINE next == [r EXCEPT !.stage = "edits", !.tree = after]
  <2>1. DOMAIN r = Fields
    BY <1>0, <1>3 DEF StageFits
  <2>2. /\ DOMAIN next = Fields /\ next.stage = "edits" /\ next.tree = after
        /\ next.before = r.before /\ next.tested = r.tested /\ next.baseline = r.baseline
    BY <1>3, <2>1 DEF Fields
  <2>3. StageFits(next)
    <3> HIDE DEF next
    <3> QED BY <1>0, <1>3, <2>2 DEF StageFits
  <2> QED BY <1>3, <2>3, BecomeKeepsRepair
<1>6. ASSUME NEW after \in Workspace, r.stage \in {"execution", "edits"}, StrayShows(after),
             NEW events,
             Become(p, [r EXCEPT !.stage = "report", !.tree = after, !.events = events])
      PROVE  RepairInv'
  <2> DEFINE next == [r EXCEPT !.stage = "report", !.tree = after, !.events = events]
  <2>1. DOMAIN r = Fields
    BY <1>0, <1>6 DEF StageFits
  <2>2. /\ DOMAIN next = Fields /\ next.stage = "report" /\ next.tree = after
        /\ next.before = r.before /\ next.tested = r.tested /\ next.baseline = r.baseline
    BY <1>6, <2>1 DEF Fields
  <2>3. StageFits(next)
    <3> HIDE DEF next
    <3> QED BY <1>0, <1>6, <2>2 DEF StageFits
  <2> QED BY <1>6, <2>3, BecomeKeepsRepair
<1>4. ASSUME NEW src \in Sources, NEW test \in Tests, ApplyTypedRepairEdits(p, src, test)
      PROVE  RepairInv'
  <2> DEFINE one == Written(r.tree, "src", src)
             after == Written(one, "test", test)
  <2>1. r.stage = "edits" /\ r.tree \in Workspace /\ StrayShows(r.tree)
    BY <1>0, <1>4 DEF ApplyTypedRepairEdits, At, StageFits, r
  <2>2. one \in Workspace /\ one["stray"] = r.tree["stray"]
    BY <2>1, PlannedWriteFacts DEF Planned
  <2>3. after \in Workspace /\ after["stray"] = one["stray"]
    <3> HIDE DEF one
    <3> QED BY <2>2, PlannedWriteFacts DEF Planned
  <2>4. StrayShows(after)
    BY <2>1, <2>2, <2>3 DEF StrayShows
  <2>5. \/ Fail(p, "REPAIR_INVALID")
        \/ Become(p, [r EXCEPT !.stage = "report", !.tree = after, !.events = Planned])
    BY <1>4 DEF ApplyTypedRepairEdits, r
  <2> QED
    <3> HIDE DEF after
    <3> QED BY <1>6, <2>1, <2>3, <2>4, <2>5, FailKeepsRepair
<1>5. CASE ExecutionTurn(p)
  <2>1. r.stage = "execution" /\ r.tree \in Workspace
        /\ r.tree["stray"] = FreshWorkspace["stray"]
    BY <1>0, <1>5 DEF ExecutionTurn, At, StageFits, r, Confined
  <2>2. ASSUME NEW src \in Sources \cup {"kept"}, NEW test \in Tests \cup {"kept"},
               NEW one, one = (IF src = "kept" THEN r.tree ELSE Written(r.tree, "src", src)),
               NEW both, both = (IF test = "kept" THEN one ELSE Written(one, "test", test)),
               NEW after \in {both} \cup Strayed(both)
        PROVE  after \in Workspace /\ StrayShows(after)
    <3>1. one \in Workspace /\ one["stray"] = r.tree["stray"]
      BY <2>1, <2>2, PlannedWriteFacts DEF Planned
    <3>2. both \in Workspace /\ both["stray"] = r.tree["stray"]
      BY <3>1, <2>2, PlannedWriteFacts DEF Planned
    <3> QED BY <2>1, <2>2, <3>2, StrayedFacts DEF StrayShows
  <2>3. CASE Fail(p, "REPAIR_INVALID")
    BY <2>3, FailKeepsRepair
  <2>4. CASE \E after \in Workspace : StrayShows(after) /\
               \/ Fail(p, "REPAIR_INVALID")
               \/ Become(p, [r EXCEPT !.stage = "edits", !.tree = after])
               \/ \E reported \in {ContentModified(r.before, after), {"test"}} :
                    Become(p, [r EXCEPT !.stage = "report", !.tree = after,
                                        !.events = reported])
    <3>1. PICK after \in Workspace : StrayShows(after) /\
               \/ Fail(p, "REPAIR_INVALID")
               \/ Become(p, [r EXCEPT !.stage = "edits", !.tree = after])
               \/ \E reported \in {ContentModified(r.before, after), {"test"}} :
                    Become(p, [r EXCEPT !.stage = "report", !.tree = after,
                                        !.events = reported])
      BY <2>4
    <3> QED BY <1>3, <1>6, <2>1, <3>1, FailKeepsRepair
  <2> QED BY <1>5, <2>2, <2>3, <2>4 DEF ExecutionTurn, r
<1> QED BY <1>1, <1>2, <1>4, <1>5
\* What the report demands leaves the rest of the workspace as it was.
LEMMA ObservedIsConfined ==
  ASSUME NEW r, r.tree \in Workspace, r.before \in Workspace, Confined(r.before),
         StrayShows(r.tree), RepairIsObserved(r)
  PROVE  Confined(r.tree) /\ r.tree["test"].is = "seeded"
<1>1. /\ r.before["other"].is = "kept" /\ r.before["stray"].is = "absent"
      /\ {"other", "stray"} \subseteq Paths
  BY DEF Confined, FreshWorkspace, Entry, Paths
<1>2. /\ Added(r.before, r.tree) = {} /\ Deleted(r.before, r.tree) = {}
      /\ "other" \notin Modified(r.before, r.tree)
      /\ r.tree["test"].is = "seeded"
  BY DEF RepairIsObserved, Planned
<1>3. "other" \in Present(r.before) \cap Present(r.tree)
  BY <1>1, <1>2 DEF Present, Deleted
<1>4. r.tree["other"] = r.before["other"]
  BY <1>2, <1>3 DEF Modified
<1>5. r.tree["stray"].is # "present"
  BY <1>1, <1>2 DEF Added, Present
<1> QED BY <1>2, <1>4, <1>5 DEF Confined, StrayShows

LEMMA ReportKeepsRepair ==
  ASSUME RepairInv, NEW p \in Process, ReportTurn(p)
  PROVE  RepairInv'
<1> DEFINE r == repair[p]
           next == [r EXCEPT !.stage = "fixture-typecheck",
                             !.observed = [attempt |-> r.attempt, patch |-> Patch(r.tree)]]
<1>1. StageFits(r) /\ r.stage = "report"
  BY DEF RepairInv, ReportTurn, At
<1>2. CASE RepairIsObserved(r)
  <2>1. /\ DOMAIN next = Fields /\ next.stage = "fixture-typecheck" /\ next.tree = r.tree
        /\ next.before = r.before /\ next.tested = r.tested /\ next.baseline = r.baseline
        /\ next.observed.patch = Patch(r.tree)
    BY <1>1 DEF StageFits, Fields
  <2>2. Confined(r.tree) /\ r.tree["test"].is = "seeded"
    BY <1>1, <1>2, ObservedIsConfined DEF StageFits
  <2>3. StageFits(next)
    <3> HIDE DEF next
    <3> QED BY <1>1, <2>1, <2>2 DEF StageFits
  <2> QED BY <1>2, <2>3, ReadOnlyKeepsRepair DEF ReportTurn
<1>3. CASE ~RepairIsObserved(r)
  BY <1>3, FailKeepsRepair DEF ReportTurn
<1> QED BY <1>2, <1>3

LEMMA TypecheckKeepsRepair ==
  ASSUME RepairInv, NEW p \in Process, Typecheck(p)
  PROVE  RepairInv'
<1> DEFINE r == repair[p]
           built == Written(r.tree, "dist", r.tree["src"].is)
<1>1. StageFits(r) /\ r.stage = "fixture-typecheck"
  BY DEF RepairInv, Typecheck, At
<1>2. PICK after \in {r.tree, built}, ok \in BOOLEAN :
        /\ ok => after = built
        /\ Become(p, [r EXCEPT !.stage = "fixture-test", !.tree = after,
                               !.tested = after, !.passed = ok])
  BY DEF Typecheck
<1> DEFINE next == [r EXCEPT !.stage = "fixture-test", !.tree = after,
                             !.tested = after, !.passed = ok]
<1>3. r.tree \in Workspace /\ r.tree["src"].is \in AllContents /\ "dist" \in Paths
  BY <1>1 DEF StageFits, Workspace, Paths
<1>4. built \in Workspace /\ built["dist"].is = r.tree["src"].is
      /\ \A q \in Paths \ {"dist"} : built[q] = r.tree[q]
  BY <1>3, WrittenFacts
<1>5. /\ after \in Workspace /\ Confined(after) /\ after["test"].is = "seeded"
      /\ Patch(after) = Patch(r.tree) /\ Built(built)
  <2> HIDE DEF built
  <2>1. \A q \in {"src", "test", "other", "stray"} : after[q] = r.tree[q]
    BY <1>2, <1>4 DEF Paths
  <2>2. Patch(after) = Patch(r.tree)
    BY <2>1 DEF Patch, Planned
  <2>3. Built(built)
    BY <1>3, <1>4 DEF Built, Paths
  <2> QED BY <1>1, <1>2, <1>3, <1>4, <2>1, <2>2, <2>3 DEF StageFits, Confined
<1>6. /\ DOMAIN next = Fields /\ next.stage = "fixture-test" /\ next.tree = after
      /\ next.before = r.before /\ next.tested = after /\ next.baseline = r.baseline
      /\ next.observed = r.observed /\ next.passed = ok
  BY <1>1 DEF StageFits, Fields
<1>7. StageFits(next)
  <2> HIDE DEF next, built
  <2>1. next.passed => Built(next.tested)
    BY <1>2, <1>5, <1>6
  <2>2. Reported(next)
    BY <1>1, <1>5, <1>6 DEF StageFits, Reported
  <2> QED BY <1>1, <1>5, <1>6, <2>1, <2>2 DEF StageFits
<1> QED BY <1>2, <1>7, BecomeKeepsRepair

LEMMA TestKeepsRepair ==
  ASSUME RepairInv, NEW p \in Process, Test(p)
  PROVE  RepairInv'
<1> DEFINE r == repair[p]
           next == [r EXCEPT !.stage = "corpus"]
<1>1. StageFits(r) /\ r.stage = "fixture-test"
  BY DEF RepairInv, Test, At
<1>2. CASE r.passed /\ Become(p, next)
  <2>1. /\ DOMAIN next = Fields /\ next.stage = "corpus" /\ next.tree = r.tree
        /\ next.before = r.before /\ next.tested = r.tested /\ next.baseline = r.baseline
        /\ next.observed = r.observed
    BY <1>1 DEF StageFits, Fields
  <2>2. StageFits(next)
    <3> HIDE DEF next
    <3> QED BY <1>1, <1>2, <2>1 DEF StageFits, Reported
  <2> QED BY <1>2, <2>2, BecomeKeepsRepair
<1>3. CASE SameTree(r.tested, r.tree) /\ NextAttempt(p, "COMMAND_FAILED")
  BY <1>1, <1>3, NextAttemptKeepsRepair DEF SameTree
<1> QED BY <1>2, <1>3, FailKeepsRepair DEF Test, CommandsPassed

LEMMA CorpusKeepsRepair ==
  ASSUME RepairInv, NEW p \in Process, VerifyCorpus(p)
  PROVE  RepairInv'
<1> DEFINE r == repair[p]
           next == [r EXCEPT !.stage = "review"]
<1>1. StageFits(r) /\ r.stage = "corpus"
  BY DEF RepairInv, VerifyCorpus, At
<1>2. CASE r.tree["dist"].is = "right" /\ SameTree(r.tested, r.tree) /\ Become(p, next)
  <2>1. /\ DOMAIN next = Fields /\ next.stage = "review" /\ next.tree = r.tree
        /\ next.before = r.before /\ next.tested = r.tested /\ next.baseline = r.baseline
        /\ next.observed = r.observed
    BY <1>1 DEF StageFits, Fields
  <2>2. StageFits(next)
    <3> HIDE DEF next
    <3> QED BY <1>1, <1>2, <2>1 DEF StageFits, Reported, SameTree
  <2> QED BY <1>2, <2>2, BecomeKeepsRepair
<1>3. CASE SameTree(r.tested, r.tree) /\ NextAttempt(p, "POLICY_VERIFICATION_FAILED")
  BY <1>1, <1>3, NextAttemptKeepsRepair DEF SameTree
<1> QED BY <1>2, <1>3, FailKeepsRepair DEF VerifyCorpus

LEMMA StrayWriteKeepsRepair ==
  ASSUME RepairInv, NEW p \in Process, StrayWrite(p)
  PROVE  RepairInv'
<1> DEFINE r == repair[p]
<1>1. StageFits(r) /\ r.stage \in {"fixture-test", "corpus"}
  BY DEF RepairInv, StrayWrite
<1>2. PICK t \in Meddled(r.tree) : Become(p, [r EXCEPT !.tree = t])
  BY DEF StrayWrite
<1> DEFINE next == [r EXCEPT !.tree = t]
<1>3. t \in Workspace
  BY <1>1, <1>2, MeddledIsWorkspace DEF StageFits
<1>4. /\ DOMAIN next = Fields /\ next.stage = r.stage /\ next.tree = t
      /\ next.before = r.before /\ next.tested = r.tested /\ next.baseline = r.baseline
      /\ next.observed = r.observed /\ next.passed = r.passed
  BY <1>1 DEF StageFits, Fields
<1>5. StageFits(next)
  <2> HIDE DEF next
  <2> QED BY <1>1, <1>3, <1>4 DEF StageFits, Reported
<1> QED BY <1>2, <1>5, BecomeKeepsRepair

LEMMA ReviewKeepsRepair ==
  ASSUME RepairInv, NEW p \in Process, Review(p)
  PROVE  RepairInv'
<1> DEFINE r == repair[p]
           pass == [stage |-> "passed", tree |-> r.tree, patch |-> r.observed.patch]
<1>1. StageFits(r) /\ r.stage = "review"
  BY DEF RepairInv, Review, At
<1>2. StageFits(pass)
  BY <1>1 DEF StageFits, Reported, Built
<1> QED BY <1>2, ReadOnlyKeepsRepair, FailKeepsRepair DEF Review

\* What does not belong to the repair leaves it alone, begins it or forgets it.
LEMMA StepKeepsRepair ==
  ASSUME RepairInv, [Next]_vars
  PROVE  RepairInv'
<1>1. ASSUME UNCHANGED repair
      PROVE  RepairInv'
  BY <1>1 DEF RepairInv
<1>2. ASSUME NEW p \in Process, repair' = [repair EXCEPT ![p] = None]
      PROVE  RepairInv'
  BY <1>2 DEF RepairInv, StageFits, None
<1>3. ASSUME NEW p \in Process, repair' = [repair EXCEPT ![p] = Orchestrating]
      PROVE  RepairInv'
  <2>1. StageFits(Orchestrating)
    BY WorkspaceFacts DEF StageFits, Orchestrating, Fields
  <2> QED BY <1>3, <2>1 DEF RepairInv
<1>4. ASSUME NEW p \in Process, OrchestrationStep(p) \/ StrayWrite(p)
      PROVE  RepairInv'
  BY <1>4, TurnKeepsRepair, ReportKeepsRepair, TypecheckKeepsRepair, TestKeepsRepair,
     CorpusKeepsRepair, StrayWriteKeepsRepair, ReviewKeepsRepair DEF OrchestrationStep
<1>5. ASSUME NEW p \in Process, SectionStep(p)
      PROVE  RepairInv'
  BY <1>1, <1>2, <1>3, <1>4, <1>5
     DEF SectionStep, CheckOrBuildFails, Recover, Prepare, Orchestrate, CommandLeftovers,
         Conclude, SetAside, Promote, Validate, BeginDiscard, EndDiscard, RollBack, Restore,
         CleanUp, Leave
<1>6. CASE LockMoves \/ UNCHANGED vars
  BY <1>1, <1>6 DEF LockMoves, vars
<1>7. ASSUME NEW p \in Process, Dies(p)
      PROVE  RepairInv'
  BY <1>2, <1>7 DEF Dies
<1> QED BY <1>5, <1>6, <1>7 DEF Next

-----------------------------------------------------------------------------
(* The theorems                                                            *)

\* Whatever a step is for the evidence and the repair, for the lock it is one
\* of its own steps or none.
LEMMA StepOfLock ==
  ASSUME [Next]_vars
  PROVE  LockAction \/ UNCHANGED lockVars
<1>1. ASSUME NEW p \in Process, SectionStep(p)
      PROVE  EndSection(p) \/ UNCHANGED lockVars
  BY <1>1 DEF SectionStep, CheckOrBuildFails, Recover, Prepare, Orchestrate, CommandLeftovers,
     Conclude, SetAside, Promote, Validate, BeginDiscard, EndDiscard, RollBack, Restore,
     CleanUp, Leave, InSection, EndSection
<1> QED BY <1>1 DEF Next, LockMoves, Dies, LockAction, vars

THEOREM ChallengeInvariant == Spec => []IInv
<1>1. Init => IInv
  <2> SUFFICES ASSUME Init
               PROVE  IInv
    OBVIOUS
  <2>1. LockInv
    BY DEF Init, LockInit, LockInv, LockTypeOK, Free, OwnerFits, DeskFits, ChildrenFit,
           Unpublished, Published
  <2>2. EvidenceInv
    BY FS_EmptySet
       DEF Init, LockInit, EvidenceInv, SectionFits, SectionState, Place, Outside, Holds, In,
           InPlace, NoEvidence
  <2>3. RepairInv
    BY DEF Init, RepairInv, StageFits, None
  <2> QED BY <2>1, <2>2, <2>3 DEF IInv
<1>2. IInv /\ [Next]_vars => IInv'
  BY StepOfLock, LockActionKeepsLock, StepKeepsEvidence, StepKeepsRepair DEF IInv
<1> QED BY <1>1, <1>2, PTL DEF Spec

\* One process at a time works under the run lock, and only when no child of a
\* dead run is left (local-challenge-lock.mjs), however processes and operators
\* interleave, die and start again.
THEOREM OneProcessInSection == Spec => []SectionHasOneProcess
<1>1. IInv => SectionHasOneProcess
  BY PublishedExcludes DEF IInv, SectionHasOneProcess, Holds, Published
<1> QED BY <1>1, ChallengeInvariant, PTL

\* No failure and no death between two steps loses the evidence that was
\* validated last (local-challenge.mjs, promotion and recovery).
THEOREM LatestEvidenceSurvives == Spec => []EvidenceSurvives
<1>1. IInv => EvidenceSurvives
  BY DEF IInv, EvidenceInv, SectionFits, EvidenceSurvives, In, InPlace, InBackup, Kept
<1> QED BY <1>1, ChallengeInvariant, PTL

\* A repair passes only with a workspace that decides as the policy does and in
\* which nothing else has changed (orchestrate.ts), for any number of attempts.
THEOREM PassesAreEarned == Spec => []PassIsEarned
<1>1. IInv => PassIsEarned
  BY DEF IInv, RepairInv, StageFits, PassIsEarned, Confined, Built
<1> QED BY <1>1, ChallengeInvariant, PTL

=============================================================================
