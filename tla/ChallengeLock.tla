----------------------------- MODULE ChallengeLock -----------------------------
(***************************************************************************)
(* The run lock of the local challenge (scripts/local-challenge-lock.mjs): *)
(* a directory "active" that holds the record of its owner and that is     *)
(* only ever renamed, into place by its owner and out of place by its      *)
(* owner or by an operator who has reviewed a crash.  A retired lock stays *)
(* under its nonce for good.                                               *)
(*                                                                         *)
(* A process is known by its pid; one that starts again takes the same pid *)
(* so that the record of a dead owner may name a living process.           *)
(***************************************************************************)
EXTENDS Naturals, FiniteSets

CONSTANTS Process, Operator,
          MaxStarts,     \* bound: starts of processes
          Descendants    \* whether a crash may leave child processes behind

VARIABLES active,        \* the directory "active": its owner record, or Free
          tombstones,    \* nonces under which a directory "retired-" exists
          lockAt,        \* where each process is in taking or releasing it
          own,           \* the nonce of the lock each process has created
          tries,         \* attempts of acquireLocalChallengeRunLock
          left,          \* pids whose child processes outlived them
          desk,          \* what each operator has observed
          nonces         \* nonces drawn so far

lockVars == <<active, tombstones, lockAt, own, tries, left, desk, nonces>>

Free == [owner |-> "none", nonce |-> 0]
Alive(p) == lockAt[p] # "off"
Owner(p) == [owner |-> p, nonce |-> own[p]]
Holds(p) == lockAt[p] = "held"

LockInit ==
  /\ active = Free /\ tombstones = {} /\ left = {} /\ nonces = 0
  /\ lockAt = [p \in Process |-> "off"]
  /\ own    = [p \in Process |-> 0]
  /\ tries  = [p \in Process |-> 0]
  /\ desk   = [o \in Operator |-> Free]

Enter(p, where) == lockAt' = [lockAt EXCEPT ![p] = where]
Quit(p) ==
  /\ Enter(p, "off")
  /\ own' = [own EXCEPT ![p] = 0] /\ tries' = [tries EXCEPT ![p] = 0]

StartProcess(p) ==
  /\ ~Alive(p) /\ nonces < MaxStarts
  /\ Enter(p, "probe") /\ nonces' = nonces + 1
  /\ own' = [own EXCEPT ![p] = nonces + 1]
  /\ UNCHANGED <<active, tombstones, tries, left, desk>>

\* acquireLocalChallengeRunLock: a lock that is there ends the process, alive
\* or not; otherwise it creates a candidate.
Probe(p) ==
  /\ lockAt[p] = "probe"
  /\ \/ active # Free /\ Quit(p)
     \/ active = Free /\ Enter(p, "publish") /\ UNCHANGED <<own, tries>>
  /\ UNCHANGED <<active, tombstones, left, desk, nonces>>

\* A rename onto a directory that is not empty fails.
Publishable == active = Free
Publish(p) ==
  /\ lockAt[p] = "publish"
  /\ IF Publishable
       THEN active' = Owner(p) /\ Enter(p, "confirm")
     ELSE UNCHANGED active /\ Enter(p, "unpublished")
  /\ UNCHANGED <<tombstones, own, tries, left, desk, nonces>>
\* The candidate is gone: try again while a lock is there, three times.
Retry(p) ==
  /\ lockAt[p] = "unpublished"
  /\ IF active # Free /\ tries[p] < 2
       THEN Enter(p, "probe") /\ tries' = [tries EXCEPT ![p] = @ + 1]
                              /\ UNCHANGED own
     ELSE Quit(p)
  /\ UNCHANGED <<active, tombstones, left, desk, nonces>>
Confirm(p) ==
  /\ lockAt[p] = "confirm"
  /\ IF active = Owner(p) THEN Enter(p, "held") /\ UNCHANGED <<own, tries>>
     ELSE Quit(p)
  /\ UNCHANGED <<active, tombstones, left, desk, nonces>>

RetiredWithoutTrace(n) == tombstones                              \* mutant
\* The directory keeps its nonce as its name.
Retired(n) == tombstones \cup {n}

\* releaseLocalChallengeRunLock, once the operation has ended.
ObserveOwn(p) ==
  /\ lockAt[p] = "release"
  /\ IF active = Owner(p) /\ own[p] \notin tombstones
       THEN Enter(p, "retire") /\ UNCHANGED <<own, tries>>
     ELSE Quit(p)
  /\ UNCHANGED <<active, tombstones, left, desk, nonces>>
Release(p) ==
  /\ lockAt[p] = "retire"
  /\ active' = Free /\ tombstones' = Retired(own[p]) /\ Quit(p)
  /\ UNCHANGED <<left, desk, nonces>>

\* The process dies; a turn or a command it was running may go on.
Crash(p) ==
  /\ Alive(p) /\ Quit(p)
  /\ left' \in {left} \cup
       (IF Descendants /\ Holds(p) THEN {left \cup {p}} ELSE {})
  /\ UNCHANGED <<active, tombstones, desk, nonces>>
DescendantsEnd ==
  /\ left # {} /\ left' = {}
  /\ UNCHANGED <<active, tombstones, lockAt, own, tries, desk, nonces>>

\* retireLocalChallengeRunLockAfterOperatorReview: the operator has confirmed
\* that no child process is left; the owner must be dead.
Observe(o) ==
  /\ desk[o] = Free /\ active # Free
  /\ ~Alive(active.owner) /\ active.owner \notin left
  /\ active.nonce \notin tombstones
  /\ desk' = [desk EXCEPT ![o] = active]
  /\ UNCHANGED <<active, tombstones, lockAt, own, tries, left, nonces>>
\* The rename takes whatever lock is there now; it fails when the nonce that
\* was observed has been retired meanwhile.
Retire(o) ==
  /\ desk[o] # Free /\ desk' = [desk EXCEPT ![o] = Free]
  /\ IF active # Free /\ desk[o].nonce \notin tombstones
       THEN active' = Free /\ tombstones' = Retired(desk[o].nonce)
     ELSE UNCHANGED <<active, tombstones>>
  /\ UNCHANGED <<lockAt, own, tries, left, nonces>>

LockStep(p) == Probe(p) \/ Publish(p) \/ Retry(p) \/ Confirm(p)
                 \/ ObserveOwn(p) \/ Release(p)
=============================================================================
