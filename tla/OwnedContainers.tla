--------------------------- MODULE OwnedContainers ---------------------------
(***************************************************************************)
(* The private Docker owner of a live run                                  *)
(* (src/src/codex/live-linux-docker-owned-container.ts) together with what *)
(* the Docker daemon really holds.  The owner talks to the daemon through  *)
(* a CLI that may be killed: a command whose answer was lost may or may    *)
(* not have been applied, and a creation may be applied after the CLI died.*)
(*                                                                         *)
(* Each operation is given twice: by what it does when it returns, and by  *)
(* everything it may have left behind when it throws.  The caller, module  *)
(* DedicatedLifecycle, decides which of the two happens.                   *)
(***************************************************************************)
EXTENDS Naturals, Sequences, SequencesExt

VARIABLES
  box,    \* what the daemon holds: the state of every container and network
  late,   \* creations whose CLI was killed and that the daemon may still apply
  owner   \* DockerOwnerState: what is known, unresolved and removed, and containersCreated

dockerVars == <<box, late, owner>>

RoleOrder == <<"egress", "worker", "verifier">>
Roles == ToSet(RoleOrder)
NetworkOrder == <<"worker-network", "outbound-network">>
Networks == ToSet(NetworkOrder)
Resources == Roles \cup Networks

CreationOrder == NetworkOrder \o RoleOrder

\* A container is "absent", "created", running, "exited" or "failed".  "starting", "held" and "executing" are the
\* stages of the process it runs (module StartBarrier).
RunningStates == {"starting", "held", "executing"}

Running(r) == box[r] \in RunningStates

OwnerInit ==
  /\ box = [x \in Resources |-> "absent"]
  /\ late = {}
  /\ owner = [known |-> {}, unresolved |-> {}, removed |-> {}, created |-> FALSE]

(***************************************************************************)
(* Creation                                                                *)
(***************************************************************************)
CreateAll ==
  /\ ~owner.created
  /\ box' = [x \in Resources |-> "created"]
  /\ owner' = [owner EXCEPT !.known = Resources, !.created = TRUE]
  /\ UNCHANGED late

\* Nothing was being created when the operation failed: the name check, the
\* role plans, or the connections and first observations.
StopsBetweenCreations(k) ==
  LET made == ToSet(SubSeq(CreationOrder, 1, k)) IN
  /\ k \in {0, Len(NetworkOrder), Len(CreationOrder)}
  /\ box' = [x \in Resources |-> IF x \in made THEN "created" ELSE box[x]]
  /\ owner' = [owner EXCEPT !.known = made]
  /\ UNCHANGED late

\* One creation failed.  Its recovery either finds the resource by name and
\* removes it, or is inconclusive and leaves the resource unresolved: present,
\* absent, or not yet there.
StopsInCreation(k) ==
  LET made == ToSet(SubSeq(CreationOrder, 1, k))
      x == CreationOrder[k + 1]
  IN \/ /\ box' = [y \in Resources |-> IF y \in made THEN "created" ELSE box[y]]
        /\ owner' = [owner EXCEPT !.known = made \cup {x}, !.removed = {x}]
        /\ UNCHANGED late
     \/ /\ \E there \in {"absent", "created"} :
             /\ box' = [y \in Resources |-> IF y \in made THEN "created"
                                            ELSE IF y = x THEN there ELSE box[y]]
             /\ late' \in IF there = "absent" THEN {{}, {x}} ELSE {{}}
        /\ owner' = [owner EXCEPT !.known = made, !.unresolved = {x}]

CreateFails ==
  \/ \E k \in 0..Len(CreationOrder) : StopsBetweenCreations(k)
  \/ \E k \in 0..(Len(CreationOrder) - 1) : StopsInCreation(k)

\* The daemon applies a creation whose CLI has gone.
DaemonCreates(x) ==
  /\ x \in late
  /\ box' = [box EXCEPT ![x] = "created"]
  /\ late' = late \ {x}
  /\ UNCHANGED owner

(***************************************************************************)
(* Start and stop of one role                                              *)
(***************************************************************************)
StartHeld(r) ==
  /\ owner.created /\ r \in owner.known \ owner.removed
  /\ box[r] = "created"
  /\ box' = [box EXCEPT ![r] = "starting"]
  /\ UNCHANGED <<late, owner>>

StartFails(r) == UNCHANGED dockerVars \/ StartHeld(r)

StopRole(r) ==
  /\ box' = [box EXCEPT ![r] = IF Running(r) THEN "failed" ELSE @]
  /\ UNCHANGED <<late, owner>>

(***************************************************************************)
(* Removal                                                                 *)
(***************************************************************************)
\* Mutant: an unresolved creation that is not found by its name counts as removed.
RemovableIfNotFound(x) ==
  \/ x \in owner.removed \cup owner.unresolved
  \/ x \in owner.known => box[x] # "absent"

\* A removal can be confirmed.  An unresolved creation must be found by its
\* name: not finding it proves nothing, because the daemon may be late.  A known
\* resource must still be there, for "rm" of a missing one fails.
Removable(x) ==
  \/ x \in owner.removed
  \/ IF x \in owner.unresolved
       THEN box[x] # "absent"
       ELSE x \in owner.known => box[x] # "absent"

\* The resources of the list up to k are removed and seen to be absent; the
\* next one may have been removed by the daemon without that being seen.
RemoveUpTo(order, k) ==
  LET gone == ToSet(SubSeq(order, 1, k)) IN
  /\ \A x \in gone : Removable(x)
  /\ \E unseen \in {{}} \cup (IF k < Len(order) THEN {{order[k + 1]}} ELSE {}) :
       box' = [x \in Resources |-> IF x \in gone \cup unseen THEN "absent" ELSE box[x]]
  /\ owner' = [owner EXCEPT !.removed = @ \cup gone, !.unresolved = @ \ gone]
  /\ UNCHANGED late

RemoveRole(r) == RemoveUpTo(<<r>>, 1)
RemoveRoleFails(r) == \E k \in 0..1 : RemoveUpTo(<<r>>, k)

AllRolesRemoved == Roles \subseteq owner.removed

\* Networks go in the reverse order of their creation, and only when every role
\* has been seen to be absent.
NetworkRemovalOrder == Reverse(NetworkOrder)
RemoveNetworks == AllRolesRemoved /\ RemoveUpTo(NetworkRemovalOrder, Len(NetworkRemovalOrder))
RemoveNetworksFails ==
  \/ UNCHANGED dockerVars
  \/ AllRolesRemoved /\ \E k \in 0..Len(NetworkRemovalOrder) : RemoveUpTo(NetworkRemovalOrder, k)

=============================================================================
