---------------------------- MODULE StartBarrier ----------------------------
(***************************************************************************)
(* The start barrier: the process a role's container runs first            *)
(* (src/scripts/role-start-barrier.mjs), which commits a held receipt and  *)
(* waits for a release frame before it executes the role, and the host's   *)
(* controller of it (src/src/codex/linux-start-barrier.ts).  They share two*)
(* directories of files and nothing else.                                  *)
(***************************************************************************)
EXTENDS OwnedContainers

VARIABLES
  frames,  \* the files: held receipts committed, release frames published
  barrier  \* the controller: the status of each prepared role, destroyed or not

barrierVars == <<frames, barrier>>

\* The states of a role at the controller: "PREPARED", "HELD", "RELEASED", "FAILED".

BarrierInit ==
  /\ frames = [held |-> {}, release |-> {}]
  /\ barrier = [status |-> [r \in Roles |-> "PREPARED"], destroyed |-> FALSE]

(***************************************************************************)
(* In the container                                                        *)
(***************************************************************************)
RoleReportsHeld(r) ==
  /\ box[r] = "starting"
  /\ box' = [box EXCEPT ![r] = "held"]
  /\ frames' = [frames EXCEPT !.held = @ \cup {r}]
  /\ UNCHANGED <<late, owner, barrier>>

RoleExecutes(r) ==
  /\ box[r] = "held" /\ r \in frames.release
  /\ box' = [box EXCEPT ![r] = "executing"]
  /\ UNCHANGED <<late, owner, barrierVars>>

RoleExits(r) ==
  /\ box[r] = "executing"
  /\ box' = [box EXCEPT ![r] = "exited"]
  /\ UNCHANGED <<late, owner, barrierVars>>

\* The hold timeout, an unsafe slot or a bad frame, on which the barrier fails
\* closed; or a role that exits unsuccessfully.
RoleFails(r) ==
  /\ Running(r)
  /\ box' = [box EXCEPT ![r] = "failed"]
  /\ UNCHANGED <<late, owner, barrierVars>>

(***************************************************************************)
(* On the host                                                             *)
(***************************************************************************)
\* The held receipt can be observed once; a time-out or a bad receipt is final.
AwaitHeld(r) ==
  /\ ~barrier.destroyed
  /\ barrier.status[r] = "PREPARED" /\ r \in frames.held
  /\ barrier' = [barrier EXCEPT !.status[r] = "HELD"]
  /\ UNCHANGED frames

AwaitHeldFails(r) ==
  \/ UNCHANGED barrierVars
  \/ /\ ~barrier.destroyed /\ barrier.status[r] = "PREPARED"
     /\ barrier' = [barrier EXCEPT !.status[r] = "FAILED"]
     /\ UNCHANGED frames
  \/ AwaitHeld(r)

\* The frame is renamed into place complete or not at all.
ReleaseBarrier(r) ==
  /\ ~barrier.destroyed /\ barrier.status[r] = "HELD"
  /\ barrier' = [barrier EXCEPT !.status[r] = "RELEASED"]
  /\ frames' = [frames EXCEPT !.release = @ \cup {r}]

ReleaseBarrierFails(r) ==
  \/ UNCHANGED barrierVars
  \/ /\ ~barrier.destroyed /\ barrier.status[r] = "HELD"
     /\ barrier' = [barrier EXCEPT !.status[r] = "FAILED"]
     /\ UNCHANGED frames

DestroyBarrier ==
  /\ ~barrier.destroyed
  /\ barrier' = [barrier EXCEPT !.destroyed = TRUE]
  /\ UNCHANGED frames

DestroyBarrierFails == UNCHANGED barrierVars \/ DestroyBarrier
=============================================================================
