------------------------ MODULE WorkerSupervisorProofs ------------------------
(***************************************************************************)
(* Proofs about the two halves of the worker supervisor, which share no    *)
(* state: WorkerRpc, for any number of calls, supervisors, clock readings  *)
(* and replay rows, and WorkerLifecycle, for any budget and any number of  *)
(* runs and failures.                                                      *)
(*                                                                         *)
(* At most one execution per capability rests on the rows: the row of an   *)
(* admitted request stays until some supervisor reads a time that is not   *)
(* before its expiry, and the clock does not move back.  A second request  *)
(* is therefore consumed only when the first has expired, and whichever of *)
(* the two starts late finds its own window checked again.                 *)
(*                                                                         *)
(* A lifecycle that may be used again has a clean driver because the       *)
(* driver knows what it cannot tell: whatever is there or may still come is*)
(* owned or ambiguous (HandleKnows), an ambiguous resource disproves the   *)
(* cleanup, and what the cleanup has removed no late command can bring     *)
(* back (Settled).  CleanupFits collects that step by step; RunFits does   *)
(* the same for the run, whose last step has the proof of all three roles. *)
(***************************************************************************)
EXTENDS WorkerRpc, WorkerLifecycle, TLAPS

(***************************************************************************)
(* The RPC supervisor                                                      *)
(***************************************************************************)
Fresh == {"NONE", "READING", "CONSUMING", "CONSUMED"}
Started == {"EXECUTING", "ABORTING", "SIGNING"}
Admitted(c) == handler[c] = "CONSUMED" \/ Executed(c)

\* What a finished execution that may be signed, or was, looks like.
InTime(c) ==
  /\ Executed(c) /\ executor[c] \in {"PASS", "FAIL"}
  /\ startedAt[c] <= stamp[c]
  /\ request[c].issued <= stamp[c] /\ stamp[c] <= Expiry(c)

\* The two ends of a call, and what its handler has read and started.
CallFits(c) ==
  /\ (handler[c] = "NONE" <=> caller[c] = "UNUSED")
  /\ handler[c] = "NONE" => server[c] = None
  /\ handler[c] # "NONE" => (request[c] \in Request /\ server[c] \in Supervisor)
  /\ handler[c] \in Fresh => (~Executed(c) /\ executor[c] = "NONE")
  /\ executor[c] = "NONE" <=> ~Executed(c)
  /\ handler[c] \in Started => Executed(c)
  /\ executor[c] = "RUNNING" => handler[c] \in {"EXECUTING", "ABORTING"}
  /\ Executed(c) => (startedAt[c] <= now /\ startedAt[c] <= Expiry(c))
  /\ handler[c] = "CONSUMING" => (stamp[c] \in Time /\ stamp[c] <= now)
  /\ handler[c] = "SIGNING" => (stamp[c] \in Time /\ InTime(c))
  /\ answered[c] => (handler[c] = "ENDED" /\ stamp[c] \in Time /\ InTime(c))
  /\ caller[c] = "ACCEPTED" => (answered[c] /\ executor[c] = "PASS")

CallsFit == \A c \in Call : CallFits(c)

\* The row of an admitted request is stored until the request expires.
RowsCoverAdmissions ==
  \A c \in Call : Admitted(c) => (RowOf(c) \in rows \/ Expiry(c) <= now)

\* Of two admitted requests that share an identifier one has expired.
AdmissionsExclude ==
  \A c, d \in Call :
    (c # d /\ Admitted(c) /\ Admitted(d) /\ SameCapability(c, d)) =>
      Expiry(c) <= now \/ Expiry(d) <= now

IInv ==
  /\ RpcTypeOK
  /\ CallsFit
  /\ SlotHasOneOwner
  /\ ClosedIsQuiet
  /\ RowsCoverAdmissions
  /\ AdmissionsExclude
  /\ OneExecutionPerCapability

-----------------------------------------------------------------------------
(* Initial states                                                          *)

LEMMA InitHolds == RpcInit => IInv
<1> SUFFICES ASSUME RpcInit PROVE IInv
  OBVIOUS
<1>1. RpcTypeOK
  BY DEF RpcInit, RpcTypeOK
<1>2. \A c \in Call : ~Executed(c) /\ ~Admitted(c)
  BY DEF RpcInit, Executed, Admitted
<1>3. CallsFit
  BY <1>2, NoneAssumption DEF RpcInit, CallsFit, CallFits, Executed, Fresh, Started
<1>4. SlotHasOneOwner
  BY NoneAssumption DEF RpcInit, SlotHasOneOwner
<1>5. ClosedIsQuiet /\ RowsCoverAdmissions /\ AdmissionsExclude
      /\ OneExecutionPerCapability
  BY <1>2 DEF ClosedIsQuiet, RowsCoverAdmissions, AdmissionsExclude,
              OneExecutionPerCapability
<1> QED
  BY <1>1, <1>3, <1>4, <1>5 DEF IInv

-----------------------------------------------------------------------------
(* Types                                                                   *)

LEMMA ExpiryIsNat ==
  ASSUME NEW c \in Call, request[c] \in Request
  PROVE  request[c].issued \in Nat /\ Expiry(c) \in Nat
<1>1. request[c].issued \in Time
  BY DEF Request
<1>2. request[c].issued \in Nat
  BY <1>1, TimeAssumption
<1> QED
  BY <1>2, LimitAssumption DEF Expiry

LEMMA StepTypes ==
  ASSUME IInv, RpcNext
  PROVE  RpcTypeOK'
<1> USE DEF RpcTypeOK, callVars, handlerVars, SlotSteps
<1>0. RpcTypeOK
  BY DEF IInv
<1>s. \A c \in Call : handler[c] # "NONE" =>
        request[c] \in Request /\ server[c] \in Supervisor
  BY DEF IInv, CallsFit, CallFits
<1>1. CASE Tick
  BY <1>0, <1>1 DEF Tick
<1>2. ASSUME NEW c \in Call, NEW s \in Supervisor, NEW req \in Request,
             RunRepair(c, s, req)
      PROVE  RpcTypeOK'
  BY <1>0, <1>2 DEF RunRepair
<1>3. ASSUME NEW c \in Call, GiveUp(c) \/ Receive(c) PROVE RpcTypeOK'
  BY <1>0, <1>3 DEF GiveUp, Receive
<1>4. ASSUME NEW c \in Call, RefuseFrame(c) PROVE RpcTypeOK'
  BY <1>0, <1>4 DEF RefuseFrame, Goto
<1>5. ASSUME NEW c \in Call, Admit(c) PROVE RpcTypeOK'
  <2>1. server[c] \in Supervisor
    BY <1>s, <1>5 DEF Admit
  <2> QED
    BY <1>0, <1>5, <2>1 DEF Admit, Goto
<1>6. ASSUME NEW c \in Call, Consume(c) PROVE RpcTypeOK'
  <2>1. request[c] \in Request
    <3>1. handler[c] = "CONSUMING"
      BY <1>6 DEF Consume
    <3> QED
      BY <1>s, <3>1
  <2>2. RowOf(c) \in Row
    <3>1. Expiry(c) \in Nat
      BY <2>1, ExpiryIsNat
    <3> QED
      BY <2>1, <3>1 DEF RowOf, Row, Request
  <2>3. rows' \subseteq Row
    BY <1>0, <1>6, <2>2 DEF Consume, Unexpired
  <2> QED
    BY <1>0, <1>6, <2>3 DEF Consume, Goto
<1>7. ASSUME NEW c \in Call, StartExecution(c) PROVE RpcTypeOK'
  BY ZenonT(40), <1>0, <1>7 DEF StartExecution, Goto
<1>8. ASSUME NEW c \in Call, Settle(c) PROVE RpcTypeOK'
  BY <1>0, <1>8 DEF Settle
<1>9. ASSUME NEW c \in Call, Deadline(c) \/ ConnectionChanges(c) \/ FinishAbort(c)
      PROVE  RpcTypeOK'
  BY <1>0, <1>9 DEF Deadline, ConnectionChanges, FinishAbort, Goto
<1>10. ASSUME NEW c \in Call, Complete(c) PROVE RpcTypeOK'
  BY <1>0, <1>10 DEF Complete, Goto
<1>11. ASSUME NEW c \in Call, Respond(c) PROVE RpcTypeOK'
  BY <1>0, <1>11 DEF Respond, Goto
<1>12. ASSUME NEW s \in Supervisor, Close(s) \/ CloseEnds(s) PROVE RpcTypeOK'
  BY <1>0, <1>12 DEF Close, CloseEnds
<1>13. ASSUME NEW s \in Supervisor, Restart(s) PROVE RpcTypeOK'
  BY <1>0, <1>13 DEF Restart
<1> QED
  BY <1>1, <1>2, <1>3, <1>4, <1>5, <1>6, <1>7, <1>8, <1>9, <1>10, <1>11, <1>12,
     <1>13 DEF RpcNext, HandlerStep

-----------------------------------------------------------------------------
(* Calls                                                                   *)

CallUntouched(c) ==
  /\ request'[c] = request[c] /\ caller'[c] = caller[c]
  /\ server'[c] = server[c] /\ handler'[c] = handler[c] /\ stamp'[c] = stamp[c]
  /\ executor'[c] = executor[c] /\ startedAt'[c] = startedAt[c]
  /\ answered'[c] = answered[c]

\* A step that leaves a call alone, or only lets time pass.
LEMMA SameCallFits ==
  ASSUME NEW c \in Call, RpcTypeOK, RpcTypeOK', CallFits(c), now <= now', CallUntouched(c)
  PROVE  CallFits(c)'
<1>1. now \in Nat /\ now' \in Nat /\ startedAt[c] \in Nat \cup {None}
  BY TimeAssumption DEF RpcTypeOK
<1>2. Expiry(c)' = Expiry(c) /\ (Executed(c)' <=> Executed(c)) /\ (InTime(c)' <=> InTime(c))
  BY DEF CallUntouched, Expiry, Executed, InTime
<1>3. stamp[c] \in Time => stamp[c] \in Nat
  BY TimeAssumption
<1>4. Executed(c) => startedAt[c] \in Nat
  BY <1>1 DEF Executed
<1> QED
  BY <1>1, <1>2, <1>3, <1>4 DEF CallFits, CallUntouched

LEMMA StepCalls ==
  ASSUME IInv, RpcNext
  PROVE  CallsFit'
<1> SUFFICES ASSUME NEW d \in Call PROVE CallFits(d)'
  BY DEF CallsFit
<1>0. RpcTypeOK /\ RpcTypeOK' /\ CallFits(d)
  BY StepTypes DEF IInv, CallsFit
<1>n. now \in Nat /\ (startedAt[d] \in Time => startedAt[d] \in Nat)
      /\ (stamp[d] \in Time => stamp[d] \in Nat)
  BY <1>0, TimeAssumption DEF RpcTypeOK
<1>e. request[d] \in Request => request[d].issued \in Nat /\ Expiry(d) \in Nat
  BY ExpiryIsNat
<1> USE DEF callVars, handlerVars
<1>1. CASE Tick
  <2>1. now <= now'
    BY <1>0, <1>1, TimeAssumption DEF Tick, RpcTypeOK
  <2> QED
    BY <1>0, <1>1, <2>1, SameCallFits DEF Tick, CallUntouched
<1>2. ASSUME NEW c \in Call, NEW s \in Supervisor, NEW req \in Request,
             RunRepair(c, s, req)
      PROVE  CallFits(d)'
  <2>1. CASE d # c
    <3>1. CallUntouched(d) /\ now' = now
      BY <1>0, <1>2, <2>1 DEF RunRepair, RpcTypeOK, CallUntouched
    <3> QED
      BY <1>0, <1>n, <3>1, SameCallFits
  <2>2. CASE d = c
    BY <1>0, <1>2, <2>2 DEF RunRepair, RpcTypeOK, CallFits, Executed, Fresh, Started
  <2> QED
    BY <2>1, <2>2
<1>3. ASSUME NEW c \in Call, GiveUp(c) \/ Receive(c) PROVE CallFits(d)'
  <2>1. CASE d # c
    <3>1. CallUntouched(d) /\ now' = now
      BY <1>0, <1>3, <2>1 DEF GiveUp, Receive, RpcTypeOK, CallUntouched
    <3> QED
      BY <1>0, <1>n, <3>1, SameCallFits
  <2>2. CASE d = c
    BY <1>0, <1>3, <2>2 DEF GiveUp, Receive, Left, RpcTypeOK, CallFits, Executed,
       Expiry, InTime
  <2> QED
    BY <2>1, <2>2
<1>4. ASSUME NEW c \in Call, RefuseFrame(c) PROVE CallFits(d)'
  <2>1. CASE d # c
    <3>1. CallUntouched(d) /\ now' = now
      BY <1>0, <1>4, <2>1 DEF RefuseFrame, Goto, RpcTypeOK, CallUntouched
    <3> QED
      BY <1>0, <1>n, <3>1, SameCallFits
  <2>2. CASE d = c
    BY <1>0, <1>n, <1>e, <1>4, <2>2 DEF RefuseFrame, Goto, RpcTypeOK, SlotSteps,
       CallFits, Executed, Expiry, InTime, Fresh, Started
  <2> QED
    BY <2>1, <2>2
<1>5. ASSUME NEW c \in Call, Admit(c) PROVE CallFits(d)'
  <2>1. CASE d # c
    <3>1. CallUntouched(d) /\ now' = now
      BY <1>0, <1>5, <2>1 DEF Admit, Goto, RpcTypeOK, CallUntouched
    <3> QED
      BY <1>0, <1>n, <3>1, SameCallFits
  <2>2. CASE d = c
    BY <1>0, <1>n, <1>e, <1>5, <2>2 DEF Admit, Goto, RpcTypeOK, SlotSteps,
       CallFits, Executed, Expiry, InTime, Fresh, Started
  <2> QED
    BY <2>1, <2>2
<1>6. ASSUME NEW c \in Call, Consume(c) PROVE CallFits(d)'
  <2>1. CASE d # c
    <3>1. CallUntouched(d) /\ now' = now
      BY <1>0, <1>6, <2>1 DEF Consume, Goto, RpcTypeOK, CallUntouched
    <3> QED
      BY <1>0, <1>n, <3>1, SameCallFits
  <2>2. CASE d = c
    BY <1>0, <1>n, <1>e, <1>6, <2>2 DEF Consume, Goto, RpcTypeOK, SlotSteps,
       CallFits, Executed, Expiry, InTime, Fresh, Started
  <2> QED
    BY <2>1, <2>2
<1>7. ASSUME NEW c \in Call, StartExecution(c) PROVE CallFits(d)'
  <2>1. CASE d # c
    <3>1. CallUntouched(d) /\ now' = now
      BY ZenonT(40), <1>0, <1>7, <2>1 DEF StartExecution, Goto, RpcTypeOK, CallUntouched
    <3> QED
      BY <1>0, <1>n, <3>1, SameCallFits
  <2>2. CASE d = c
    <3>1. handler[c] = "CONSUMED" /\ executor[c] = "NONE" /\ ~Executed(c)
          /\ request[c] \in Request /\ server[c] \in Supervisor
      BY <1>0, <1>7, <2>2 DEF StartExecution, CallFits, Fresh
    <3>2. CASE handler'[c] = "ENDED" /\ UNCHANGED <<executor, startedAt>>
      BY <1>0, <1>7, <2>2, <3>1, <3>2 DEF StartExecution, Goto, RpcTypeOK, SlotSteps,
         CallFits, Executed, Fresh, Started
    <3>3. CASE Startable(c) /\ handler'[c] = "EXECUTING" /\ executor'[c] = "RUNNING"
               /\ startedAt'[c] = now
      <4>1. now # None /\ now <= now /\ now <= Expiry(c) /\ Executed(c)'
        BY <1>0, <1>n, <1>e, <2>2, <3>1, <3>3, NoneAssumption
           DEF RpcTypeOK, Startable, InWindow, Executed
      <4> QED
        BY <1>0, <1>7, <2>2, <3>1, <3>3, <4>1 DEF StartExecution, Goto, RpcTypeOK,
           SlotSteps, CallFits, Expiry, Fresh, Started
    <3> QED
      BY ZenonT(40), <1>0, <1>7, <3>2, <3>3 DEF StartExecution, Goto, RpcTypeOK
  <2> QED
    BY <2>1, <2>2
<1>8. ASSUME NEW c \in Call, Settle(c) PROVE CallFits(d)'
  <2>1. CASE d # c
    <3>1. CallUntouched(d) /\ now' = now
      BY <1>0, <1>8, <2>1 DEF Settle, Goto, RpcTypeOK, CallUntouched
    <3> QED
      BY <1>0, <1>n, <3>1, SameCallFits
  <2>2. CASE d = c
    BY <1>0, <1>n, <1>e, <1>8, <2>2 DEF Settle, Goto, RpcTypeOK, SlotSteps,
       CallFits, Executed, Expiry, InTime, Fresh, Started
  <2> QED
    BY <2>1, <2>2
<1>9. ASSUME NEW c \in Call, Deadline(c) \/ ConnectionChanges(c) \/ FinishAbort(c)
      PROVE  CallFits(d)'
  <2>1. CASE d # c
    <3>1. CallUntouched(d) /\ now' = now
      BY ZenonT(40), <1>0, <1>9, <2>1 DEF Deadline, ConnectionChanges, FinishAbort, Goto, RpcTypeOK, CallUntouched
    <3> QED
      BY <1>0, <1>n, <3>1, SameCallFits
  <2>2. CASE d = c
    <3>1. CASE Deadline(c) \/ ConnectionChanges(c)
      BY <1>0, <2>2, <3>1 DEF Deadline, ConnectionChanges, Goto, RpcTypeOK, SlotSteps,
         CallFits, Executed, Expiry, InTime, Fresh, Started
    <3>2. CASE FinishAbort(c)
      BY <1>0, <2>2, <3>2 DEF FinishAbort, HasSettled, Goto, RpcTypeOK, SlotSteps,
         CallFits, Executed, Expiry, InTime, Fresh, Started
    <3> QED
      BY <1>9, <3>1, <3>2
  <2> QED
    BY <2>1, <2>2
<1>10. ASSUME NEW c \in Call, Complete(c) PROVE CallFits(d)'
  <2>1. CASE d # c
    <3>1. CallUntouched(d) /\ now' = now
      BY <1>0, <1>10, <2>1 DEF Complete, Goto, RpcTypeOK, CallUntouched
    <3> QED
      BY <1>0, <1>n, <3>1, SameCallFits
  <2>2. CASE d = c
    BY <1>0, <1>n, <1>e, <1>10, <2>2 DEF Complete, Goto, RpcTypeOK, SlotSteps,
       CallFits, Executed, Expiry, InTime, Fresh, Started, Signable
  <2> QED
    BY <2>1, <2>2
<1>11. ASSUME NEW c \in Call, Respond(c) PROVE CallFits(d)'
  <2>1. CASE d # c
    <3>1. CallUntouched(d) /\ now' = now
      BY <1>0, <1>11, <2>1 DEF Respond, Goto, RpcTypeOK, CallUntouched
    <3> QED
      BY <1>0, <1>n, <3>1, SameCallFits
  <2>2. CASE d = c
    BY <1>0, <1>n, <1>e, <1>11, <2>2 DEF Respond, Goto, RpcTypeOK, SlotSteps,
       CallFits, Executed, Expiry, InTime, Fresh, Started
  <2> QED
    BY <2>1, <2>2
<1>12. ASSUME NEW s \in Supervisor, Close(s) \/ CloseEnds(s) PROVE CallFits(d)'
  BY <1>0, <1>n, <1>e, <1>12 DEF Close, CloseEnds, RpcTypeOK, CallFits, Executed, Expiry, InTime, Fresh, Started
<1>13. ASSUME NEW s \in Supervisor, Restart(s) PROVE CallFits(d)'
  <2>1. CASE server[d] # s
    <3>1. CallUntouched(d) /\ now' = now
      BY <1>0, <1>13, <2>1 DEF Restart, RpcTypeOK, CallUntouched
    <3> QED
      BY <1>0, <1>n, <3>1, SameCallFits
  <2>2. CASE server[d] = s
    <3>1. handler[d] # "NONE" /\ caller[d] # "UNUSED"
      BY <1>0, <1>13, <2>2, NoneAssumption DEF CallFits
    <3> QED
      BY <1>0, <1>n, <1>13, <2>2, <3>1 DEF Restart, RpcTypeOK, CallFits, Executed, Expiry, InTime, Fresh, Started
  <2> QED
    BY <2>1, <2>2
<1> QED
  BY <1>1, <1>2, <1>3, <1>4, <1>5, <1>6, <1>7, <1>8, <1>9, <1>10, <1>11, <1>12,
     <1>13 DEF RpcNext, HandlerStep

-----------------------------------------------------------------------------
(* The slot                                                                *)

Owns(c, s) == server[c] = s /\ handler[c] \in SlotSteps
SlotOwned ==
  \A s \in Supervisor :
    /\ slot[s] <=> \E c \in Call : Owns(c, s)
    /\ \A c, d \in Call : (Owns(c, s) /\ Owns(d, s)) => c = d

\* That what runs belongs to the owner is a matter of each call.
LEMMA SlotIsOwned ==
  ASSUME CallsFit
  PROVE  SlotOwned <=> SlotHasOneOwner
<1>1. \A c \in Call : executor[c] = "RUNNING" => handler[c] \in SlotSteps
  BY DEF CallsFit, CallFits, SlotSteps
<1>2. ASSUME NEW s \in Supervisor
      PROVE  /\ (\E c \in Call : Owns(c, s)) <=>
                  {c \in Call : server[c] = s /\ handler[c] \in SlotSteps} # {}
             /\ \A c \in Call : Owns(c, s) <=>
                  c \in {e \in Call : server[e] = s /\ handler[e] \in SlotSteps}
  BY DEF Owns
<1> QED
  BY <1>1, <1>2 DEF SlotOwned, SlotHasOneOwner

\* A handler may move on when it has the slot already, or it is free.
LEMMA GotoKeepsSlots ==
  ASSUME NEW c \in Call, NEW step, RpcTypeOK, SlotOwned, server[c] \in Supervisor,
         Goto(c, step), server' = server,
         step \in SlotSteps => (handler[c] \in SlotSteps \/ ~slot[server[c]])
  PROVE  SlotOwned'
<1> SUFFICES ASSUME NEW s \in Supervisor
             PROVE  /\ slot'[s] <=> \E d \in Call : Owns(d, s)'
                    /\ \A d, e \in Call : (Owns(d, s)' /\ Owns(e, s)') => d = e
  BY DEF SlotOwned
<1>1. \A d \in Call : d # c => (Owns(d, s)' <=> Owns(d, s))
  BY DEF Owns, Goto, RpcTypeOK
<1>2. Owns(c, s)' <=> (server[c] = s /\ step \in SlotSteps)
  BY DEF Owns, Goto, RpcTypeOK
<1>3. /\ slot[s] <=> \E d \in Call : Owns(d, s)
      /\ \A d, e \in Call : (Owns(d, s) /\ Owns(e, s)) => d = e
  BY DEF SlotOwned
<1>4. CASE server[c] # s
  <2>1. slot'[s] = slot[s]
    BY <1>4 DEF Goto, RpcTypeOK
  <2>2. ~Owns(c, s) /\ ~Owns(c, s)'
    BY <1>2, <1>4 DEF Owns
  <2> QED
    BY <1>1, <1>3, <2>1, <2>2
<1>5. CASE server[c] = s
  <2>1. Owns(c, s) <=> handler[c] \in SlotSteps
    BY <1>5 DEF Owns
  <2>2. slot'[s] = IF step \in SlotSteps THEN TRUE
                   ELSE IF handler[c] \in SlotSteps THEN FALSE ELSE slot[s]
    BY <1>5 DEF Goto, RpcTypeOK
  <2>3. CASE step \in SlotSteps
    BY <1>1, <1>2, <1>3, <1>5, <2>1, <2>2, <2>3
  <2>4. CASE step \notin SlotSteps
    BY <1>1, <1>2, <1>3, <1>5, <2>1, <2>2, <2>4
  <2> QED
    BY <2>3, <2>4
<1> QED
  BY <1>4, <1>5

LEMMA SameSlots ==
  ASSUME SlotOwned, UNCHANGED <<server, slot>>,
         \A c \in Call : handler'[c] \in SlotSteps <=> handler[c] \in SlotSteps
  PROVE  SlotOwned'
BY DEF SlotOwned, Owns

LEMMA StepSlots ==
  ASSUME IInv, RpcNext
  PROVE  SlotHasOneOwner'
<1> SUFFICES SlotOwned'
  <2>1. SlotOwned' <=> SlotHasOneOwner'
    <3>1. CallsFit'
      BY StepCalls
    <3> QED
      BY <3>1, SlotIsOwned, PTL
  <2> QED
    BY <2>1
<1>0. RpcTypeOK /\ SlotOwned /\ CallsFit
  BY SlotIsOwned DEF IInv
<1>s. \A c \in Call : handler[c] # "NONE" => server[c] \in Supervisor
  BY <1>0 DEF CallsFit, CallFits
<1>m. ASSUME NEW c \in Call, NEW step, handler[c] # "NONE", Goto(c, step),
             server' = server,
             step \in SlotSteps => (handler[c] \in SlotSteps \/ ~slot[server[c]])
      PROVE  SlotOwned'
  BY <1>0, <1>s, <1>m, GotoKeepsSlots
<1> USE DEF callVars, handlerVars
<1>1. CASE Tick
  BY <1>0, <1>1, SameSlots DEF Tick
<1>2. ASSUME NEW c \in Call, NEW s \in Supervisor, NEW req \in Request,
             RunRepair(c, s, req)
      PROVE  SlotOwned'
  <2>1. handler[c] = "NONE"
    BY <1>0, <1>2 DEF RunRepair, CallsFit, CallFits
  <2>2. \A d \in Call, u \in Supervisor : Owns(d, u)' <=> Owns(d, u)
    BY <1>0, <1>2, <2>1 DEF RunRepair, Owns, RpcTypeOK, SlotSteps
  <2>3. slot' = slot
    BY <1>2 DEF RunRepair
  <2> QED
    BY <1>0, <2>2, <2>3 DEF SlotOwned
<1>3. ASSUME NEW c \in Call, GiveUp(c) \/ Receive(c) \/ Settle(c) PROVE SlotOwned'
  BY <1>0, <1>3, SameSlots DEF GiveUp, Receive, Settle
<1>4. ASSUME NEW c \in Call, RefuseFrame(c) PROVE SlotOwned'
  BY <1>4, <1>m DEF RefuseFrame, SlotSteps
<1>5. ASSUME NEW c \in Call, Admit(c) PROVE SlotOwned'
  BY <1>5, <1>m DEF Admit, SlotSteps
<1>6. ASSUME NEW c \in Call, Consume(c) PROVE SlotOwned'
  BY <1>6, <1>m DEF Consume, SlotSteps
<1>7. ASSUME NEW c \in Call, StartExecution(c) PROVE SlotOwned'
  BY <1>7, <1>m DEF StartExecution, SlotSteps
<1>8. ASSUME NEW c \in Call, Deadline(c) \/ ConnectionChanges(c) \/ FinishAbort(c)
      PROVE  SlotOwned'
  BY <1>8, <1>m DEF Deadline, ConnectionChanges, FinishAbort, SlotSteps
<1>9. ASSUME NEW c \in Call, Complete(c) PROVE SlotOwned'
  BY <1>9, <1>m DEF Complete, SlotSteps
<1>10. ASSUME NEW c \in Call, Respond(c) PROVE SlotOwned'
  BY <1>10, <1>m DEF Respond, SlotSteps
<1>11. ASSUME NEW s \in Supervisor, Close(s) \/ CloseEnds(s) PROVE SlotOwned'
  BY <1>0, <1>11, SameSlots DEF Close, CloseEnds, SlotSteps
<1>12. ASSUME NEW s \in Supervisor, Restart(s) PROVE SlotOwned'
  <2>1. \A d \in Call : Owns(d, s)' <=> FALSE
    BY <1>12 DEF Restart, Owns, SlotSteps
  <2>2. \A d \in Call, u \in Supervisor : u # s => (Owns(d, u)' <=> Owns(d, u))
    BY <1>0, <1>12 DEF Restart, Owns, RpcTypeOK
  <2>3. slot'[s] = FALSE /\ \A u \in Supervisor : u # s => slot'[u] = slot[u]
    BY <1>0, <1>12 DEF Restart, RpcTypeOK
  <2>4. SUFFICES ASSUME NEW u \in Supervisor
                 PROVE  /\ slot'[u] <=> \E d \in Call : Owns(d, u)'
                        /\ \A d, e \in Call : (Owns(d, u)' /\ Owns(e, u)') => d = e
    BY DEF SlotOwned
  <2>5. CASE u = s
    BY <2>1, <2>3, <2>5
  <2>6. CASE u # s
    <3>1. /\ slot[u] <=> \E d \in Call : Owns(d, u)
          /\ \A d, e \in Call : (Owns(d, u) /\ Owns(e, u)) => d = e
      BY <1>0 DEF SlotOwned
    <3> QED
      BY <2>2, <2>3, <2>6, <3>1
  <2> QED
    BY <2>5, <2>6
<1> QED
  BY <1>1, <1>2, <1>3, <1>4, <1>5, <1>6, <1>7, <1>8, <1>9, <1>10, <1>11, <1>12
     DEF RpcNext, HandlerStep

-----------------------------------------------------------------------------
(* Close                                                                   *)

LEMMA StepQuiet ==
  ASSUME IInv, RpcNext
  PROVE  ClosedIsQuiet'
<1> SUFFICES ASSUME NEW d \in Call, Executed(d)', mode'[server'[d]] = "CLOSED",
                    executor'[d] = "RUNNING"
             PROVE  FALSE
  BY DEF ClosedIsQuiet
<1>0. RpcTypeOK /\ CallFits(d) /\ CallFits(d)'
  BY StepCalls DEF IInv, CallsFit
<1>1. ASSUME Executed(d), executor[d] = "RUNNING", mode[server[d]] = "CLOSED"
      PROVE  FALSE
  BY <1>1 DEF IInv, ClosedIsQuiet
<1>2. ASSUME UNCHANGED <<server, executor, startedAt, mode>> PROVE FALSE
  BY <1>1, <1>2 DEF Executed
<1> USE DEF callVars, handlerVars
<1>3. CASE Tick
  BY <1>2, <1>3 DEF Tick
<1>4. ASSUME NEW c \in Call, NEW s \in Supervisor, NEW req \in Request,
             RunRepair(c, s, req)
      PROVE  FALSE
  <2>1. handler'[c] = "READING"
    BY <1>0, <1>4 DEF RunRepair, RpcTypeOK
  <2>2. d # c
    BY <1>0, <2>1 DEF CallFits, Fresh
  <2>3. server'[d] = server[d]
    BY <1>0, <1>4, <2>2 DEF RunRepair, RpcTypeOK
  <2> QED
    BY <1>1, <1>4, <2>3 DEF RunRepair, Executed
<1>5. ASSUME NEW c \in Call, GiveUp(c) \/ Receive(c) PROVE FALSE
  BY <1>2, <1>5 DEF GiveUp, Receive
<1>6. ASSUME NEW c \in Call, RefuseFrame(c) \/ Admit(c) \/ Consume(c) PROVE FALSE
  BY <1>2, <1>6 DEF RefuseFrame, Admit, Consume
<1>7. ASSUME NEW c \in Call, StartExecution(c) PROVE FALSE
  <2>1. CASE UNCHANGED <<executor, startedAt>>
    BY <1>2, <1>7, <2>1 DEF StartExecution
  <2>2. CASE Startable(c) /\ executor' = [executor EXCEPT ![c] = "RUNNING"]
               /\ startedAt' = [startedAt EXCEPT ![c] = now]
    <3>1. mode' = mode /\ server' = server
      BY <1>7 DEF StartExecution
    <3>2. d # c
      BY <2>2, <3>1 DEF Startable
    <3> QED
      BY <1>0, <1>1, <2>2, <3>1, <3>2 DEF RpcTypeOK, Executed
  <2> QED
    BY <1>7, <2>1, <2>2 DEF StartExecution
<1>8. ASSUME NEW c \in Call, Settle(c) PROVE FALSE
  BY <1>0, <1>1, <1>8 DEF Settle, RpcTypeOK, Executed
<1>9. ASSUME NEW c \in Call,
             Deadline(c) \/ ConnectionChanges(c) \/ FinishAbort(c) \/ Complete(c)
             \/ Respond(c)
      PROVE  FALSE
  BY <1>2, <1>9 DEF Deadline, ConnectionChanges, FinishAbort, Complete, Respond
<1>10. ASSUME NEW s \in Supervisor, Close(s) PROVE FALSE
  BY <1>0, <1>1, <1>10 DEF Close, RpcTypeOK, Executed
<1>11. ASSUME NEW s \in Supervisor, CloseEnds(s) PROVE FALSE
  <2>1. CASE server[d] = s
    BY <1>0, <1>11, <2>1 DEF CloseEnds, AllSettled, RpcTypeOK
  <2>2. CASE server[d] # s
    <3>1. executor[d] = "RUNNING" /\ server'[d] = server[d] /\ Executed(d)
      BY <1>11 DEF CloseEnds, Executed
    <3>2. server[d] \in Supervisor
      BY <1>0, <3>1 DEF CallFits
    <3>3. mode'[server[d]] = mode[server[d]]
      BY <1>0, <1>11, <2>2, <3>2 DEF CloseEnds, RpcTypeOK
    <3> QED
      BY <1>1, <3>1, <3>3
  <2> QED
    BY <2>1, <2>2
<1>12. ASSUME NEW s \in Supervisor, Restart(s) PROVE FALSE
  BY <1>0, <1>1, <1>12 DEF Restart, RpcTypeOK, Executed
<1> QED
  BY <1>3, <1>4, <1>5, <1>6, <1>7, <1>8, <1>9, <1>10, <1>11, <1>12
     DEF RpcNext, HandlerStep

-----------------------------------------------------------------------------
(* Capabilities                                                            *)

\* What a step does to one call and to the store, as far as admissions go.
LEMMA StepAdmissions ==
  ASSUME IInv, RpcNext, NEW d \in Call
  PROVE  /\ Admitted(d) => (request'[d] = request[d] /\ Expiry(d) \in Nat)
         /\ Admitted(d)' => (Admitted(d) \/ Consume(d))
         /\ Executed(d)' =>
              \/ Executed(d) /\ startedAt'[d] = startedAt[d]
              \/ StartExecution(d) /\ Startable(d) /\ startedAt'[d] = now
<1>0. RpcTypeOK /\ CallFits(d)
  BY DEF IInv, CallsFit
<1>1. Admitted(d) => handler[d] # "NONE"
  BY <1>0 DEF CallFits, Fresh, Admitted
<1>2. Admitted(d) => Expiry(d) \in Nat
  BY <1>0, <1>1, ExpiryIsNat DEF CallFits
<1>3. ASSUME handler'[d] = handler[d], UNCHANGED <<request, startedAt>>
      PROVE  /\ request'[d] = request[d]
             /\ Admitted(d)' <=> Admitted(d)
             /\ Executed(d)' => (Executed(d) /\ startedAt'[d] = startedAt[d])
  BY <1>3 DEF Admitted, Executed
<1> USE DEF callVars, handlerVars
<1>4. CASE Tick
  BY <1>2, <1>3, <1>4 DEF Tick
<1>5. ASSUME NEW c \in Call, NEW s \in Supervisor, NEW req \in Request,
             RunRepair(c, s, req)
      PROVE  /\ Admitted(d) => request'[d] = request[d]
             /\ Admitted(d)' => Admitted(d)
             /\ Executed(d)' => (Executed(d) /\ startedAt'[d] = startedAt[d])
  <2>1. CASE d = c
    BY <1>0, <1>1, <1>5, <2>1 DEF RunRepair, RpcTypeOK, CallFits, Admitted, Executed
  <2>2. CASE d # c
    BY <1>0, <1>5, <2>2 DEF RunRepair, RpcTypeOK, Admitted, Executed
  <2> QED
    BY <2>1, <2>2
<1>6. ASSUME NEW c \in Call, GiveUp(c) \/ Receive(c) \/ Settle(c)
      PROVE  handler'[d] = handler[d] /\ UNCHANGED <<request, startedAt>>
  BY <1>6 DEF GiveUp, Receive, Settle
<1>7. ASSUME NEW c \in Call,
             \/ RefuseFrame(c) \/ Admit(c) \/ Deadline(c) \/ ConnectionChanges(c)
             \/ FinishAbort(c) \/ Complete(c) \/ Respond(c)
      PROVE  UNCHANGED <<request, startedAt>> /\ (Admitted(d)' => Admitted(d))
  BY <1>0, <1>7 DEF RefuseFrame, Admit, Deadline, ConnectionChanges, FinishAbort,
     Complete, Respond, Goto, RpcTypeOK, Admitted, Executed
<1>8. ASSUME NEW c \in Call, Consume(c)
      PROVE  UNCHANGED <<request, startedAt>> /\ (Admitted(d)' => Admitted(d) \/ c = d)
  BY <1>0, <1>8 DEF Consume, Goto, RpcTypeOK, Admitted, Executed
<1>9. ASSUME NEW c \in Call, StartExecution(c)
      PROVE  /\ request' = request
             /\ Admitted(d)' => Admitted(d)
             /\ Executed(d)' =>
                  \/ Executed(d) /\ startedAt'[d] = startedAt[d]
                  \/ StartExecution(d) /\ Startable(d) /\ startedAt'[d] = now
  <2>1. request' = request
    BY <1>9 DEF StartExecution
  <2>2. CASE d = c
    BY <1>0, <1>9, <2>1, <2>2 DEF StartExecution, RpcTypeOK, Admitted, Executed
  <2>3. CASE d # c
    BY <1>0, <1>9, <2>1, <2>3 DEF StartExecution, Goto, RpcTypeOK, Admitted, Executed
  <2> QED
    BY <2>1, <2>2, <2>3
<1>10. ASSUME NEW s \in Supervisor, Close(s) \/ CloseEnds(s) \/ Restart(s)
       PROVE  UNCHANGED <<request, startedAt>> /\ (Admitted(d)' => Admitted(d))
  BY <1>0, <1>10 DEF Close, CloseEnds, Restart, RpcTypeOK, Admitted, Executed
<1>11. ASSUME UNCHANGED <<request, startedAt>>
       PROVE  /\ request'[d] = request[d]
              /\ Executed(d)' => (Executed(d) /\ startedAt'[d] = startedAt[d])
  BY <1>11 DEF Executed
<1> QED
  BY <1>2, <1>3, <1>4, <1>5, <1>6, <1>7, <1>8, <1>9, <1>10, <1>11
     DEF RpcNext, HandlerStep

LEMMA StepStore ==
  ASSUME IInv, RpcNext
  PROVE  /\ now \in Nat /\ now' \in Nat /\ now <= now'
         /\ rows' = rows \/ \E c \in Call : Consume(c)
<1>1. now \in Nat /\ now' \in Nat
  BY StepTypes, TimeAssumption DEF IInv, RpcTypeOK
<1>2. now <= now'
  <2>1. CASE Tick
    BY <1>1, <2>1 DEF Tick
  <2>2. CASE now' = now
    BY <1>1, <2>2
  <2> QED
    BY <2>1, <2>2 DEF RpcNext, HandlerStep, RunRepair, GiveUp, Receive, RefuseFrame, Admit,
       Consume, StartExecution, Deadline, FinishAbort, Complete, Respond,
       ConnectionChanges, Settle, Close, CloseEnds, Restart
<1>3. rows' = rows \/ \E c \in Call : Consume(c)
  BY DEF RpcNext, HandlerStep, Tick, RunRepair, GiveUp, Receive, RefuseFrame, Admit,
     StartExecution, Deadline, FinishAbort, Complete, Respond, ConnectionChanges,
     Settle, Close, CloseEnds, Restart
<1> QED
  BY <1>1, <1>2, <1>3

\* What is known when a request is consumed and its handler goes on.
LEMMA Consumed ==
  ASSUME IInv, RpcNext, NEW c \in Call, Consume(c), Admitted(c)'
  PROVE  /\ now' = now /\ request' = request /\ ~Admitted(c)
         /\ stamp[c] \in Nat /\ stamp[c] <= now
         /\ RowOf(c) \in rows'
         /\ \A row \in rows : row.expires > stamp[c] => (row \in rows' /\ ~Names(row, c))
<1>1. RpcTypeOK /\ CallFits(c)
  BY DEF IInv, CallsFit
<1>2. handler[c] = "CONSUMING" /\ UNCHANGED <<now, request, startedAt>>
  BY DEF Consume, callVars
<1>3. ~Executed(c) /\ ~Admitted(c) /\ stamp[c] \in Nat /\ stamp[c] <= now
  BY <1>1, <1>2, TimeAssumption DEF CallFits, Fresh, Admitted
<1>4. handler'[c] = "CONSUMED"
  BY <1>2, <1>3 DEF Admitted, Executed
<1>5. MayConsume(c, Unexpired(stamp[c])) /\ rows' = Unexpired(stamp[c]) \cup {RowOf(c)}
  BY <1>1, <1>4 DEF Consume, Goto, RpcTypeOK
<1>6. RowOf(c) \in rows'
  BY <1>5
<1>7. ASSUME NEW row \in rows, row.expires > stamp[c]
      PROVE  row \in rows' /\ ~Names(row, c)
  <2>1. row \in Unexpired(stamp[c])
    BY <1>7 DEF Unexpired
  <2> QED
    BY <1>5, <2>1 DEF MayConsume
<1> QED
  BY <1>2, <1>3, <1>6, <1>7

LEMMA StepRows ==
  ASSUME IInv, RpcNext
  PROVE  RowsCoverAdmissions'
<1> SUFFICES ASSUME NEW d \in Call, Admitted(d)'
             PROVE  RowOf(d)' \in rows' \/ Expiry(d)' <= now'
  BY DEF RowsCoverAdmissions
<1>1. now \in Nat /\ now' \in Nat /\ now <= now'
  BY StepStore
<1>2. CASE ~Admitted(d)
  <2>1. Consume(d)
    BY <1>2, StepAdmissions
  <2>2. RowOf(d) \in rows' /\ request' = request
    BY <2>1, Consumed
  <2> QED
    BY <2>2 DEF RowOf, Expiry
<1>3. CASE Admitted(d)
  <2>1. request'[d] = request[d] /\ Expiry(d) \in Nat
    BY <1>3, StepAdmissions
  <2>2. RowOf(d)' = RowOf(d) /\ Expiry(d)' = Expiry(d)
    BY <2>1 DEF RowOf, Expiry
  <2>3. RowOf(d) \in rows \/ Expiry(d) <= now
    BY <1>3 DEF IInv, RowsCoverAdmissions
  <2>4. CASE Expiry(d) <= now
    BY <1>1, <2>1, <2>2, <2>4
  <2>5. CASE RowOf(d) \in rows /\ rows' = rows
    BY <2>2, <2>5
  <2>6. ASSUME RowOf(d) \in rows, NEW c \in Call, Consume(c)
        PROVE  RowOf(d)' \in rows' \/ Expiry(d)' <= now'
    <3>1. (RowOf(d)).expires = Expiry(d)
      BY DEF RowOf
    <3>2. CASE Admitted(c)'
      <4>1. stamp[c] \in Nat /\ stamp[c] <= now
        BY <2>6, <3>2, Consumed
      <4>2. Expiry(d) > stamp[c] => RowOf(d) \in rows'
        BY <2>6, <3>1, <3>2, Consumed
      <4> QED
        BY <1>1, <2>1, <2>2, <4>1, <4>2
    <3>3. CASE ~Admitted(c)'
      <4>1. RpcTypeOK /\ CallFits(c) /\ handler[c] = "CONSUMING"
        BY <2>6 DEF IInv, CallsFit, Consume
      <4>2. stamp[c] \in Nat /\ stamp[c] <= now
        BY <4>1, TimeAssumption DEF CallFits
      <4>3. rows' = rows \/ rows' = Unexpired(stamp[c])
        BY <2>6, <3>3, <4>1 DEF Consume, Goto, RpcTypeOK, Admitted
      <4>4. Expiry(d) > stamp[c] => RowOf(d) \in rows'
        BY <2>6, <3>1, <4>3 DEF Unexpired
      <4> QED
        BY <1>1, <2>1, <2>2, <4>2, <4>4
    <3> QED
      BY <3>2, <3>3
  <2> QED
    BY <2>3, <2>4, <2>5, <2>6, StepStore
<1> QED
  BY <1>2, <1>3

LEMMA StepExclude ==
  ASSUME IInv, RpcNext
  PROVE  AdmissionsExclude'
<1>1. now \in Nat /\ now' \in Nat /\ now <= now'
  BY StepStore
<1>2. ASSUME NEW c \in Call, NEW d \in Call, c # d, Consume(c), Admitted(c)',
             Admitted(d), SameCapability(c, d)
      PROVE  Expiry(d) <= now
  <2>1. /\ stamp[c] \in Nat /\ stamp[c] <= now
        /\ \A row \in rows : row.expires > stamp[c] => ~Names(row, c)
    BY <1>2, Consumed
  <2>2. Expiry(d) \in Nat
    BY <1>2, StepAdmissions
  <2>3. CASE RowOf(d) \in rows
    <3>1. (RowOf(d)).expires = Expiry(d) /\ Names(RowOf(d), c)
      BY <1>2 DEF RowOf, Names, SameCapability
    <3> QED
      BY <1>1, <2>1, <2>2, <2>3, <3>1
  <2> QED
    BY <1>2, <2>3 DEF IInv, RowsCoverAdmissions
<1> SUFFICES ASSUME NEW c \in Call, NEW d \in Call, c # d, Admitted(c)', Admitted(d)',
                    SameCapability(c, d)'
             PROVE  Expiry(c)' <= now' \/ Expiry(d)' <= now'
  BY DEF AdmissionsExclude
<1>3. ASSUME NEW e \in Call, Admitted(e)
      PROVE  Expiry(e) \in Nat /\ Expiry(e)' = Expiry(e) /\ request'[e] = request[e]
  <2>1. request'[e] = request[e] /\ Expiry(e) \in Nat
    BY <1>3, StepAdmissions
  <2> QED
    BY <2>1 DEF Expiry
<1>4. CASE Admitted(c) /\ Admitted(d)
  <2>1. SameCapability(c, d)
    BY <1>3, <1>4 DEF SameCapability
  <2>2. Expiry(c) <= now \/ Expiry(d) <= now
    BY <1>4, <2>1 DEF IInv, AdmissionsExclude
  <2> QED
    BY <1>1, <1>3, <1>4, <2>2
<1>5. ASSUME ~Admitted(c), ~Admitted(d) PROVE FALSE
  <2>1. Consume(c) /\ Consume(d)
    BY <1>5, StepAdmissions
  <2>2. RpcTypeOK /\ handler[d] = "CONSUMING"
    BY <2>1 DEF IInv, Consume
  <2>3. handler'[d] = handler[d] /\ startedAt' = startedAt
    BY <2>1, <2>2 DEF Consume, Goto, RpcTypeOK
  <2> QED
    BY <1>5, <2>2, <2>3 DEF Admitted, Executed
<1>6. ASSUME NEW a \in Call, NEW b \in Call, a # b, ~Admitted(a), Admitted(b),
             Admitted(a)', SameCapability(a, b)'
      PROVE  Expiry(b)' <= now'
  <2>1. Consume(a)
    BY <1>6, StepAdmissions
  <2>2. request' = request
    BY <1>6, <2>1, Consumed
  <2>3. SameCapability(a, b)
    BY <1>6, <2>2 DEF SameCapability
  <2> QED
    BY <1>1, <1>2, <1>3, <1>6, <2>1, <2>3
<1>7. SameCapability(d, c)'
  BY DEF SameCapability
<1> QED
  BY <1>4, <1>5, <1>6, <1>7

LEMMA StepOnce ==
  ASSUME IInv, RpcNext
  PROVE  OneExecutionPerCapability'
<1> SUFFICES ASSUME NEW c \in Call, NEW d \in Call, c # d, Executed(c)', Executed(d)',
                    SameCapability(c, d)', startedAt'[c] <= startedAt'[d]
             PROVE  Expiry(c)' <= startedAt'[d] \/ startedAt'[d] = Expiry(d)'
  BY DEF OneExecutionPerCapability
<1>1. now \in Nat
  BY StepStore
<1>2. ASSUME NEW e \in Call, Executed(e)'
      PROVE  /\ Admitted(e) /\ Expiry(e) \in Nat
             /\ request'[e] = request[e] /\ Expiry(e)' = Expiry(e)
             /\ Executed(e) => startedAt[e] \in Nat /\ startedAt[e] <= now
                               /\ startedAt[e] <= Expiry(e)
  <2>1. RpcTypeOK /\ CallFits(e)
    BY DEF IInv, CallsFit
  <2>2. Admitted(e)
    BY <1>2, StepAdmissions DEF StartExecution, Admitted
  <2>3. request'[e] = request[e] /\ Expiry(e) \in Nat
    BY <2>2, StepAdmissions
  <2>4. Executed(e) => startedAt[e] \in Nat
    BY <2>1, TimeAssumption DEF RpcTypeOK, Executed
  <2> QED
    BY <2>1, <2>2, <2>3, <2>4 DEF CallFits, Expiry
<1>3. SameCapability(c, d)
  BY <1>2 DEF SameCapability
<1>4. Expiry(c) <= now \/ Expiry(d) <= now
  BY <1>2, <1>3 DEF IInv, AdmissionsExclude
<1>5. ASSUME NEW e \in Call, Executed(e)'
      PROVE  \/ Executed(e) /\ startedAt'[e] = startedAt[e]
             \/ startedAt'[e] = now /\ now <= Expiry(e)
  BY <1>5, <1>1, <1>2, StepAdmissions DEF Startable, InWindow
<1>6. CASE Executed(c) /\ startedAt'[c] = startedAt[c]
           /\ Executed(d) /\ startedAt'[d] = startedAt[d]
  BY <1>2, <1>3, <1>6 DEF IInv, OneExecutionPerCapability
<1>7. CASE startedAt'[d] = now /\ now <= Expiry(d)
  BY <1>1, <1>2, <1>4, <1>7
<1>8. CASE startedAt'[c] = now /\ Executed(d) /\ startedAt'[d] = startedAt[d]
  BY <1>1, <1>2, <1>4, <1>8
<1> QED
  BY <1>5, <1>6, <1>7, <1>8

-----------------------------------------------------------------------------
(* Theorems                                                                *)

\* The invariant is inductive: it holds at first, and every step of a client,
\* a handler or a supervisor keeps it.
THEOREM RpcInvariant == RpcSpec => []IInv
<1>1. RpcInit => IInv
  BY InitHolds
<1>2. IInv /\ [RpcNext]_rpcVars => IInv'
  <2> SUFFICES ASSUME IInv, [RpcNext]_rpcVars PROVE IInv'
    OBVIOUS
  <2>1. CASE RpcNext
    BY <2>1, StepTypes, StepCalls, StepSlots, StepQuiet, StepRows, StepExclude, StepOnce
       DEF IInv
  <2>2. CASE UNCHANGED rpcVars
    BY <2>2 DEF rpcVars, callVars, handlerVars, IInv, RpcTypeOK, CallsFit, CallFits,
       SlotHasOneOwner, ClosedIsQuiet, RowsCoverAdmissions, AdmissionsExclude,
       OneExecutionPerCapability, Executed, Admitted, InTime, Expiry, RowOf,
       SameCapability
  <2> QED
    BY <2>1, <2>2
<1> QED
  BY <1>1, <1>2, PTL DEF RpcSpec

\* Connections, rows and supervisors keep their types.
THEOREM RpcTypesHold == RpcSpec => []RpcTypeOK
<1>1. IInv => RpcTypeOK
  BY DEF IInv
<1> QED
  BY <1>1, RpcInvariant, PTL

\* No two requests that share an ID or a nonce are executed while the first is
\* valid, by however many supervisors of one replay file and across restarts.
THEOREM EachCapabilityRunsOnce == RpcSpec => []OneExecutionPerCapability
<1>1. IInv => OneExecutionPerCapability
  BY DEF IInv
<1> QED
  BY <1>1, RpcInvariant, PTL

\* The repair slot is neither leaked nor given back while an executor runs.
THEOREM SlotIsNeverLeaked == RpcSpec => []SlotHasOneOwner
<1>1. IInv => SlotHasOneOwner
  BY DEF IInv
<1> QED
  BY <1>1, RpcInvariant, PTL

\* Nothing runs or starts on a supervisor whose close() has returned.
THEOREM ClosedStaysQuiet == RpcSpec => []ClosedIsQuiet
<1>1. IInv => ClosedIsQuiet
  BY DEF IInv
<1> QED
  BY <1>1, RpcInvariant, PTL

\* A result that a client accepts is one of work that has ended, in time.
THEOREM AcceptedResultsAreOver == RpcSpec => []AcceptedWorkIsOver
<1>1. IInv => AcceptedWorkIsOver
  BY DEF IInv, CallsFit, CallFits, InTime, AcceptedWorkIsOver
<1> QED
  BY <1>1, RpcInvariant, PTL

------------------------------------------------------------------------------
(***************************************************************************)
(* The supervised worker lifecycle                                         *)
(***************************************************************************)
\* A command whose CLI was killed.
Command == [cmd : {"create", "start"}, on : Resources]

Handle ==
  [owned : SUBSET Resources, ambiguous : SUBSET Resources, removed : SUBSET Roles,
   observed : SUBSET Roles, accounted : SUBSET Roles,
   session : BOOLEAN, proof : BOOLEAN, breached : BOOLEAN]

Ledger ==
  [begun : 0..3, sealed : SUBSET Roles, usage : [Roles -> Nat],
   failed : BOOLEAN, finalized : BOOLEAN, cleanup : {"none", "begun", "completed"}]

Life ==
  [phase : {"idle", "running", "cleanup"}, poisoned : BOOLEAN, step : 1..33, failed : BOOLEAN,
   proved : BOOLEAN, cpuStarted : BOOLEAN, result : {"none", "COMPLETED", "FAILED", "POISONED"}]

DriverTypes ==
  /\ box \in [Resources -> {"absent", "created", "running", "exited"}]
  /\ late \in SUBSET Command
  /\ disk \in SUBSET Workspaces
  /\ stray \in BOOLEAN
  /\ handle \in Handle
  /\ ledger \in Ledger

LifeTypes ==
  /\ life \in Life
  /\ aborted \in BOOLEAN /\ gap \in BOOLEAN /\ faults \in Nat /\ runs \in Nat
  /\ life.phase # "idle" => ~life.poisoned /\ life.result = "none"
  /\ life.phase = "cleanup" => life.step <= 10
  /\ life.result = "COMPLETED" => ~life.poisoned

\* x is not there and nothing on its way can bring it back.
Settled(x) == box[x] = "absent" /\ \A c \in late : c.on # x

\* The ledger is within the budget unless it has failed, and final only when sealed.
LedgerFits ==
  /\ ledger.failed \/ Aggregate(ledger.usage) <= Budget
  /\ ledger.finalized => ~ledger.failed /\ ledger.sealed = Roles

\* The verifier, and a command for it, comes after the worker and the proxy are settled.
VerifierLast == Settled("verifier") \/ (Settled("worker") /\ Settled("egress"))

\* What the driver does not know of is settled, and every late creation is one it
\* calls ambiguous.
HandleKnows ==
  /\ \A x \in Resources : x \notin handle.owned \cup handle.ambiguous => Settled(x)
  /\ \A c \in late : c.cmd = "create" => c.on \in handle.ambiguous
  /\ stray => handle.breached

\* What a completed run has shown.
FullyProven ==
  /\ ledger.finalized
  /\ handle.proof /\ handle.accounted = Roles /\ handle.removed = Roles

\* How far the run has come, and what is there by then.
RunFits ==
  life.phase = "running" =>
    /\ late = {} /\ handle.ambiguous = {} /\ ~handle.breached /\ life.proved
    /\ life.step <= 25 => box["verifier"] = "absent"
    /\ life.step <= 12 => box["worker"] \in {"absent", "created"}
    /\ life.step \in 15..17 => box["worker"] # "running"
    /\ life.step > 17 => box["worker"] = "absent" /\ "worker" \in handle.removed
    /\ life.step > 22 => box["egress"] = "absent" /\ "egress" \in handle.removed
    /\ life.step > 30 => "verifier" \in handle.removed
    /\ life.step > 6 => "egress" \in handle.owned
    /\ life.step > 10 => "worker" \in handle.owned
    /\ life.step > 25 => "verifier" \in handle.owned
    /\ gap => life.step \in 13..16 /\ box["egress"] # "running"
    /\ life.step = 33 => FullyProven

\* What the cleanup has got rid of, as long as nothing has disproved it.
CleanupFits ==
  life.phase = "cleanup" =>
    /\ ~life.failed => FullyProven /\ ~gap /\ Settled("worker")
    /\ life.proved =>
         /\ life.step > 2 => Settled("verifier")
         /\ life.step > 3 => Settled("worker")
         /\ life.step > 4 => Settled("egress")
         /\ life.step > 5 => Settled("outbound-network")
         /\ life.step > 6 => Settled("worker-network")
         /\ life.step > 7 => disk = {}
         /\ life.step > 9 => ~handle.breached

\* What the next call finds.
IdleFits ==
  life.phase = "idle" /\ ~life.poisoned =>
    /\ \A x \in Resources : box[x] = "absent"
    /\ late = {} /\ disk = {} /\ ~stray
    /\ life.result = "COMPLETED" => FullyProven /\ ~gap

\* What always holds of the driver.
DriverFits == DriverTypes /\ LedgerFits /\ VerifierLast /\ HandleKnows

LifecycleInv ==
  /\ DriverFits /\ LifeTypes
  /\ RunFits /\ CleanupFits /\ IdleFits

-----------------------------------------------------------------------------
LEMMA RolesAre == Roles = {"egress", "worker", "verifier"}
BY DEF Roles, RoleOrder, ToSet

LEMMA ResourcesAre ==
  Resources = {"egress", "worker", "verifier", "worker-network", "outbound-network"}
BY RolesAre DEF Resources, Networks

Instruction(op, x) == [op |-> op, on |-> x]

LEMMA ProgramSteps ==
  /\ Len(Program) = 33
  /\ Program[1] = Instruction("prepareWorkspace", "repair")
  /\ Program[2] = Instruction("beginSession", "all")
  /\ Program[3] = Instruction("namesAbsent", "all")
  /\ Program[4] = Instruction("create", "worker-network")
  /\ Program[5] = Instruction("create", "outbound-network")
  /\ Program[6] = Instruction("create", "egress")
  /\ Program[7] = Instruction("connect", "egress")
  /\ Program[8] = Instruction("start", "egress")
  /\ Program[9] = Instruction("accountStart", "egress")
  /\ Program[10] = Instruction("create", "worker")
  /\ Program[11] = Instruction("observeRunning", "egress")
  /\ Program[12] = Instruction("start", "worker")
  /\ Program[13] = Instruction("accountStart", "worker")
  /\ Program[14] = Instruction("wait", "worker")
  /\ Program[15] = Instruction("accountStop", "worker")
  /\ Program[16] = Instruction("observeRunning", "egress")
  /\ Program[17] = Instruction("remove", "worker")
  /\ Program[18] = Instruction("observeRunning", "egress")
  /\ Program[19] = Instruction("stop", "egress")
  /\ Program[20] = Instruction("wait", "egress")
  /\ Program[21] = Instruction("accountStop", "egress")
  /\ Program[22] = Instruction("remove", "egress")
  /\ Program[23] = Instruction("checkOutput", "worker")
  /\ Program[24] = Instruction("prepareWorkspace", "verification")
  /\ Program[25] = Instruction("create", "verifier")
  /\ Program[26] = Instruction("start", "verifier")
  /\ Program[27] = Instruction("accountStart", "verifier")
  /\ Program[28] = Instruction("wait", "verifier")
  /\ Program[29] = Instruction("accountStop", "verifier")
  /\ Program[30] = Instruction("remove", "verifier")
  /\ Program[31] = Instruction("checkOutput", "verifier")
  /\ Program[32] = Instruction("finalize", "all")
  /\ Program[33] = Instruction("validate", "all")
BY DEF Program, Prepare, RunWorker, RunVerifier, RunContainer, SealContainer, Do, Instruction

LEMMA CleanupSteps ==
  /\ Len(CleanupProgram) = 10
  /\ CleanupProgram[1] = Instruction("beginCleanup", "all")
  /\ CleanupProgram[2] = Instruction("cleanUp", "verifier")
  /\ CleanupProgram[3] = Instruction("cleanUp", "worker")
  /\ CleanupProgram[4] = Instruction("cleanUp", "egress")
  /\ CleanupProgram[5] = Instruction("cleanUp", "outbound-network")
  /\ CleanupProgram[6] = Instruction("cleanUp", "worker-network")
  /\ CleanupProgram[7] = Instruction("cleanWorkspace", "all")
  /\ CleanupProgram[8] = Instruction("observeProcesses", "all")
  /\ CleanupProgram[9] = Instruction("completeCleanup", "all")
  /\ CleanupProgram[10] = Instruction("assertCleanup", "all")
BY DEF CleanupProgram, Do, Instruction

\* Where the program has an instruction.
LEMMA Places ==
  ASSUME life.step \in 1..33
  PROVE
  /\ At("prepareWorkspace", "repair") => life.step = 1
  /\ At("beginSession", "all") => life.step = 2
  /\ At("namesAbsent", "all") => life.step = 3
  /\ At("create", "worker-network") => life.step = 4
  /\ At("create", "outbound-network") => life.step = 5
  /\ At("create", "egress") => life.step = 6
  /\ At("connect", "egress") => life.step = 7
  /\ At("start", "egress") => life.step = 8
  /\ At("accountStart", "egress") => life.step = 9
  /\ At("create", "worker") => life.step = 10
  /\ At("observeRunning", "egress") => life.step \in {11, 16, 18}
  /\ At("start", "worker") => life.step = 12
  /\ At("accountStart", "worker") => life.step = 13
  /\ At("wait", "worker") => life.step = 14
  /\ At("accountStop", "worker") => life.step = 15
  /\ At("remove", "worker") => life.step = 17
  /\ At("stop", "egress") => life.step = 19
  /\ At("wait", "egress") => life.step = 20
  /\ At("accountStop", "egress") => life.step = 21
  /\ At("remove", "egress") => life.step = 22
  /\ At("checkOutput", "worker") => life.step = 23
  /\ At("prepareWorkspace", "verification") => life.step = 24
  /\ At("create", "verifier") => life.step = 25
  /\ At("start", "verifier") => life.step = 26
  /\ At("accountStart", "verifier") => life.step = 27
  /\ At("wait", "verifier") => life.step = 28
  /\ At("accountStop", "verifier") => life.step = 29
  /\ At("remove", "verifier") => life.step = 30
  /\ At("checkOutput", "verifier") => life.step = 31
  /\ At("finalize", "all") => life.step = 32
  /\ At("validate", "all") => life.step = 33
BY ProgramSteps DEF At, Instruction

-----------------------------------------------------------------------------
(***************************************************************************)
(* How a step of the run ends                                              *)
(***************************************************************************)
LEMMA GapIsBoolean ==
  ASSUME LifeTypes, ObserveGap PROVE gap' \in BOOLEAN
BY DEF LifeTypes, ObserveGap

\* A run that has failed owes only what the driver knows.
LEMMA FailedFits ==
  ASSUME LifecycleInv, life.phase = "running", ToCleanup(TRUE), ObserveGap,
         aborted' \in BOOLEAN, faults' \in Nat, runs' = runs, DriverFits'
  PROVE  LifecycleInv'
<1>1. /\ life' \in Life /\ life'.phase = "cleanup" /\ life'.step = 1 /\ life'.failed
      /\ life'.result = "none" /\ ~life'.poisoned
  <2>1. life \in Life /\ life.result = "none" /\ ~life.poisoned
    BY DEF LifecycleInv, LifeTypes
  <2>2. life' = [life EXCEPT !.phase = "cleanup", !.step = 1, !.failed = TRUE]
    BY DEF ToCleanup
  <2>3. life' = [phase |-> "cleanup", poisoned |-> life.poisoned, step |-> 1, failed |-> TRUE,
                 proved |-> life.proved, cpuStarted |-> life.cpuStarted, result |-> "none"]
    BY <2>1, <2>2 DEF Life
  <2> QED
    BY <2>1, <2>3 DEF Life
<1>2. LifeTypes'
  BY <1>1, GapIsBoolean DEF LifeTypes, LifecycleInv
<1>3. RunFits' /\ CleanupFits' /\ IdleFits'
  BY <1>1 DEF RunFits, CleanupFits, IdleFits
<1> QED
  BY <1>2, <1>3 DEF LifecycleInv

LEMMA ReturnedFits ==
  ASSUME LifecycleInv, life.phase = "running", life.step # 33, Returns, ObserveGap,
         DriverFits', RunFits'
  PROVE  LifecycleInv'
<1>1. /\ life' \in Life /\ life'.phase = "running"
      /\ life'.result = "none" /\ ~life'.poisoned
  <2>1. life \in Life /\ life.result = "none" /\ ~life.poisoned
    BY DEF LifecycleInv, LifeTypes
  <2>2. life.step \in 1..32 /\ Len(Program) = 33
    BY <2>1, ProgramSteps DEF Life
  <2>3. life' = [life EXCEPT !.step = @ + 1]
    BY <2>2 DEF Returns, ToCleanup
  <2> QED
    BY <2>1, <2>2, <2>3 DEF Life
<1>2. LifeTypes'
  BY <1>1, GapIsBoolean DEF LifeTypes, LifecycleInv, Returns
<1>3. CleanupFits' /\ IdleFits'
  BY <1>1 DEF CleanupFits, IdleFits
<1> QED
  BY <1>2, <1>3 DEF LifecycleInv

LEMMA RunningFits ==
  ASSUME LifecycleInv, life.phase = "running" PROVE DriverFits
BY DEF LifecycleInv

LEMMA DriverFitsStays ==
  ASSUME DriverFits, UNCHANGED driverVars PROVE DriverFits'
BY DEF DriverFits, driverVars, DriverTypes, LedgerFits, VerifierLast, HandleKnows, Settled,
       Aggregate

LEMMA NextStep ==
  ASSUME LifecycleInv, life.phase = "running", life.step # 33, Returns
  PROVE  /\ life'.step = life.step + 1 /\ life'.phase = "running" /\ life'.proved = life.proved
         /\ life.step \in 1..33 /\ UNCHANGED <<aborted, faults, runs>>
<1>1. life \in Life /\ life.step \in 1..33
  BY DEF LifecycleInv, LifeTypes, Life
<1>2. Len(Program) = 33
  BY ProgramSteps
<1>3. life.step \in 1..32 /\ life' = [life EXCEPT !.step = @ + 1]
  BY <1>1, <1>2 DEF Returns, ToCleanup
<1> QED
  BY <1>1, <1>3 DEF Returns, Life

\* A step that fails changes the counters like this.
LEMMA Counters ==
  ASSUME LifecycleInv
  PROVE  /\ Throws => ToCleanup(TRUE) /\ aborted' \in BOOLEAN /\ faults' \in Nat /\ runs' = runs
         /\ Refused => ToCleanup(TRUE) /\ aborted' \in BOOLEAN /\ faults' \in Nat /\ runs' = runs
<1>1. aborted \in BOOLEAN /\ faults \in Nat
  BY DEF LifecycleInv, LifeTypes
<1>2. ASSUME Throws PROVE aborted' \in BOOLEAN /\ faults' \in Nat
  BY <1>1, <1>2 DEF Throws, Fault
<1>3. ASSUME Refused PROVE aborted' \in BOOLEAN /\ faults' \in Nat
  BY <1>1, <1>3 DEF Refused
<1> QED
  BY <1>2, <1>3 DEF Throws, Refused

LEMMA CheckFits ==
  ASSUME LifecycleInv, NEW op, NEW x, Check(op, x), ObserveGap,
         <<op, x>> \in {<<"namesAbsent", "all">>, <<"connect", "egress">>,
                        <<"checkOutput", "worker">>, <<"checkOutput", "verifier">>}
  PROVE  LifecycleInv'
<1>1. life.phase = "running" /\ UNCHANGED driverVars /\ DriverFits'
  BY RunningFits, DriverFitsStays DEF Check, At
<1>2. ASSUME Returns PROVE LifecycleInv'
  <2>1. life.step \in {3, 7, 23, 31}
    BY Places DEF Check, LifecycleInv, LifeTypes, Life
  <2>2. RunFits'
    <3>1. /\ life'.step = life.step + 1 /\ life'.phase = "running" /\ life'.proved = life.proved
      BY <1>1, <1>2, <2>1, NextStep
    <3>2. gap \in BOOLEAN /\ gap' \in BOOLEAN
      BY GapIsBoolean DEF LifecycleInv, LifeTypes
    <3>3. RunFits
      BY DEF LifecycleInv
    <3>4. gap' = FALSE
      BY <1>1, <2>1, <3>2, <3>3 DEF RunFits, driverVars, ObserveGap
    <3> QED
      BY <1>1, <2>1, <3>1, <3>3, <3>4 DEF RunFits, driverVars
  <2> QED
    BY <1>1, <1>2, <2>1, <2>2, ReturnedFits
<1>3. ASSUME Throws \/ Refused PROVE LifecycleInv'
  BY <1>1, <1>3, Counters, FailedFits
<1> QED
  BY <1>2, <1>3 DEF Check
-----------------------------------------------------------------------------
(***************************************************************************)
(* What a step of the driver leaves of DriverFits                          *)
(***************************************************************************)
LEMMA LedgerStays ==
  ASSUME LedgerFits, UNCHANGED ledger PROVE LedgerFits'
BY DEF LedgerFits, Aggregate

LEMMA DaemonStays ==
  ASSUME VerifierLast, UNCHANGED <<box, late>>
  PROVE  VerifierLast' /\ \A x : Settled(x) <=> Settled(x)'
BY DEF VerifierLast, Settled

\* A session is begun, a role is accounted, the proof is there, a call is given up.
LEMMA HandleTypes ==
  ASSUME handle \in Handle
  PROVE  /\ [handle EXCEPT !.session = TRUE] \in Handle
         /\ [handle EXCEPT !.proof = TRUE] \in Handle
         /\ [handle EXCEPT !.breached = TRUE] \in Handle
         /\ \A x \in Resources : [handle EXCEPT !.owned = @ \cup {x}] \in Handle
         /\ \A x \in Resources : [handle EXCEPT !.ambiguous = @ \cup {x}] \in Handle
         /\ \A r \in Roles : [handle EXCEPT !.removed = @ \cup {r}] \in Handle
         /\ \A r \in Roles : [handle EXCEPT !.observed = @ \cup {r}] \in Handle
         /\ \A r \in Roles : [handle EXCEPT !.accounted = @ \cup {r}] \in Handle
BY DEF Handle

\* The handle keeps what it owns and what it cannot tell.
SameResources(h) == h.owned = handle.owned /\ h.ambiguous = handle.ambiguous

LEMMA AccountingFits ==
  ASSUME DriverFits, UNCHANGED <<box, late>>, disk' \in SUBSET Workspaces,
         stray' \in BOOLEAN, handle' \in Handle, SameResources(handle'),
         stray' => handle'.breached, ledger' \in Ledger, LedgerFits'
  PROVE  DriverFits'
<1>1. DriverTypes'
  BY DEF DriverFits, DriverTypes
<1>2. VerifierLast' /\ \A x : Settled(x) <=> Settled(x)'
  BY DaemonStays DEF DriverFits
<1>3. HandleKnows'
  BY <1>2 DEF DriverFits, HandleKnows, SameResources
<1> QED
  BY <1>1, <1>2, <1>3 DEF DriverFits

\* A call that was given up leaves the ledger as it was or as the call would have.
LEMMA BreachedFits ==
  ASSUME DriverFits, NEW call, NEW other, Breached(call, other),
         ledger' \in Ledger, LedgerFits'
  PROVE  DriverFits' /\ UNCHANGED <<box, late, disk>> /\ handle' = [handle EXCEPT !.breached = TRUE]
<1>1. /\ UNCHANGED <<box, late, disk>> /\ stray' = TRUE
      /\ handle' = [handle EXCEPT !.breached = TRUE] /\ handle \in Handle
      /\ disk \in SUBSET Workspaces
  BY DEF Breached, DriverFits, DriverTypes
<1>2. handle' \in Handle
  BY <1>1, HandleTypes
<1>3. SameResources(handle') /\ handle'.breached
  BY <1>1 DEF SameResources, Handle
<1> QED
  BY <1>1, <1>2, <1>3, AccountingFits

\* Where a step of the run leaves the daemon alone.
LEMMA GapWhenQuiet ==
  ASSUME LifecycleInv, life.phase = "running", ObserveGap, UNCHANGED box
  PROVE  /\ gap' \in BOOLEAN
         /\ life.step \notin 13..16 => gap' = FALSE
         /\ gap' => box["egress"] # "running"
<1>1. gap \in BOOLEAN /\ gap' \in BOOLEAN /\ life.step \in 1..33
  BY GapIsBoolean DEF LifecycleInv, LifeTypes, Life
<1>2. RunFits
  BY DEF LifecycleInv
<1> QED
  BY <1>1, <1>2 DEF RunFits, ObserveGap

\* A step that returns and leaves the daemon and what was removed alone.
LEMMA QuietReturnFits ==
  ASSUME LifecycleInv, life.phase = "running", Returns, ObserveGap, DriverFits',
         life.step \notin {10, 16, 17, 22, 25, 30, 32, 33, 6, 12, 14},
         UNCHANGED <<box, late>>, SameResources(handle'),
         handle'.removed = handle.removed, handle'.breached = handle.breached
  PROVE  LifecycleInv'
<1>1. /\ life'.step = life.step + 1 /\ life'.phase = "running" /\ life'.proved = life.proved
      /\ life.step \in 1..33
  BY NextStep
<1>2. RunFits
  BY DEF LifecycleInv
<1>3. RunFits'
  <2>1. /\ late' = {} /\ handle'.ambiguous = {} /\ ~handle'.breached /\ life'.proved
    BY <1>1, <1>2 DEF RunFits, SameResources
  <2>2. gap' => life'.step \in 13..16 /\ box'["egress"] # "running"
    BY <1>1, GapWhenQuiet
  <2>3. /\ life'.step <= 25 => box'["verifier"] = "absent"
        /\ life'.step <= 12 => box'["worker"] \in {"absent", "created"}
        /\ life'.step \in 15..17 => box'["worker"] # "running"
        /\ life'.step > 17 => box'["worker"] = "absent" /\ "worker" \in handle'.removed
        /\ life'.step > 22 => box'["egress"] = "absent" /\ "egress" \in handle'.removed
        /\ life'.step > 30 => "verifier" \in handle'.removed
        /\ life'.step > 6 => "egress" \in handle'.owned
        /\ life'.step > 10 => "worker" \in handle'.owned
        /\ life'.step > 25 => "verifier" \in handle'.owned
        /\ life'.step # 33
    BY <1>1, <1>2 DEF RunFits, SameResources
  <2> QED
    BY <2>1, <2>2, <2>3 DEF RunFits
<1> QED
  BY <1>3, ReturnedFits

LEMMA PrepareWorkspaceFits ==
  ASSUME LifecycleInv, NEW w \in Workspaces, PrepareWorkspace(w), ObserveGap
  PROVE  LifecycleInv'
<1>1. /\ life.phase = "running" /\ UNCHANGED <<box, late, stray, handle, ledger>>
      /\ disk' \in SUBSET Workspaces /\ DriverFits
  BY RunningFits DEF PrepareWorkspace, At, DriverFits, DriverTypes
<1>2. DriverFits'
  BY <1>1, AccountingFits, LedgerStays DEF DriverFits, DriverTypes, SameResources, HandleKnows
<1>3. ASSUME Returns PROVE LifecycleInv'
  <2>1. life.step \in {1, 24}
    BY Places DEF PrepareWorkspace, LifecycleInv, LifeTypes, Life, Workspaces
  <2> QED
    BY <1>1, <1>2, <1>3, <2>1, QuietReturnFits DEF SameResources
<1>4. ASSUME Throws \/ Refused PROVE LifecycleInv'
  BY <1>1, <1>2, <1>4, Counters, FailedFits
<1> QED
  BY <1>3, <1>4 DEF PrepareWorkspace

LEMMA BeginCpuSessionFits ==
  ASSUME LifecycleInv, BeginCpuSession, ObserveGap
  PROVE  LifecycleInv'
<1>1. life.phase = "running" /\ DriverFits /\ handle \in Handle /\ ledger \in Ledger /\ LedgerFits
  BY RunningFits DEF BeginCpuSession, At, DriverFits, DriverTypes
<1>2. ASSUME BeginSession, Returns PROVE LifecycleInv'
  <2>1. /\ handle' \in Handle /\ SameResources(handle')
        /\ handle'.removed = handle.removed /\ handle'.breached = handle.breached
    BY <1>1, <1>2, HandleTypes DEF BeginSession, Handle, SameResources
  <2>2. DriverFits'
    BY <1>1, <1>2, <2>1, AccountingFits, LedgerStays
    DEF BeginSession, DriverFits, DriverTypes, HandleKnows
  <2>3. life.step = 2
    BY Places DEF BeginCpuSession, LifecycleInv, LifeTypes, Life
  <2> QED
    BY <1>1, <1>2, <2>1, <2>2, <2>3, QuietReturnFits DEF BeginSession
<1>3. ASSUME UNCHANGED driverVars, Throws \/ Refused PROVE LifecycleInv'
  BY <1>1, <1>3, DriverFitsStays, Counters, FailedFits
<1>4. ASSUME Breached(UNCHANGED ledger, FALSE), Throws PROVE LifecycleInv'
  <2>1. UNCHANGED ledger
    BY <1>4 DEF Breached
  <2> QED
    BY <1>1, <1>4, <2>1, LedgerStays, BreachedFits, Counters, FailedFits
<1> QED
  BY <1>2, <1>3, <1>4 DEF BeginCpuSession
-----------------------------------------------------------------------------
(***************************************************************************)
(* Steps that touch one resource                                           *)
(***************************************************************************)
BoxState == {"absent", "created", "running", "exited"}

\* Only x changes, and only commands for x come.
Touches(x) ==
  /\ box' \in [Resources -> BoxState] /\ late' \in SUBSET Command
  /\ \A y \in Resources \ {x} : box'[y] = box[y]
  /\ \A c \in late' : c \in late \/ c.on = x
  /\ UNCHANGED <<disk, stray, ledger>>

\* The verifier may be made when the worker and the proxy are gone for good.
MayAppear(x) ==
  /\ x = "verifier" => Settled("worker") /\ Settled("egress")
  /\ x \in {"worker", "egress"} => Settled("verifier")

StaysSettled(x) == Settled(x) => Settled(x)'

LEMMA OthersStaySettled ==
  ASSUME NEW x \in Resources, Touches(x), NEW y \in Resources \ {x}, Settled(y)
  PROVE  Settled(y)'
BY DEF Touches, Settled

LEMMA TouchFits ==
  ASSUME DriverFits, NEW x \in Resources, Touches(x), handle' \in Handle,
         handle.owned \subseteq handle'.owned, handle.ambiguous \subseteq handle'.ambiguous,
         handle'.breached = handle.breached,
         MayAppear(x) \/ StaysSettled(x),
         x \in handle'.owned \cup handle'.ambiguous \/ StaysSettled(x),
         \A c \in late' \ late : c.cmd = "create" => x \in handle'.ambiguous
  PROVE  DriverFits'
<1>1. DriverTypes'
  BY DEF DriverFits, DriverTypes, Touches, BoxState
<1>2. LedgerFits'
  BY LedgerStays DEF DriverFits, Touches
<1>3. VerifierLast'
  <2>1. {"verifier", "worker", "egress"} \subseteq Resources /\ VerifierLast
    BY ResourcesAre DEF DriverFits
  <2>2. CASE x \notin {"verifier", "worker", "egress"} \/ StaysSettled(x)
    BY <2>1, <2>2, OthersStaySettled DEF VerifierLast, StaysSettled
  <2>3. CASE MayAppear(x) /\ x \in {"verifier", "worker", "egress"}
    BY <2>1, <2>3, OthersStaySettled DEF VerifierLast, MayAppear
  <2> QED
    BY <2>2, <2>3
<1>4. HandleKnows'
  <2>1. HandleKnows
    BY DEF DriverFits
  <2>2. \A y \in Resources : y \notin handle'.owned \cup handle'.ambiguous => Settled(y)'
    BY <2>1, OthersStaySettled DEF HandleKnows, StaysSettled
  <2>3. \A c \in late' : c.cmd = "create" => c.on \in handle'.ambiguous
    BY <2>1 DEF HandleKnows, Touches
  <2>4. stray' => handle'.breached
    BY <2>1 DEF HandleKnows, Touches
  <2> QED
    BY <2>2, <2>3, <2>4 DEF HandleKnows
<1> QED
  BY <1>1, <1>2, <1>3, <1>4 DEF DriverFits

\* During the run nothing is late and nothing is unclear.
LEMMA RunKnows ==
  ASSUME LifecycleInv, life.phase = "running"
  PROVE  /\ DriverFits /\ late = {} /\ handle.ambiguous = {} /\ ~handle.breached /\ life.proved
         /\ \A x \in Resources : Settled(x) <=> box[x] = "absent"
         /\ life.step \in 1..33
<1>1. RunFits /\ life \in Life
  BY DEF LifecycleInv, LifeTypes
<1> QED
  BY <1>1, RunningFits DEF RunFits, Settled, Life

LEMMA CommandTypes ==
  /\ \A x \in Resources : Late("create", x) \in Command /\ Late("start", x) \in Command
  /\ \A x, y : Late("create", x) # Late("start", y)
  /\ \A x : Late("create", x).on = x /\ Late("create", x).cmd = "create"
  /\ \A x : Late("start", x).on = x /\ Late("start", x).cmd = "start"
BY DEF Late, Command

LEMMA CreateResourceFits ==
  ASSUME LifecycleInv, NEW x \in Resources, CreateResource(x), ObserveGap
  PROVE  LifecycleInv'
<1>1. /\ life.phase = "running" /\ DriverFits /\ late = {} /\ handle \in Handle
      /\ box \in [Resources -> BoxState] /\ late \in SUBSET Command
  BY RunKnows DEF CreateResource, At, DriverFits, DriverTypes, BoxState
<1>2. /\ life.step \in {4, 5, 6, 10, 25}
      /\ x = "worker-network" => life.step = 4
      /\ x = "outbound-network" => life.step = 5
      /\ x = "egress" => life.step = 6
      /\ x = "worker" => life.step = 10
      /\ x = "verifier" => life.step = 25
  BY <1>1, Places, ResourcesAre, RunKnows DEF CreateResource
<1>3. MayAppear(x)
  BY <1>1, <1>2, RunKnows, ResourcesAre DEF MayAppear, LifecycleInv, RunFits
<1>4. ASSUME Create(x) PROVE DriverFits'
  <2>1. handle' \in Handle /\ handle'.owned = handle.owned \cup {x}
        /\ handle'.ambiguous = handle.ambiguous /\ handle'.breached = handle.breached
    BY <1>1, <1>4, HandleTypes DEF Create, Handle
  <2>2. Touches(x)
    BY <1>1, <1>4 DEF Create, Touches, BoxState
  <2> QED
    BY <1>1, <1>3, <1>4, <2>1, <2>2, TouchFits DEF Create
<1>5. ASSUME CreateAmbiguous(x) \/ CreateRefused(x) PROVE DriverFits'
  <2>1. handle' = [handle EXCEPT !.ambiguous = @ \cup {x}] /\ UNCHANGED <<disk, stray, ledger>>
    BY <1>5 DEF CreateAmbiguous, CreateRefused
  <2>2. handle' \in Handle /\ handle'.owned = handle.owned
        /\ handle'.ambiguous = handle.ambiguous \cup {x} /\ handle'.breached = handle.breached
    BY <1>1, <2>1, HandleTypes DEF Handle
  <2>3. /\ box' \in {box, [box EXCEPT ![x] = "created"]}
        /\ late' \in {late, late \cup {Late("create", x)}}
    BY <1>5 DEF CreateAmbiguous, CreateRefused
  <2>4. Touches(x)
    BY <1>1, <2>1, <2>3, CommandTypes DEF Touches, BoxState
  <2> QED
    BY <1>1, <1>3, <2>2, <2>4, TouchFits
<1>6. ASSUME Create(x), Returns PROVE LifecycleInv'
  <2>1. DriverFits'
    BY <1>4, <1>6
  <2>2. /\ life'.step = life.step + 1 /\ life'.phase = "running" /\ life'.proved = life.proved
    BY <1>1, <1>2, <1>6, NextStep
  <2>3. /\ late' = {} /\ box' = [box EXCEPT ![x] = "created"] /\ box'["worker"] # "running"
        /\ handle'.owned = handle.owned \cup {x} /\ handle'.ambiguous = handle.ambiguous
        /\ handle'.breached = handle.breached /\ handle'.removed = handle.removed
    BY <1>1, <1>2, <1>6, ResourcesAre DEF Create, Handle, LifecycleInv, RunFits
  <2>4. gap' = FALSE
    <3>1. gap \in BOOLEAN /\ RunFits
      BY DEF LifecycleInv, LifeTypes
    <3> QED
      BY <1>1, <1>2, <2>3, <3>1 DEF RunFits, ObserveGap
  <2>5. RunFits'
    <3>1. RunFits
      BY DEF LifecycleInv
    <3> QED
      BY <1>1, <1>2, <2>2, <2>3, <2>4, <3>1, ResourcesAre DEF RunFits
  <2> QED
    BY <1>1, <1>2, <1>6, <2>1, <2>5, ReturnedFits
<1>7. ASSUME CreateFails(x), Throws PROVE LifecycleInv'
  BY <1>1, <1>4, <1>5, <1>7, Counters, FailedFits DEF CreateFails
<1>8. ASSUME CreateRefused(x), Refused PROVE LifecycleInv'
  BY <1>1, <1>5, <1>8, Counters, FailedFits
<1> QED
  BY <1>6, <1>7, <1>8 DEF CreateResource
LEMMA MayStart ==
  ASSUME LifecycleInv, NEW r \in Roles, At("start", r)
  PROVE  /\ MayAppear(r) /\ r \in handle.owned
         /\ r = "egress" => life.step = 8
         /\ r = "worker" => life.step = 12
         /\ r = "verifier" => life.step = 26
<1>1. /\ life.phase = "running"
      /\ r = "egress" => life.step = 8
      /\ r = "worker" => life.step = 12
      /\ r = "verifier" => life.step = 26
  BY Places, RunKnows DEF At
<1>2. RunFits /\ late = {}
  BY <1>1, RunKnows DEF LifecycleInv
<1> QED
  BY <1>1, <1>2, RolesAre DEF RunFits, MayAppear, Settled

LEMMA StartContainerFits ==
  ASSUME LifecycleInv, NEW r \in Roles, StartContainer(r), ObserveGap
  PROVE  LifecycleInv'
<1>1. /\ life.phase = "running" /\ DriverFits /\ late = {} /\ handle \in Handle
      /\ box \in [Resources -> BoxState] /\ late \in SUBSET Command /\ r \in Resources
  BY RunKnows DEF StartContainer, At, DriverFits, DriverTypes, BoxState, Resources
<1>2. /\ MayAppear(r) /\ r \in handle.owned
      /\ r = "egress" => life.step = 8
      /\ r = "worker" => life.step = 12
      /\ r = "verifier" => life.step = 26
  BY MayStart DEF StartContainer
<1>3. ASSUME Start(r), Returns PROVE LifecycleInv'
  <2>1. /\ handle' \in Handle /\ handle'.owned = handle.owned /\ handle'.removed = handle.removed
        /\ handle'.ambiguous = handle.ambiguous /\ handle'.breached = handle.breached
    BY <1>1, <1>3, HandleTypes DEF Start, Handle
  <2>2. Touches(r)
    BY <1>1, <1>3 DEF Start, Touches, BoxState
  <2>3. DriverFits'
    BY <1>1, <1>2, <1>3, <2>1, <2>2, TouchFits DEF Start
  <2>4. /\ life'.step = life.step + 1 /\ life'.phase = "running" /\ life'.proved = life.proved
    BY <1>1, <1>2, <1>3, NextStep, RolesAre
  <2>5. /\ late' = {} /\ box' = [box EXCEPT ![r] = "running"]
        /\ RunFits /\ gap \in BOOLEAN /\ gap' \in BOOLEAN
    BY <1>1, <1>3, GapIsBoolean DEF Start, LifecycleInv, LifeTypes
  <2>6. gap' => r = "worker" /\ box'["egress"] # "running"
    BY <1>1, <1>2, <2>5, RolesAre, ResourcesAre DEF RunFits, ObserveGap
  <2>7. RunFits'
    BY <1>1, <1>2, <2>1, <2>4, <2>5, <2>6, RolesAre, ResourcesAre DEF RunFits
  <2> QED
    BY <1>1, <1>2, <1>3, <2>3, <2>7, ReturnedFits, RolesAre
<1>4. ASSUME StartFails(r), Throws PROVE LifecycleInv'
  <2>1. /\ box' \in {box, [box EXCEPT ![r] = "running"], [box EXCEPT ![r] = "exited"]}
        /\ late' \in {late, late \cup {Late("start", r)}} /\ UNCHANGED <<disk, stray, ledger>>
        /\ UNCHANGED handle
    BY <1>4 DEF StartFails, daemonVars
  <2>2. Touches(r)
    BY <1>1, <2>1, CommandTypes DEF Touches, BoxState
  <2>3. \A c \in late' \ late : c.cmd # "create"
    BY <2>1, CommandTypes
  <2>4. DriverFits'
    BY <1>1, <1>2, <2>1, <2>2, <2>3, TouchFits
  <2> QED
    BY <1>1, <1>4, <2>4, Counters, FailedFits
<1>5. ASSUME UNCHANGED driverVars, Refused PROVE LifecycleInv'
  BY <1>1, <1>5, DriverFitsStays, Counters, FailedFits
<1> QED
  BY <1>3, <1>4, <1>5 DEF StartContainer

\* Steps that change the daemon, return, and leave the worker as it is or take it away.
LEMMA ReturnWithoutGap ==
  ASSUME LifecycleInv, life.phase = "running", ObserveGap,
         life.step \notin 13..16, life.step # 12, box'["worker"] \in {box["worker"], "absent"}
  PROVE  gap' = FALSE
<1>1. RunFits /\ gap \in BOOLEAN /\ life.step \in 1..33
  BY DEF LifecycleInv, LifeTypes, Life
<1> QED
  BY <1>1 DEF RunFits, ObserveGap

LEMMA StopEgressFits ==
  ASSUME LifecycleInv, StopEgress, ObserveGap
  PROVE  LifecycleInv'
<1>1. /\ life.phase = "running" /\ DriverFits /\ late = {} /\ handle \in Handle
      /\ box \in [Resources -> BoxState] /\ late \in SUBSET Command /\ "egress" \in Resources
  BY RunKnows, ResourcesAre DEF StopEgress, At, DriverFits, DriverTypes, BoxState
<1>2. life.step = 19
  BY <1>1, Places, RunKnows DEF StopEgress
<1>3. ASSUME box' \in {box, Stopped("egress")}, UNCHANGED <<late, disk, stray, handle, ledger>>
      PROVE  /\ DriverFits' /\ \A y \in Resources : y # "egress" => box'[y] = box[y]
             /\ box["egress"] = "absent" => box'["egress"] = "absent"
  <2>1. Touches("egress") /\ StaysSettled("egress")
    BY <1>1, <1>3 DEF Touches, BoxState, Stopped, StaysSettled, Settled
  <2> QED
    BY <1>1, <1>3, <2>1, TouchFits DEF Touches, Stopped
<1>4. ASSUME Stop("egress"), Returns PROVE LifecycleInv'
  <2>1. DriverFits' /\ \A y \in Resources : y # "egress" => box'[y] = box[y]
    BY <1>3, <1>4 DEF Stop
  <2>2. /\ life'.step = 20 /\ life'.phase = "running" /\ life'.proved = life.proved
    BY <1>1, <1>2, <1>4, NextStep
  <2>3. gap' = FALSE
    <3>1. box'["worker"] \in {box["worker"], "absent"}
      BY <2>1, ResourcesAre
    <3>2. life.step \notin 13..16 /\ life.step # 12
      BY <1>2
    <3> QED
      BY <1>1, <3>1, <3>2, ReturnWithoutGap
  <2>4. RunFits'
    BY <1>1, <1>2, <1>4, <2>1, <2>2, <2>3, ResourcesAre DEF RunFits, LifecycleInv, Stop
  <2> QED
    BY <1>1, <1>2, <1>4, <2>1, <2>4, ReturnedFits
<1>5. ASSUME StopFails("egress"), Throws PROVE LifecycleInv'
  BY <1>1, <1>3, <1>5, Counters, FailedFits DEF StopFails
<1>6. ASSUME UNCHANGED driverVars, Refused PROVE LifecycleInv'
  BY <1>1, <1>6, DriverFitsStays, Counters, FailedFits
<1> QED
  BY <1>4, <1>5, <1>6 DEF StopEgress

LEMMA RemoveContainerFits ==
  ASSUME LifecycleInv, NEW r \in Roles, RemoveContainer(r), ObserveGap
  PROVE  LifecycleInv'
<1>1. /\ life.phase = "running" /\ DriverFits /\ late = {} /\ handle \in Handle
      /\ box \in [Resources -> BoxState] /\ late \in SUBSET Command /\ r \in Resources
  BY RunKnows DEF RemoveContainer, At, DriverFits, DriverTypes, BoxState, Resources
<1>2. /\ r = "worker" => life.step = 17
      /\ r = "egress" => life.step = 22
      /\ r = "verifier" => life.step = 30
  BY <1>1, Places, RunKnows DEF RemoveContainer
<1>3. ASSUME box' \in {box, [box EXCEPT ![r] = "absent"]}, late' \subseteq late,
             UNCHANGED <<disk, stray, ledger>>, handle' \in Handle,
             SameResources(handle'), handle'.breached = handle.breached
      PROVE  DriverFits'
  <2>1. Touches(r) /\ StaysSettled(r)
    BY <1>1, <1>3 DEF Touches, BoxState, StaysSettled, Settled
  <2> QED
    BY <1>1, <1>3, <2>1, TouchFits DEF SameResources
<1>4. ASSUME RemoveRole(r), Returns PROVE LifecycleInv'
  <2>1. /\ handle' \in Handle /\ SameResources(handle') /\ handle'.breached = handle.breached
        /\ handle'.removed = handle.removed \cup {r}
    BY <1>1, <1>4, HandleTypes DEF RemoveRole, Handle, SameResources
  <2>2. DriverFits'
    BY <1>1, <1>3, <1>4, <2>1 DEF RemoveRole, Gone
  <2>3. /\ life'.step = life.step + 1 /\ life'.phase = "running" /\ life'.proved = life.proved
    BY <1>1, <1>2, <1>4, NextStep, RolesAre
  <2>4. /\ box' = [box EXCEPT ![r] = "absent"] /\ late' = {}
    BY <1>1, <1>4 DEF RemoveRole, Gone
  <2>5. gap' = FALSE
    <3>1. box'["worker"] \in {box["worker"], "absent"}
      BY <1>1, <2>4, ResourcesAre
    <3>2. life.step \notin 13..16 /\ life.step # 12
      BY <1>2, RolesAre
    <3> QED
      BY <1>1, <3>1, <3>2, ReturnWithoutGap
  <2>6. RunFits'
    BY <1>1, <1>2, <2>1, <2>3, <2>4, <2>5, RolesAre, ResourcesAre
    DEF RunFits, LifecycleInv, SameResources
  <2> QED
    BY <1>1, <1>2, <1>4, <2>2, <2>6, ReturnedFits, RolesAre
<1>5. ASSUME RemoveRoleFails(r), Throws PROVE LifecycleInv'
  BY <1>1, <1>3, <1>5, Counters, FailedFits
  DEF RemoveRoleFails, daemonVars, Gone, SameResources
<1>6. ASSUME UNCHANGED driverVars, Refused PROVE LifecycleInv'
  BY <1>1, <1>6, DriverFitsStays, Counters, FailedFits
<1> QED
  BY <1>4, <1>5, <1>6 DEF RemoveContainer
-----------------------------------------------------------------------------
(***************************************************************************)
(* The ledger of the run                                                   *)
(***************************************************************************)
LEMMA UsageTypes == Usage \subseteq Nat
BY BudgetAssumption DEF Usage

LEMMA RoleStartedFits ==
  ASSUME ledger \in Ledger, LedgerFits, NEW r \in Roles, RoleStarted(r)
  PROVE  ledger' \in Ledger /\ LedgerFits'
<1>1. /\ ledger' = [ledger EXCEPT !.begun = @ + 1] /\ ledger.begun + 1 \in 0..3
  <2>1. Len(RoleOrder) = 3
    BY DEF RoleOrder
  <2> QED
    BY <2>1 DEF RoleStarted, MayBeginRole, Ledger
<1> QED
  BY <1>1 DEF Ledger, LedgerFits, Aggregate

LEMMA PoisonFits ==
  ASSUME ledger \in Ledger, LedgerFits, Poison
  PROVE  ledger' \in Ledger /\ LedgerFits'
<1>1. CASE ledger.finalized
  <2>1. ledger' = [ledger EXCEPT !.failed = FALSE]
    BY <1>1 DEF Poison, Poisoned, Ledger
  <2> QED
    BY <1>1, <2>1 DEF Ledger, LedgerFits, Aggregate
<1>2. CASE ~ledger.finalized
  <2>1. ledger' = [ledger EXCEPT !.failed = TRUE]
    BY <1>2 DEF Poison, Poisoned, Ledger
  <2> QED
    BY <1>2, <2>1 DEF Ledger, LedgerFits
<1> QED
  BY <1>1, <1>2

LEMMA RoleStoppedFits ==
  ASSUME ledger \in Ledger, LedgerFits, NEW r \in Roles, NEW used \in Usage,
         RoleStopped(r, used)
  PROVE  ledger' \in Ledger /\ LedgerFits'
<1> DEFINE u == [ledger.usage EXCEPT ![r] = used]
<1>1. u \in [Roles -> Nat] /\ Aggregate(u) <= Budget /\ ~ledger.finalized
  BY UsageTypes DEF RoleStopped, MayFinishRole, Mutable, Ledger
<1>2. ledger' = [ledger EXCEPT !.usage = u, !.sealed = @ \cup {r}]
  BY DEF RoleStopped, Ledger
<1> HIDE DEF u
<1>3. /\ ledger'.usage = u /\ ledger'.finalized = ledger.finalized
      /\ ledger' = [begun |-> ledger.begun, sealed |-> ledger.sealed \cup {r}, usage |-> u,
                    failed |-> ledger.failed, finalized |-> ledger.finalized,
                    cleanup |-> ledger.cleanup]
  BY <1>2 DEF Ledger
<1>4. ledger' \in Ledger
  BY <1>1, <1>3 DEF Ledger
<1> QED
  BY <1>1, <1>3, <1>4 DEF LedgerFits

LEMMA RoleStoppedThrowsFits ==
  ASSUME ledger \in Ledger, LedgerFits, NEW r \in Roles, NEW used \in Usage,
         RoleStoppedThrows(r, used)
  PROVE  ledger' \in Ledger /\ LedgerFits'
<1>1. CASE Mutable /\ r \in Begun \ ledger.sealed
  <2> DEFINE u == [ledger.usage EXCEPT ![r] = used]
  <2>1. u \in [Roles -> Nat] /\ ~ledger.finalized
    BY <1>1, UsageTypes DEF Mutable, Ledger
  <2>2. ledger' = Poisoned([ledger EXCEPT !.usage[r] = used])
    BY <1>1 DEF RoleStoppedThrows
  <2>3. [ledger EXCEPT !.usage[r] = used] = [ledger EXCEPT !.usage = u]
    BY DEF Ledger
  <2> HIDE DEF u
  <2>4. ~[ledger EXCEPT !.usage = u].finalized
    BY <2>1 DEF Ledger
  <2>5. ledger' = [[ledger EXCEPT !.usage = u] EXCEPT !.failed = TRUE]
    BY <2>2, <2>3, <2>4 DEF Poisoned
  <2>6. ledger' = [begun |-> ledger.begun, sealed |-> ledger.sealed, usage |-> u,
                   failed |-> TRUE, finalized |-> ledger.finalized, cleanup |-> ledger.cleanup]
    BY <2>5 DEF Ledger
  <2> QED
    BY <2>1, <2>6 DEF Ledger, LedgerFits
<1>2. CASE ~(Mutable /\ r \in Begun \ ledger.sealed)
  BY <1>2, PoisonFits DEF RoleStoppedThrows, Poison
<1> QED
  BY <1>1, <1>2

LEMMA FinalizeFits ==
  ASSUME ledger \in Ledger, LedgerFits, Finalize
  PROVE  ledger' \in Ledger /\ LedgerFits' /\ ledger'.finalized
<1>1. /\ ledger' = [ledger EXCEPT !.finalized = TRUE] /\ ~ledger.failed /\ ledger.sealed = Roles
  BY DEF Finalize, MayFinalize, Mutable
<1> QED
  BY <1>1 DEF Ledger, LedgerFits, Aggregate

LEMMA LedgerCleanupFits ==
  ASSUME ledger \in Ledger, LedgerFits, BeginCleanup \/ CompleteCleanup
  PROVE  ledger' \in Ledger /\ LedgerFits' /\ ledger'.finalized = ledger.finalized
<1>1. PICK c \in {"begun", "completed"} : ledger' = [ledger EXCEPT !.cleanup = c]
  BY DEF BeginCleanup, CompleteCleanup
<1> QED
  BY <1>1 DEF Ledger, LedgerFits, Aggregate
-----------------------------------------------------------------------------
(***************************************************************************)
(* The other steps of the run                                              *)
(***************************************************************************)
LEMMA RunTypes ==
  ASSUME LifecycleInv, life.phase = "running"
  PROVE  /\ handle \in Handle /\ ledger \in Ledger /\ LedgerFits /\ DriverFits
         /\ disk \in SUBSET Workspaces /\ stray \in BOOLEAN
         /\ stray => handle.breached
BY RunningFits DEF DriverFits, DriverTypes, HandleKnows

LEMMA BreachFails ==
  ASSUME LifecycleInv, life.phase = "running", ObserveGap, Throws,
         NEW call, NEW other, Breached(call, other), ledger' \in Ledger, LedgerFits'
  PROVE  LifecycleInv'
BY RunTypes, BreachedFits, Counters, FailedFits

\* A failure that is only the ledger's.
LEMMA LedgerFails ==
  ASSUME LifecycleInv, life.phase = "running", ObserveGap, Throws \/ Refused,
         UNCHANGED <<box, late, disk, stray, handle>>, ledger' \in Ledger, LedgerFits'
  PROVE  LifecycleInv'
<1>1. DriverFits'
  BY RunTypes, AccountingFits DEF SameResources
<1> QED
  BY <1>1, Counters, FailedFits

LEMMA WaitForExitFits ==
  ASSUME LifecycleInv, NEW r \in Roles, WaitForExit(r), ObserveGap
  PROVE  LifecycleInv'
<1>1. life.phase = "running" /\ UNCHANGED driverVars /\ DriverFits'
  BY RunningFits, DriverFitsStays DEF WaitForExit, At, WaitAndReadLogs
<1>2. ASSUME WaitAndReadLogs(r), Returns PROVE LifecycleInv'
  <2>1. /\ life.step \in {14, 20, 28} /\ (r = "worker" => life.step = 14)
        /\ (life.step = 14 => r = "worker")
    BY <1>1, Places, RunKnows, RolesAre DEF WaitForExit
  <2>2. /\ life'.step = life.step + 1 /\ life'.phase = "running" /\ life'.proved = life.proved
    BY <1>1, <1>2, <2>1, NextStep
  <2>3. /\ gap' \in BOOLEAN /\ RunFits
        /\ life.step # 14 => gap' = FALSE
        /\ gap' => box["egress"] # "running"
    <3>1. UNCHANGED box /\ RunFits
      BY <1>1 DEF driverVars, LifecycleInv
    <3>2. life.step # 14 => life.step \notin 13..16
      BY <2>1
    <3> QED
      BY <1>1, <3>1, <3>2, GapWhenQuiet
  <2>4. life.step = 14 => box["worker"] = "exited"
    BY <1>2, <2>1 DEF WaitAndReadLogs
  <2>5. RunFits'
    BY <1>1, <2>1, <2>2, <2>3, <2>4 DEF RunFits, driverVars
  <2> QED
    BY <1>1, <1>2, <2>1, <2>5, ReturnedFits
<1>3. ASSUME Throws \/ Refused PROVE LifecycleInv'
  BY <1>1, <1>3, Counters, FailedFits
<1> QED
  BY <1>2, <1>3 DEF WaitForExit

LEMMA ObserveEgressFits ==
  ASSUME LifecycleInv, ObserveEgress, ObserveGap
  PROVE  LifecycleInv'
<1>1. life.phase = "running" /\ UNCHANGED driverVars /\ DriverFits'
  BY RunningFits, DriverFitsStays DEF ObserveEgress, At, ObserveRunning
<1>2. ASSUME ObserveRunning("egress"), Returns PROVE LifecycleInv'
  <2>1. life.step \in {11, 16, 18}
    BY <1>1, Places, RunKnows DEF ObserveEgress
  <2>2. /\ life'.step = life.step + 1 /\ life'.phase = "running" /\ life'.proved = life.proved
    BY <1>1, <1>2, <2>1, NextStep
  <2>3. gap' = FALSE /\ RunFits
    BY <1>1, <1>2, GapWhenQuiet DEF driverVars, LifecycleInv, ObserveRunning
  <2>4. RunFits'
    BY <1>1, <2>1, <2>2, <2>3 DEF RunFits, driverVars
  <2> QED
    BY <1>1, <1>2, <2>1, <2>4, ReturnedFits
<1>3. ASSUME Throws \/ Refused PROVE LifecycleInv'
  BY <1>1, <1>3, Counters, FailedFits
<1> QED
  BY <1>2, <1>3 DEF ObserveEgress

LEMMA AccountContainerStartFits ==
  ASSUME LifecycleInv, NEW r \in Roles, AccountContainerStart(r), ObserveGap
  PROVE  LifecycleInv'
<1> DEFINE none == UNCHANGED ledger
<1>1. life.phase = "running"
  BY DEF AccountContainerStart, At
<1>2. none => ledger' \in Ledger /\ LedgerFits'
  BY <1>1, RunTypes, LedgerStays
<1>3. Poison => ledger' \in Ledger /\ LedgerFits'
  BY <1>1, RunTypes, PoisonFits
<1>4. RoleStarted(r) => ledger' \in Ledger /\ LedgerFits'
  BY <1>1, RunTypes, RoleStartedFits
<1>5. ASSUME AccountStart(r), Returns PROVE LifecycleInv'
  <2>1. /\ handle' \in Handle /\ SameResources(handle')
        /\ handle'.removed = handle.removed /\ handle'.breached = handle.breached
        /\ UNCHANGED <<box, late, disk, stray>> /\ RoleStarted(r)
    BY <1>1, <1>5, RunTypes, HandleTypes DEF AccountStart, Handle, SameResources
  <2>2. DriverFits'
    BY <1>1, <1>4, <2>1, RunTypes, AccountingFits
  <2>3. life.step \in {9, 13, 27}
    BY <1>1, Places, RunKnows, RolesAre DEF AccountContainerStart
  <2> QED
    BY <1>1, <1>5, <2>1, <2>2, <2>3, QuietReturnFits
<1>6. ASSUME none \/ Poison \/ RoleStarted(r),
             UNCHANGED <<box, late, disk, stray, handle>>, Throws
      PROVE  LifecycleInv'
  BY <1>1, <1>2, <1>3, <1>4, <1>6, LedgerFails
<1>7. ASSUME Breached(none, RoleStarted(r)), Throws PROVE LifecycleInv'
  <2>1. none \/ RoleStarted(r)
    BY <1>7 DEF Breached
  <2>2. ledger' \in Ledger /\ LedgerFits'
    BY <1>2, <1>4, <2>1
  <2> QED
    BY <1>1, <1>7, <2>2, BreachFails
<1>8. ASSUME UNCHANGED driverVars, Refused PROVE LifecycleInv'
  BY <1>1, <1>8, RunTypes, DriverFitsStays, Counters, FailedFits
<1> QED
  BY <1>5, <1>6, <1>7, <1>8 DEF AccountContainerStart

LEMMA AccountContainerStopFits ==
  ASSUME LifecycleInv, NEW r \in Roles, AccountContainerStop(r), ObserveGap
  PROVE  LifecycleInv'
<1> DEFINE none == UNCHANGED ledger
<1>1. life.phase = "running"
  BY DEF AccountContainerStop, At
<1>2. none => ledger' \in Ledger /\ LedgerFits'
  BY <1>1, RunTypes, LedgerStays
<1>3. PICK used \in Usage :
        \/ AccountStop(r, used) /\ Returns
        \/ (none \/ RoleStopped(r, used)) /\ UNCHANGED <<box, late, disk, stray, handle>> /\ Throws
        \/ Breached(none, RoleStopped(r, used)) /\ Throws
        \/ RoleStoppedThrows(r, used) /\ UNCHANGED <<box, late, disk, stray, handle>> /\ Refused
        \/ UNCHANGED driverVars /\ Refused
  BY DEF AccountContainerStop
<1>4. RoleStopped(r, used) => ledger' \in Ledger /\ LedgerFits'
  BY <1>1, RunTypes, RoleStoppedFits
<1>5. ASSUME AccountStop(r, used), Returns PROVE LifecycleInv'
  <2>1. UNCHANGED <<box, late, disk, stray, handle>> /\ RoleStopped(r, used)
    BY <1>5 DEF AccountStop
  <2>2. DriverFits' /\ SameResources(handle')
    BY <1>1, <1>4, <2>1, RunTypes, AccountingFits DEF SameResources
  <2>3. life.step \in {15, 21, 29}
    BY <1>1, Places, RunKnows, RolesAre DEF AccountContainerStop
  <2> QED
    BY <1>1, <1>5, <2>1, <2>2, <2>3, QuietReturnFits
<1>6. ASSUME none \/ RoleStopped(r, used),
             UNCHANGED <<box, late, disk, stray, handle>>, Throws
      PROVE  LifecycleInv'
  BY <1>1, <1>2, <1>4, <1>6, LedgerFails
<1>7. ASSUME Breached(none, RoleStopped(r, used)), Throws PROVE LifecycleInv'
  <2>1. none \/ RoleStopped(r, used)
    BY <1>7 DEF Breached
  <2>2. ledger' \in Ledger /\ LedgerFits'
    BY <1>2, <1>4, <2>1
  <2> QED
    BY <1>1, <1>7, <2>2, BreachFails
<1>8. ASSUME RoleStoppedThrows(r, used), UNCHANGED <<box, late, disk, stray, handle>>, Refused
      PROVE  LifecycleInv'
  <2>1. ledger' \in Ledger /\ LedgerFits'
    BY <1>1, <1>8, RunTypes, RoleStoppedThrowsFits
  <2> QED
    BY <1>1, <1>8, <2>1, LedgerFails
<1>9. ASSUME UNCHANGED driverVars, Refused PROVE LifecycleInv'
  BY <1>1, <1>9, RunTypes, DriverFitsStays, Counters, FailedFits
<1> QED
  BY <1>3, <1>5, <1>6, <1>7, <1>8, <1>9

LEMMA FinalizeExecutionBudgetFits ==
  ASSUME LifecycleInv, FinalizeExecutionBudget, ObserveGap
  PROVE  LifecycleInv'
<1> DEFINE none == UNCHANGED ledger
<1>1. life.phase = "running"
  BY DEF FinalizeExecutionBudget, At
<1>2. none => ledger' \in Ledger /\ LedgerFits'
  BY <1>1, RunTypes, LedgerStays
<1>3. Poison => ledger' \in Ledger /\ LedgerFits'
  BY <1>1, RunTypes, PoisonFits
<1>4. Finalize => ledger' \in Ledger /\ LedgerFits' /\ ledger'.finalized
  BY <1>1, RunTypes, FinalizeFits
<1>5. ASSUME FinalizeProof, Returns PROVE LifecycleInv'
  <2>1. /\ handle' \in Handle /\ SameResources(handle') /\ handle'.accounted = Roles
        /\ handle'.removed = handle.removed /\ handle'.breached = handle.breached
        /\ handle'.proof /\ UNCHANGED <<box, late, disk, stray>> /\ Finalize
    BY ZenonT(40), <1>1, <1>5, RunTypes, HandleTypes DEF FinalizeProof, Handle, SameResources
  <2>2. DriverFits'
    BY <1>1, <1>4, <2>1, RunTypes, AccountingFits
  <2>3. life.step = 32
    BY <1>1, Places, RunKnows DEF FinalizeExecutionBudget
  <2>4. /\ life'.step = 33 /\ life'.phase = "running" /\ life'.proved = life.proved
    BY <1>1, <1>5, <2>3, NextStep
  <2>5. gap' = FALSE /\ RunFits /\ handle \in Handle
    BY <1>1, <2>1, <2>3, GapWhenQuiet, RunTypes DEF LifecycleInv
  <2>6. handle.removed = Roles
    BY <1>1, <2>3, <2>5, RolesAre DEF RunFits, Handle
  <2>7. FullyProven'
    BY <1>4, <2>1, <2>6 DEF FullyProven
  <2>8. RunFits'
    BY <1>1, <2>1, <2>3, <2>4, <2>5, <2>7 DEF RunFits, SameResources
  <2> QED
    BY <1>1, <1>5, <2>2, <2>3, <2>8, ReturnedFits
<1>6. ASSUME none \/ Poison, UNCHANGED <<box, late, disk, stray, handle>>, Throws
      PROVE  LifecycleInv'
  BY <1>1, <1>2, <1>3, <1>6, LedgerFails
<1>7. ASSUME Breached(none, Finalize), Throws PROVE LifecycleInv'
  <2>1. none \/ Finalize
    BY <1>7 DEF Breached
  <2>2. ledger' \in Ledger /\ LedgerFits'
    BY <1>2, <1>4, <2>1
  <2> QED
    BY <1>1, <1>7, <2>2, BreachFails
<1>8. ASSUME UNCHANGED driverVars, Refused PROVE LifecycleInv'
  BY <1>1, <1>8, RunTypes, DriverFitsStays, Counters, FailedFits
<1> QED
  BY <1>5, <1>6, <1>7, <1>8 DEF FinalizeExecutionBudget

LEMMA ValidateOutputsFits ==
  ASSUME LifecycleInv, ValidateOutputs, ObserveGap
  PROVE  LifecycleInv'
<1>1. /\ life.phase = "running" /\ UNCHANGED driverVars /\ DriverFits'
      /\ UNCHANGED <<aborted, runs>>
  BY RunningFits, DriverFitsStays DEF ValidateOutputs, At
<1>2. life.step = 33
  BY <1>1, Places, RunKnows DEF ValidateOutputs
<1>3. aborted' \in BOOLEAN /\ faults \in Nat /\ runs \in Nat /\ life \in Life
      /\ life.result = "none" /\ ~life.poisoned
  BY <1>1 DEF LifecycleInv, LifeTypes
<1>4. ASSUME ToCleanup(FALSE), UNCHANGED faults PROVE LifecycleInv'
  <2>1. life' = [life EXCEPT !.phase = "cleanup", !.step = 1, !.failed = FALSE]
    BY <1>4 DEF ToCleanup
  <2>2. life' = [phase |-> "cleanup", poisoned |-> life.poisoned, step |-> 1, failed |-> FALSE,
                 proved |-> life.proved, cpuStarted |-> life.cpuStarted, result |-> "none"]
    BY <1>3, <2>1 DEF Life
  <2>3. life' \in Life /\ life'.phase = "cleanup" /\ life'.step = 1 /\ life'.result = "none"
        /\ ~life'.poisoned
    BY <1>3, <2>2 DEF Life
  <2>4. LifeTypes'
    BY <1>1, <1>3, <1>4, <2>3, GapIsBoolean DEF LifeTypes, LifecycleInv
  <2>5. gap' = FALSE /\ RunFits
    BY <1>1, <1>2, GapWhenQuiet DEF driverVars, LifecycleInv
  <2>6. FullyProven' /\ Settled("worker")'
    BY <1>1, <1>2, <2>5 DEF RunFits, FullyProven, Settled, driverVars
  <2>7. RunFits' /\ CleanupFits' /\ IdleFits'
    BY <2>3, <2>5, <2>6 DEF RunFits, CleanupFits, IdleFits
  <2> QED
    BY <1>1, <2>4, <2>7 DEF LifecycleInv
<1>5. ASSUME ToCleanup(TRUE), Fault PROVE LifecycleInv'
  <2>1. faults' \in Nat
    BY <1>3, <1>5 DEF Fault
  <2> QED
    BY <1>1, <1>3, <1>5, <2>1, FailedFits
<1> QED
  BY <1>1, <1>4, <1>5 DEF ValidateOutputs
-----------------------------------------------------------------------------
(***************************************************************************)
(* The cleanup                                                             *)
(***************************************************************************)
\* What the cleanup has got rid of when it reaches a step without disproof.
PassedFits(step) ==
  /\ step > 2 => Settled("verifier")
  /\ step > 3 => Settled("worker")
  /\ step > 4 => Settled("egress")
  /\ step > 5 => Settled("outbound-network")
  /\ step > 6 => Settled("worker-network")
  /\ step > 7 => disk = {}
  /\ step > 9 => ~handle.breached

LEMMA CleanupTypes ==
  ASSUME LifecycleInv, life.phase = "cleanup"
  PROVE  /\ life \in Life /\ life.step \in 1..10 /\ ~life.poisoned /\ life.result = "none"
         /\ DriverFits /\ gap \in BOOLEAN /\ aborted \in BOOLEAN /\ faults \in Nat /\ runs \in Nat
         /\ handle \in Handle /\ ledger \in Ledger /\ LedgerFits
         /\ box \in [Resources -> BoxState] /\ late \in SUBSET Command
         /\ disk \in SUBSET Workspaces /\ stray \in BOOLEAN
         /\ ~life.failed => FullyProven /\ ~gap /\ Settled("worker")
         /\ life.proved => PassedFits(life.step)
<1>1. life \in Life /\ life.step \in 1..10 /\ ~life.poisoned /\ life.result = "none"
  BY DEF LifecycleInv, LifeTypes, Life
<1> QED
  BY <1>1 DEF LifecycleInv, LifeTypes, DriverFits, DriverTypes, CleanupFits, PassedFits, BoxState

\* The cleanup goes on to its next step, with its proof or without.
Advances ==
  /\ life'.step = life.step + 1 /\ life'.phase = "cleanup" /\ life' \in Life
  /\ life'.result = "none" /\ ~life'.poisoned /\ (life'.failed <=> life.failed)

LEMMA ContinuesFits ==
  ASSUME life \in Life, life.phase = "cleanup", life.step < 10, life.result = "none",
         ~life.poisoned
  PROVE  /\ Proves => Advances /\ (life'.proved <=> life.proved)
         /\ Disproves => Advances /\ ~life'.proved
         /\ CleanupFaults => Advances /\ ~life'.proved
         /\ Continues(life) => Advances /\ (life'.proved <=> life.proved)
         /\ Continues([life EXCEPT !.cpuStarted = TRUE]) => Advances /\ (life'.proved <=> life.proved)
<1>1. life.step + 1 \in 1..33 /\ life.step + 1 <= 10
  BY DEF Life
<1>2. ASSUME Continues(life) PROVE Advances /\ (life'.proved <=> life.proved)
  BY <1>1, <1>2 DEF Continues, Advances, Life
<1>3. ASSUME Continues([life EXCEPT !.proved = FALSE]) PROVE Advances /\ ~life'.proved
  <2> DEFINE l == [life EXCEPT !.proved = FALSE]
  <2>0. l = [life EXCEPT !.proved = FALSE] /\ Continues(l)
    BY <1>3
  <2> HIDE DEF l
  <2>1. l =
          [phase |-> life.phase, poisoned |-> life.poisoned, step |-> life.step,
           failed |-> life.failed, proved |-> FALSE, cpuStarted |-> life.cpuStarted,
           result |-> life.result]
    BY <2>0 DEF Life
  <2>2. life' = [phase |-> "cleanup", poisoned |-> life.poisoned, step |-> life.step + 1,
                 failed |-> life.failed, proved |-> FALSE, cpuStarted |-> life.cpuStarted,
                 result |-> "none"]
    BY <2>0, <2>1 DEF Continues
  <2> QED
    BY <1>1, <2>2 DEF Advances, Life
<1>4. ASSUME Continues([life EXCEPT !.cpuStarted = TRUE])
      PROVE  Advances /\ (life'.proved <=> life.proved)
  <2> DEFINE l == [life EXCEPT !.cpuStarted = TRUE]
  <2>0. l = [life EXCEPT !.cpuStarted = TRUE] /\ Continues(l)
    BY <1>4
  <2> HIDE DEF l
  <2>1. l =
          [phase |-> life.phase, poisoned |-> life.poisoned, step |-> life.step,
           failed |-> life.failed, proved |-> life.proved, cpuStarted |-> TRUE,
           result |-> life.result]
    BY <2>0 DEF Life
  <2>2. life' = [phase |-> "cleanup", poisoned |-> life.poisoned, step |-> life.step + 1,
                 failed |-> life.failed, proved |-> life.proved, cpuStarted |-> TRUE,
                 result |-> "none"]
    BY <2>0, <2>1 DEF Continues
  <2> QED
    BY <1>1, <2>2 DEF Advances, Life
<1> QED
  BY <1>2, <1>3, <1>4 DEF Proves, Disproves, CleanupFaults

LEMMA AdvancedFits ==
  ASSUME LifecycleInv, life.phase = "cleanup", life.step < 10, Advances, ObserveGap, DriverFits',
         UNCHANGED <<aborted, runs>>, faults' \in Nat,
         FullyProven => FullyProven', Settled("worker") => Settled("worker")',
         life'.proved => PassedFits(life.step)'
  PROVE  LifecycleInv'
<1>1. LifeTypes'
  BY CleanupTypes, GapIsBoolean DEF LifecycleInv, LifeTypes, Advances
<1>2. ~life'.failed => FullyProven' /\ ~gap' /\ Settled("worker")'
  <2> SUFFICES ASSUME ~life'.failed PROVE FullyProven' /\ ~gap' /\ Settled("worker")'
    OBVIOUS
  <2>1. ~life.failed /\ FullyProven' /\ Settled("worker")' /\ ~gap
    BY CleanupTypes DEF Advances
  <2> QED
    BY <2>1, CleanupTypes, GapIsBoolean DEF Settled, ObserveGap
<1>3. CleanupFits' /\ RunFits' /\ IdleFits'
  <2>1. life'.phase = "cleanup"
    BY DEF Advances
  <2> QED
    BY <1>2, <2>1 DEF CleanupFits, RunFits, IdleFits, PassedFits
<1> QED
  BY <1>1, <1>3 DEF LifecycleInv

LEMMA CleanupPlaces ==
  ASSUME life.step \in 1..10
  PROVE
  /\ AtCleanup("beginCleanup", "all") => life.step = 1
  /\ AtCleanup("cleanUp", "verifier") => life.step = 2
  /\ AtCleanup("cleanUp", "worker") => life.step = 3
  /\ AtCleanup("cleanUp", "egress") => life.step = 4
  /\ AtCleanup("cleanUp", "outbound-network") => life.step = 5
  /\ AtCleanup("cleanUp", "worker-network") => life.step = 6
  /\ AtCleanup("cleanWorkspace", "all") => life.step = 7
  /\ AtCleanup("observeProcesses", "all") => life.step = 8
  /\ AtCleanup("completeCleanup", "all") => life.step = 9
  /\ AtCleanup("assertCleanup", "all") => life.step = 10
BY CleanupSteps DEF AtCleanup, Instruction

LEMMA SettledUnlessTouched ==
  ASSUME UNCHANGED <<box, late>> PROVE \A x : Settled(x) => Settled(x)'
BY DEF Settled

\* A step without an effect on the resources.
LEMMA PassedStays ==
  ASSUME UNCHANGED <<box, late>>, PassedFits(life.step), life'.step = life.step + 1,
         life.step \in {1, 7, 8, 9}, life.step > 7 => UNCHANGED disk,
         life.step = 7 => disk' = {}, life.step = 9 => ~handle'.breached
  PROVE  PassedFits(life.step)'
BY SettledUnlessTouched DEF PassedFits

LEMMA SettledInCleanup ==
  ASSUME DriverFits, NEW x \in Resources, x \notin handle.ambiguous,
         box' = [box EXCEPT ![x] = "absent"], late' = Gone(x)
  PROVE  Settled(x)'
<1>1. box \in [Resources -> BoxState] /\ late \in SUBSET Command /\ HandleKnows
  BY DEF DriverFits, DriverTypes, BoxState
<1>2. \A c \in late : c.on = x => c = Late("start", x)
  BY <1>1 DEF HandleKnows, Command, Late
<1> QED
  BY <1>1, <1>2 DEF Settled, Gone

LEMMA CleanUpTouches ==
  ASSUME DriverFits, NEW x \in Resources, CleanUp(x) \/ CleanUpFails(x)
  PROVE  /\ Touches(x) /\ UNCHANGED handle /\ DriverFits'
         /\ \A y \in Resources : Settled(y) => Settled(y)'
         /\ CleanUp(x) => Settled(x)'
<1>1. /\ box \in [Resources -> BoxState] /\ late \in SUBSET Command /\ handle \in Handle
      /\ x \notin handle.ambiguous /\ x \in handle.owned
      /\ UNCHANGED <<disk, stray, handle, ledger>>
  BY DEF DriverFits, DriverTypes, BoxState, CleanUp, CleanUpFails, Untouched
<1>2. \/ box' \in {box, Stopped(x)} /\ UNCHANGED late
      \/ box' = [box EXCEPT ![x] = "absent"] /\ late' = Gone(x)
  BY DEF CleanUp, CleanUpFails
<1>3. Touches(x)
  BY <1>1, <1>2 DEF Touches, Stopped, BoxState, Gone
<1>4. StaysSettled(x)
  BY <1>1, <1>2 DEF StaysSettled, Settled, Stopped, Gone
<1>5. DriverFits'
  BY <1>1, <1>2, <1>3, <1>4, TouchFits DEF Gone
<1>6. CleanUp(x) => Settled(x)'
  BY <1>1, SettledInCleanup DEF CleanUp
<1> QED
  BY <1>1, <1>3, <1>4, <1>5, <1>6, OthersStaySettled DEF StaysSettled

LEMMA CleanUpResourceFits ==
  ASSUME LifecycleInv, NEW x \in Resources, CleanUpResource(x), ObserveGap
  PROVE  LifecycleInv'
<1>1. life.phase = "cleanup" /\ UNCHANGED <<aborted, runs>> /\ DriverFits
  BY CleanupTypes DEF CleanUpResource, AtCleanup
<1>2. /\ life.step \in 2..6
      /\ x = "verifier" <=> life.step = 2
      /\ x = "worker" <=> life.step = 3
      /\ x = "egress" <=> life.step = 4
      /\ x = "outbound-network" <=> life.step = 5
      /\ x = "worker-network" <=> life.step = 6
  BY <1>1, CleanupPlaces, CleanupTypes, ResourcesAre DEF CleanUpResource
<1>3. /\ Proves => Advances /\ (life'.proved <=> life.proved)
      /\ Disproves => Advances /\ ~life'.proved
      /\ CleanupFaults => Advances /\ ~life'.proved
  BY <1>1, <1>2, CleanupTypes, ContinuesFits
<1>4. faults' \in Nat
  BY <1>1, CleanupTypes DEF CleanUpResource, Proves, Disproves, CleanupFaults, Fault
<1>5. /\ DriverFits' /\ UNCHANGED <<handle, disk, ledger>>
      /\ \A y \in Resources : Settled(y) => Settled(y)'
  <2>1. ASSUME UNCHANGED driverVars
        PROVE  /\ DriverFits' /\ UNCHANGED <<handle, disk, ledger>>
               /\ \A y \in Resources : Settled(y) => Settled(y)'
    BY <1>1, <2>1, DriverFitsStays, SettledUnlessTouched DEF driverVars
  <2>2. ASSUME CleanUp(x) \/ CleanUpFails(x)
        PROVE  /\ DriverFits' /\ UNCHANGED <<handle, disk, ledger>>
               /\ \A y \in Resources : Settled(y) => Settled(y)'
    BY <1>1, <2>2, CleanUpTouches DEF Touches
  <2> QED
    BY <2>1, <2>2 DEF CleanUpResource
<1>6. Advances
  BY <1>3 DEF CleanUpResource
<1>7. life'.proved => PassedFits(life.step)'
  <2> SUFFICES ASSUME life'.proved PROVE PassedFits(life.step)'
    OBVIOUS
  <2>1. Proves /\ life.proved /\ PassedFits(life.step)
    BY <1>1, <1>3, CleanupTypes DEF CleanUpResource
  <2>2. Settled(x)'
    <3>1. CASE CleanUp(x)
      BY <1>1, <3>1, CleanUpTouches
    <3>2. CASE x \notin handle.ambiguous \cup handle.owned /\ UNCHANGED driverVars
      BY <1>1, <1>5, <3>2 DEF DriverFits, HandleKnows
    <3>3. ~Disproves /\ ~CleanupFaults
      BY <1>3
    <3> QED
      BY <3>1, <3>2, <3>3 DEF CleanUpResource
  <2>3. life'.step = life.step + 1
    BY <1>6 DEF Advances
  <2> QED
    BY <1>2, <1>5, <2>1, <2>2, <2>3, ResourcesAre DEF PassedFits
<1>8. FullyProven => FullyProven'
  BY <1>5 DEF FullyProven
<1> QED
  BY <1>1, <1>2, <1>4, <1>5, <1>6, <1>7, <1>8, AdvancedFits, ResourcesAre

LEMMA BeginCpuCleanupFits ==
  ASSUME LifecycleInv, BeginCpuCleanup, ObserveGap
  PROVE  LifecycleInv'
<1> DEFINE none == UNCHANGED ledger
           started == [life EXCEPT !.cpuStarted = TRUE]
<1>1. life.phase = "cleanup" /\ UNCHANGED <<aborted, runs>> /\ DriverFits
  BY CleanupTypes DEF BeginCpuCleanup, AtCleanup
<1>2. life.step = 1
  BY <1>1, CleanupPlaces, CleanupTypes DEF BeginCpuCleanup
<1>3. /\ BeginCleanup => ledger' \in Ledger /\ LedgerFits' /\ ledger'.finalized = ledger.finalized
      /\ none => ledger' \in Ledger /\ LedgerFits' /\ ledger'.finalized = ledger.finalized
  BY <1>1, CleanupTypes, LedgerCleanupFits, LedgerStays
<1>4. Advances /\ (life'.proved <=> life.proved) /\ faults' \in Nat
  <2>1. (Continues(life) \/ Continues(started)) /\ faults' \in Nat
    BY <1>1, CleanupTypes DEF BeginCpuCleanup, Fault
  <2> QED
    BY <1>1, <1>2, <2>1, CleanupTypes, ContinuesFits
<1>5. /\ DriverFits' /\ UNCHANGED <<box, late>> /\ ledger'.finalized = ledger.finalized
      /\ handle'.proof = handle.proof /\ handle'.accounted = handle.accounted
      /\ handle'.removed = handle.removed
  <2>1. CASE (BeginCleanup \/ none) /\ UNCHANGED <<box, late, disk, stray, handle>>
    <3>1. DriverFits'
      BY <1>1, <1>3, <2>1, CleanupTypes, AccountingFits
      DEF SameResources, DriverFits, HandleKnows
    <3> QED
      BY <1>3, <2>1, <3>1
  <2>2. CASE Breached(none, BeginCleanup)
    <3>1. none \/ BeginCleanup
      BY <2>2 DEF Breached
    <3>2. DriverFits' /\ UNCHANGED <<box, late>> /\ handle' = [handle EXCEPT !.breached = TRUE]
      BY <1>1, <1>3, <2>2, <3>1, BreachedFits
    <3> QED
      BY <1>1, <1>3, <3>1, <3>2, CleanupTypes DEF Handle
  <2>3. CASE UNCHANGED driverVars
    BY <1>1, <1>3, <2>3, DriverFitsStays DEF driverVars
  <2> QED
    BY <2>1, <2>2, <2>3 DEF BeginCpuCleanup
<1>6. life'.proved => PassedFits(life.step)'
  BY <1>1, <1>2, <1>4, <1>5 DEF PassedFits, Advances
<1>7. (FullyProven => FullyProven') /\ (Settled("worker") => Settled("worker")')
  BY <1>5, SettledUnlessTouched DEF FullyProven
<1> QED
  BY <1>1, <1>2, <1>4, <1>5, <1>6, <1>7, AdvancedFits

LEMMA CleanWorkspaceFits ==
  ASSUME LifecycleInv, CleanWorkspace, ObserveGap
  PROVE  LifecycleInv'
<1>1. /\ life.phase = "cleanup" /\ UNCHANGED <<aborted, runs>> /\ DriverFits
      /\ UNCHANGED <<box, late, stray, handle, ledger>> /\ disk' \in SUBSET Workspaces
  BY CleanupTypes DEF CleanWorkspace, AtCleanup
<1>2. life.step = 7
  BY <1>1, CleanupPlaces, CleanupTypes DEF CleanWorkspace
<1>3. /\ Proves => Advances /\ (life'.proved <=> life.proved)
      /\ CleanupFaults => Advances /\ ~life'.proved
  BY <1>1, <1>2, CleanupTypes, ContinuesFits
<1>4. Advances /\ faults' \in Nat
  BY <1>1, <1>3, CleanupTypes DEF CleanWorkspace, Proves, CleanupFaults, Fault
<1>5. DriverFits'
  BY <1>1, CleanupTypes, AccountingFits, LedgerStays DEF SameResources, DriverFits, HandleKnows
<1>6. life'.proved => PassedFits(life.step)'
  BY <1>1, <1>2, <1>3, <1>4, CleanupTypes, PassedStays DEF CleanWorkspace, Advances
<1>7. (FullyProven => FullyProven') /\ (Settled("worker") => Settled("worker")')
  BY <1>1, SettledUnlessTouched DEF FullyProven
<1> QED
  BY <1>1, <1>2, <1>4, <1>5, <1>6, <1>7, AdvancedFits

LEMMA ObserveProcessesFits ==
  ASSUME LifecycleInv, ObserveProcesses, ObserveGap
  PROVE  LifecycleInv'
<1>1. /\ life.phase = "cleanup" /\ UNCHANGED <<aborted, runs>> /\ UNCHANGED driverVars /\ DriverFits
  BY CleanupTypes DEF ObserveProcesses, AtCleanup
<1>2. life.step = 8
  BY <1>1, CleanupPlaces, CleanupTypes DEF ObserveProcesses
<1>3. /\ Proves => Advances /\ (life'.proved <=> life.proved)
      /\ CleanupFaults => Advances /\ ~life'.proved
  BY <1>1, <1>2, CleanupTypes, ContinuesFits
<1>4. Advances /\ faults' \in Nat
  BY <1>1, <1>3, CleanupTypes DEF ObserveProcesses, Proves, CleanupFaults, Fault
<1>5. DriverFits' /\ UNCHANGED <<box, late, disk, handle, ledger>>
  BY <1>1, DriverFitsStays DEF driverVars
<1>6. life'.proved => PassedFits(life.step)'
  BY <1>1, <1>2, <1>3, <1>4, <1>5, CleanupTypes, PassedStays DEF ObserveProcesses, Advances
<1>7. (FullyProven => FullyProven') /\ (Settled("worker") => Settled("worker")')
  BY <1>5, SettledUnlessTouched DEF FullyProven
<1> QED
  BY <1>1, <1>2, <1>4, <1>5, <1>6, <1>7, AdvancedFits

LEMMA CompleteCpuCleanupFits ==
  ASSUME LifecycleInv, CompleteCpuCleanup, ObserveGap
  PROVE  LifecycleInv'
<1> DEFINE none == UNCHANGED ledger
<1>1. life.phase = "cleanup" /\ UNCHANGED <<aborted, runs>> /\ DriverFits
  BY CleanupTypes DEF CompleteCpuCleanup, AtCleanup
<1>2. life.step = 9
  BY <1>1, CleanupPlaces, CleanupTypes DEF CompleteCpuCleanup
<1>3. /\ CompleteCleanup => ledger' \in Ledger /\ LedgerFits' /\ ledger'.finalized = ledger.finalized
      /\ none => ledger' \in Ledger /\ LedgerFits' /\ ledger'.finalized = ledger.finalized
  BY <1>1, CleanupTypes, LedgerCleanupFits, LedgerStays
<1>4. /\ Proves => Advances /\ (life'.proved <=> life.proved)
      /\ Disproves => Advances /\ ~life'.proved
      /\ CleanupFaults => Advances /\ ~life'.proved
  BY <1>1, <1>2, CleanupTypes, ContinuesFits
<1>5. /\ Proves \/ Disproves \/ CleanupFaults
      /\ life'.proved => Proves /\ CpuControllerStopped /\ UNCHANGED <<box, late, disk, handle>>
      /\ faults' \in Nat
  <2>1. /\ Proves \/ Disproves \/ CleanupFaults
        /\ \/ Proves /\ CpuControllerStopped /\ UNCHANGED <<box, late, disk, handle>>
           \/ Disproves \/ CleanupFaults
    BY DEF CompleteCpuCleanup, driverVars
  <2>2. life'.proved => ~Disproves /\ ~CleanupFaults
    BY <1>4
  <2>3. faults' \in Nat
    BY <1>1, <2>1, CleanupTypes DEF Proves, Disproves, CleanupFaults, Fault
  <2> QED
    BY <2>1, <2>2, <2>3
<1>6. Advances
  BY <1>4, <1>5
<1>7. /\ DriverFits' /\ UNCHANGED <<box, late>> /\ ledger'.finalized = ledger.finalized
      /\ handle'.proof = handle.proof /\ handle'.accounted = handle.accounted
      /\ handle'.removed = handle.removed
  <2>1. CASE (CompleteCleanup \/ none) /\ UNCHANGED <<box, late, disk, stray, handle>>
    <3>1. DriverFits'
      BY <1>1, <1>3, <2>1, CleanupTypes, AccountingFits
      DEF SameResources, DriverFits, HandleKnows
    <3> QED
      BY <1>3, <2>1, <3>1
  <2>2. CASE Breached(none, CompleteCleanup)
    <3>1. none \/ CompleteCleanup
      BY <2>2 DEF Breached
    <3>2. DriverFits' /\ UNCHANGED <<box, late>> /\ handle' = [handle EXCEPT !.breached = TRUE]
      BY <1>1, <1>3, <2>2, <3>1, BreachedFits
    <3> QED
      BY <1>1, <1>3, <3>1, <3>2, CleanupTypes DEF Handle
  <2>3. CASE UNCHANGED driverVars
    BY <1>1, <1>3, <2>3, DriverFitsStays DEF driverVars
  <2> QED
    BY <2>1, <2>2, <2>3 DEF CompleteCpuCleanup
<1>8. life'.proved => PassedFits(life.step)'
  <2> SUFFICES ASSUME life'.proved PROVE PassedFits(life.step)'
    OBVIOUS
  <2>1. Proves /\ life.proved /\ CpuControllerStopped /\ UNCHANGED <<box, late, disk, handle>>
    BY <1>4, <1>5
  <2>2. ~handle'.breached /\ PassedFits(life.step)
    BY <1>1, <2>1, CleanupTypes DEF CpuControllerStopped
  <2> QED
    BY <1>2, <1>6, <2>1, <2>2, PassedStays DEF Advances
<1>9. (FullyProven => FullyProven') /\ (Settled("worker") => Settled("worker")')
  BY <1>7, SettledUnlessTouched DEF FullyProven
<1> QED
  BY <1>1, <1>2, <1>5, <1>6, <1>7, <1>8, <1>9, AdvancedFits

\* A call that ends leaves a clean driver, or the lifecycle poisoned.
LEMMA FinishFits ==
  ASSUME LifecycleInv, life.phase = "cleanup", ObserveGap, DriverFits',
         aborted' \in BOOLEAN, faults' \in Nat, runs' \in Nat,
         NEW result \in {"COMPLETED", "FAILED", "POISONED"}, NEW poisoned \in BOOLEAN,
         Finish(result, poisoned), result = "COMPLETED" => ~poisoned, IdleFits'
  PROVE  LifecycleInv'
<1>1. life' = [NewLife EXCEPT !.result = result, !.poisoned = poisoned]
  BY DEF Finish
<1>2. life' = [phase |-> "idle", poisoned |-> poisoned, step |-> 1, failed |-> FALSE,
               proved |-> TRUE, cpuStarted |-> FALSE, result |-> result]
  BY <1>1 DEF NewLife
<1>3. life' \in Life /\ life'.phase = "idle" /\ (life'.result = "COMPLETED" => ~life'.poisoned)
  BY <1>2 DEF Life
<1>4. LifeTypes'
  BY <1>3, GapIsBoolean DEF LifeTypes, LifecycleInv
<1> QED
  BY <1>3, <1>4 DEF LifecycleInv, DriverFits, RunFits, CleanupFits

LEMMA AssertCleanupFits ==
  ASSUME LifecycleInv, AssertCleanup, ObserveGap
  PROVE  LifecycleInv'
<1>1. /\ life.phase = "cleanup" /\ DriverFits /\ UNCHANGED driverVars
      /\ UNCHANGED <<aborted, faults, runs>>
  BY CleanupTypes DEF AssertCleanup, AtCleanup
<1>2. DriverFits' /\ aborted' \in BOOLEAN /\ faults' \in Nat /\ runs' \in Nat
  BY <1>1, DriverFitsStays, CleanupTypes
<1>3. life.step = 10
  BY <1>1, CleanupPlaces, CleanupTypes DEF AssertCleanup
<1>4. CASE ~life.proved
  <2>1. Finish("POISONED", TRUE)
    BY <1>4 DEF AssertCleanup
  <2>2. life'.phase = "idle" /\ life'.poisoned
    BY <2>1 DEF Finish, NewLife
  <2> QED
    BY <1>1, <1>2, <2>1, <2>2, FinishFits DEF IdleFits
<1>5. CASE life.proved
  <2> DEFINE result == IF life.failed THEN "FAILED" ELSE "COMPLETED"
  <2>1. Finish(result, FALSE) /\ result \in {"COMPLETED", "FAILED", "POISONED"}
    BY <1>5 DEF AssertCleanup
  <2>2. life'.result = result /\ ~life'.poisoned
    BY <2>1 DEF Finish, NewLife
  <2>3. PassedFits(10) /\ HandleKnows /\ late \in SUBSET Command
    BY <1>1, <1>3, <1>5, CleanupTypes DEF DriverFits
  <2>4. \A x \in Resources : Settled(x)
    BY <2>3, ResourcesAre DEF PassedFits
  <2>5. late = {} /\ disk = {} /\ ~stray /\ \A x \in Resources : box[x] = "absent"
    BY <2>3, <2>4 DEF PassedFits, HandleKnows, Settled, Command
  <2>6. result = "COMPLETED" => FullyProven /\ ~gap
    BY <1>1, CleanupTypes
  <2>7. gap' = gap
    BY <1>1, <2>5, CleanupTypes, ResourcesAre DEF ObserveGap, driverVars
  <2>8. IdleFits'
    BY <1>1, <2>2, <2>5, <2>6, <2>7 DEF IdleFits, FullyProven, driverVars
  <2> QED
    BY <1>1, <1>2, <2>1, <2>8, FinishFits
<1> QED
  BY <1>4, <1>5

LEMMA CleanupTimesOutFits ==
  ASSUME LifecycleInv, CleanupTimesOut, ObserveGap
  PROVE  LifecycleInv'
<1> DEFINE current == CleanupProgram[life.step]
<1>1. /\ life.phase = "cleanup" /\ DriverFits /\ Finish("POISONED", TRUE)
      /\ aborted' \in BOOLEAN /\ faults' \in Nat /\ runs' \in Nat
  <2>1. /\ life.phase = "cleanup" /\ Fault /\ Finish("POISONED", TRUE)
        /\ UNCHANGED <<aborted, runs>>
    BY DEF CleanupTimesOut
  <2>2. aborted \in BOOLEAN /\ faults \in Nat /\ runs \in Nat /\ DriverFits
    BY <2>1, CleanupTypes
  <2>3. faults' \in Nat
    BY <2>1, <2>2 DEF Fault
  <2> QED
    BY <2>1, <2>2, <2>3
<1>2. DriverFits'
  <2>1. CASE UNCHANGED driverVars
    BY <1>1, <2>1, DriverFitsStays
  <2>2. CASE current.op = "cleanUp" /\ CleanUpFails(current.on)
    <3>1. current.on \in Resources
      BY <1>1, <2>2, CleanupTypes, CleanupSteps, ResourcesAre DEF Instruction
    <3> QED
      BY <1>1, <2>2, <3>1, CleanUpTouches
  <2>3. CASE disk' \in SUBSET disk /\ UNCHANGED <<box, late, stray, handle, ledger>>
    BY <1>1, <2>3, CleanupTypes, AccountingFits, LedgerStays
    DEF SameResources, DriverFits, HandleKnows
  <2> QED
    BY <2>1, <2>2, <2>3 DEF CleanupTimesOut
<1>3. life'.phase = "idle" /\ life'.poisoned
  BY <1>1 DEF Finish, NewLife
<1> QED
  BY <1>1, <1>2, <1>3, FinishFits DEF IdleFits

-----------------------------------------------------------------------------
(***************************************************************************)
(* The environment, and the whole                                          *)
(***************************************************************************)
LEMMA ExecuteFits ==
  ASSUME LifecycleInv, Execute
  PROVE  LifecycleInv'
<1>1. /\ life.phase = "idle" /\ ~life.poisoned /\ life' = [NewLife EXCEPT !.phase = "running"]
      /\ aborted' = FALSE /\ gap' = FALSE /\ handle' = NewHandle /\ ledger' = NewLedger
      /\ UNCHANGED <<box, late, disk, stray, faults>> /\ runs' \in Nat
  BY DEF Execute, LifecycleInv, LifeTypes
<1>2. /\ \A x \in Resources : box[x] = "absent"
      /\ late = {} /\ disk = {} /\ ~stray
  BY <1>1 DEF LifecycleInv, IdleFits
<1>3. /\ handle' \in Handle /\ handle'.ambiguous = {} /\ ~handle'.breached
  BY <1>1 DEF NewHandle, Handle
<1>4. ledger' \in Ledger /\ LedgerFits'
  <2>1. /\ ledger' \in Ledger /\ ~ledger'.finalized
        /\ ledger'.usage = [r \in Roles |-> 0]
    BY <1>1 DEF NewLedger, Ledger
  <2>2. ledger'.usage["egress"] = 0 /\ ledger'.usage["worker"] = 0 /\ ledger'.usage["verifier"] = 0
    BY <2>1, RolesAre
  <2> QED
    BY <2>1, <2>2, BudgetAssumption DEF LedgerFits, Aggregate
<1>5. DriverTypes'
  BY <1>1, <1>3, <1>4 DEF DriverTypes, DriverFits, LifecycleInv
<1>6. life' = [phase |-> "running", poisoned |-> FALSE, step |-> 1, failed |-> FALSE,
               proved |-> TRUE, cpuStarted |-> FALSE, result |-> "none"]
  BY <1>1 DEF NewLife
<1>7. life' \in Life /\ life'.phase = "running" /\ life'.step = 1 /\ life'.proved
      /\ ~life'.poisoned /\ life'.result = "none"
  BY <1>6 DEF Life
<1>8. LifeTypes'
  BY <1>1, <1>7 DEF LifeTypes, LifecycleInv
<1>9. \A x \in Resources : Settled(x)'
  BY <1>1, <1>2 DEF Settled
<1>10. VerifierLast' /\ HandleKnows'
  BY <1>1, <1>2, <1>9, ResourcesAre DEF VerifierLast, HandleKnows
<1>11. RunFits' /\ CleanupFits' /\ IdleFits'
  BY <1>1, <1>2, <1>3, <1>7, ResourcesAre DEF RunFits, CleanupFits, IdleFits
<1> QED
  BY <1>4, <1>5, <1>8, <1>10, <1>11 DEF LifecycleInv, DriverFits

LEMMA AbortFits ==
  ASSUME LifecycleInv, Abort
  PROVE  LifecycleInv'
<1>1. /\ life.phase = "running" /\ aborted' \in BOOLEAN
      /\ UNCHANGED <<driverVars, life, faults, runs, gap>>
  BY DEF Abort
<1>2. DriverFits'
  BY <1>1, RunningFits, DriverFitsStays
<1>3. LifeTypes'
  BY <1>1 DEF LifeTypes, LifecycleInv
<1>4. RunFits' /\ CleanupFits' /\ IdleFits'
  BY <1>1 DEF LifecycleInv, RunFits, CleanupFits, IdleFits, FullyProven, driverVars
<1> QED
  BY <1>2, <1>3, <1>4 DEF LifecycleInv

\* What is there changes, or the daemon gets to a late command.
LEMMA DaemonMovesFits ==
  ASSUME DriverFits, NEW x \in Resources, Touches(x), ~Settled(x), late' \subseteq late,
         UNCHANGED handle
  PROVE  /\ DriverFits' /\ \A y \in Resources : Settled(y) => Settled(y)'
<1>1. handle' \in Handle /\ x \in handle.owned \cup handle.ambiguous
  BY DEF DriverFits, DriverTypes, HandleKnows
<1>2. StaysSettled(x)
  BY DEF StaysSettled
<1>3. DriverFits'
  BY <1>1, <1>2, TouchFits
<1> QED
  BY <1>2, <1>3, OthersStaySettled DEF StaysSettled

\* The cleanup keeps what it has shown whatever the daemon does.
LEMMA CleanupStays ==
  ASSUME LifecycleInv, life.phase = "cleanup", ObserveGap, UNCHANGED <<life, disk, handle, ledger>>,
         \A y \in Resources : Settled(y) => Settled(y)'
  PROVE  CleanupFits'
<1>1. /\ CleanupFits /\ gap \in BOOLEAN /\ gap' \in BOOLEAN
  BY GapIsBoolean DEF LifecycleInv, LifeTypes
<1>2. ~life.failed => gap' = FALSE
  BY <1>1, ResourcesAre DEF CleanupFits, ObserveGap, Settled
<1> QED
  BY <1>1, <1>2, ResourcesAre DEF CleanupFits, FullyProven

LEMMA ContainerExitsFits ==
  ASSUME LifecycleInv, NEW r \in Roles, ContainerExits(r), ObserveGap
  PROVE  LifecycleInv'
<1>1. /\ box[r] = "running" /\ box' = [box EXCEPT ![r] = "exited"] /\ r \in Resources
      /\ UNCHANGED <<late, disk, stray, handle, ledger, life, aborted, faults, runs>>
      /\ DriverFits /\ box \in [Resources -> BoxState] /\ late \in SUBSET Command
  BY DEF ContainerExits, Resources, LifecycleInv, DriverFits, DriverTypes, BoxState
<1>2. Touches(r) /\ ~Settled(r)
  BY <1>1 DEF Touches, BoxState, Settled
<1>3. DriverFits' /\ \A y \in Resources : Settled(y) => Settled(y)'
  BY <1>1, <1>2, DaemonMovesFits
<1>4. LifeTypes'
  BY <1>1, GapIsBoolean DEF LifeTypes, LifecycleInv
<1>5. RunFits'
  <2> SUFFICES ASSUME life.phase = "running" PROVE RunFits'
    BY <1>1 DEF RunFits
  <2>1. RunFits /\ gap \in BOOLEAN /\ gap' \in BOOLEAN /\ life.step \in 1..33
    BY GapIsBoolean DEF LifecycleInv, LifeTypes, Life
  <2>2. gap' => life.step \in 13..16 /\ box'["egress"] # "running"
    BY <1>1, <2>1, ResourcesAre DEF RunFits, ObserveGap
  <2> QED
    BY <1>1, <2>1, <2>2, ResourcesAre DEF RunFits, FullyProven
<1>6. CleanupFits'
  <2>1. CASE life.phase = "cleanup"
    BY <1>1, <1>3, <2>1, CleanupStays
  <2>2. CASE life.phase # "cleanup"
    BY <1>1, <2>2 DEF CleanupFits
  <2> QED
    BY <2>1, <2>2
<1>7. IdleFits'
  BY <1>1 DEF LifecycleInv, IdleFits
<1> QED
  BY <1>3, <1>4, <1>5, <1>6, <1>7 DEF LifecycleInv

LEMMA DaemonFits ==
  ASSUME LifecycleInv, Daemon, ObserveGap
  PROVE  LifecycleInv'
<1>1. /\ UNCHANGED <<disk, handle, ledger, life, aborted, faults, runs>>
      /\ DriverFits /\ box \in [Resources -> BoxState] /\ late \in SUBSET Command
      /\ gap \in BOOLEAN /\ gap' \in BOOLEAN
  BY GapIsBoolean
  DEF Daemon, DaemonApplies, StraySettles, LifecycleInv, LifeTypes, DriverFits, DriverTypes, BoxState
<1>2. late # {} \/ stray
  BY DEF Daemon, DaemonApplies, StraySettles
<1>3. life.phase # "running" /\ ~(life.phase = "idle" /\ ~life.poisoned)
  BY <1>2 DEF LifecycleInv, DriverFits, HandleKnows, RunFits, IdleFits
<1>4. DriverFits' /\ \A y \in Resources : Settled(y) => Settled(y)'
  <2>1. ASSUME NEW c \in late, DaemonApplies(c)
        PROVE  DriverFits' /\ \A y \in Resources : Settled(y) => Settled(y)'
    <3>1. c.on \in Resources /\ ~Settled(c.on) /\ late' \subseteq late
      BY <1>1, <2>1 DEF Command, Settled, DaemonApplies
    <3>2. Touches(c.on)
      BY <1>1, <2>1, <3>1 DEF Touches, DaemonApplies, BoxState
    <3> QED
      BY <1>1, <3>1, <3>2, DaemonMovesFits
  <2>2. ASSUME StraySettles
        PROVE  DriverFits' /\ \A y \in Resources : Settled(y) => Settled(y)'
    <3>1. UNCHANGED <<box, late, disk, handle, ledger>> /\ stray' = FALSE
      BY <2>2 DEF StraySettles
    <3> QED
      BY <1>1, <3>1, SettledUnlessTouched, AccountingFits, LedgerStays
      DEF DriverFits, DriverTypes, SameResources
  <2> QED
    BY <2>1, <2>2 DEF Daemon
<1>5. LifeTypes'
  BY <1>1 DEF LifeTypes, LifecycleInv
<1>6. CleanupFits'
  <2>1. CASE life.phase = "cleanup"
    BY <1>1, <1>4, <2>1, CleanupStays
  <2>2. CASE life.phase # "cleanup"
    BY <1>1, <2>2 DEF CleanupFits
  <2> QED
    BY <2>1, <2>2
<1>7. RunFits' /\ IdleFits'
  BY <1>1, <1>3 DEF RunFits, IdleFits
<1> QED
  BY <1>4, <1>5, <1>6, <1>7 DEF LifecycleInv

LEMMA StutterFits ==
  ASSUME LifecycleInv, UNCHANGED vars
  PROVE  LifecycleInv'
<1>1. DriverFits'
  BY DriverFitsStays DEF vars, LifecycleInv
<1> QED
  BY <1>1 DEF LifecycleInv, LifeTypes, RunFits, CleanupFits, IdleFits, FullyProven, Settled, vars, driverVars

LEMMA LifecycleStepFits ==
  ASSUME LifecycleInv, LifecycleStep
  PROVE  LifecycleInv'
<1>1. LifecycleOperation /\ ObserveGap
  BY DEF LifecycleStep
<1>2. ASSUME NEW w \in Workspaces, PrepareWorkspace(w) PROVE LifecycleInv'
  BY <1>1, <1>2, PrepareWorkspaceFits
<1>3. CASE BeginCpuSession
  BY <1>1, <1>3, BeginCpuSessionFits
<1>4. ASSUME Check("namesAbsent", "all") \/ Check("connect", "egress") PROVE LifecycleInv'
  BY <1>1, <1>4, CheckFits
<1>5. ASSUME NEW x \in Resources, CreateResource(x) PROVE LifecycleInv'
  BY <1>1, <1>5, CreateResourceFits
<1>6. ASSUME NEW x \in Resources, CleanUpResource(x) PROVE LifecycleInv'
  BY <1>1, <1>6, CleanUpResourceFits
<1>7. ASSUME NEW r \in Roles,
             \/ StartContainer(r) \/ AccountContainerStart(r) \/ WaitForExit(r)
             \/ AccountContainerStop(r) \/ RemoveContainer(r)
      PROVE  LifecycleInv'
  BY <1>1, <1>7, StartContainerFits, AccountContainerStartFits, WaitForExitFits,
     AccountContainerStopFits, RemoveContainerFits
<1>8. ASSUME NEW r \in Roles, Check("checkOutput", r) PROVE LifecycleInv'
  <2>1. r \in {"worker", "verifier"}
    BY <1>8, Places, ProgramSteps, RolesAre
    DEF Check, At, Instruction, LifecycleInv, LifeTypes, Life
  <2> QED
    BY <1>1, <1>8, <2>1, CheckFits
<1>9. CASE ObserveEgress
  BY <1>1, <1>9, ObserveEgressFits
<1>10. CASE StopEgress
  BY <1>1, <1>10, StopEgressFits
<1>11. CASE FinalizeExecutionBudget
  BY <1>1, <1>11, FinalizeExecutionBudgetFits
<1>12. CASE ValidateOutputs
  BY <1>1, <1>12, ValidateOutputsFits
<1>13. CASE BeginCpuCleanup
  BY <1>1, <1>13, BeginCpuCleanupFits
<1>14. CASE CleanWorkspace
  BY <1>1, <1>14, CleanWorkspaceFits
<1>15. CASE ObserveProcesses
  BY <1>1, <1>15, ObserveProcessesFits
<1>16. CASE CompleteCpuCleanup
  BY <1>1, <1>16, CompleteCpuCleanupFits
<1>17. CASE AssertCleanup
  BY <1>1, <1>17, AssertCleanupFits
<1>18. CASE CleanupTimesOut
  BY <1>1, <1>18, CleanupTimesOutFits
<1> QED
  BY <1>1, <1>2, <1>3, <1>4, <1>5, <1>6, <1>7, <1>8, <1>9, <1>10, <1>11, <1>12, <1>13, <1>14,
     <1>15, <1>16, <1>17, <1>18
  DEF LifecycleOperation

LEMMA InitFits ==
  ASSUME Init PROVE LifecycleInv
<1>1. /\ box = [x \in Resources |-> "absent"] /\ late = {} /\ disk = {} /\ stray = FALSE
      /\ handle = NewHandle /\ ledger = NewLedger /\ life = NewLife
      /\ aborted = FALSE /\ faults = 0 /\ runs = 0 /\ gap = FALSE
  BY DEF Init, DriverInit
<1>2. handle \in Handle /\ life \in Life /\ life.phase = "idle" /\ life.result = "none"
  BY <1>1 DEF NewHandle, Handle, NewLife, Life
<1>3. ledger \in Ledger /\ LedgerFits
  <2>1. ledger \in Ledger /\ ~ledger.finalized /\ ledger.usage = [r \in Roles |-> 0]
    BY <1>1 DEF NewLedger, Ledger
  <2>2. ledger.usage["egress"] = 0 /\ ledger.usage["worker"] = 0 /\ ledger.usage["verifier"] = 0
    BY <2>1, RolesAre
  <2> QED
    BY <2>1, <2>2, BudgetAssumption DEF LedgerFits, Aggregate
<1>4. DriverTypes
  BY <1>1, <1>2, <1>3 DEF DriverTypes
<1>5. \A x \in Resources : Settled(x)
  BY <1>1 DEF Settled
<1>6. DriverFits
  BY <1>1, <1>3, <1>4, <1>5, ResourcesAre DEF DriverFits, VerifierLast, HandleKnows
<1>7. LifeTypes
  BY <1>1, <1>2 DEF LifeTypes
<1>8. RunFits /\ CleanupFits /\ IdleFits
  BY <1>1, <1>2 DEF RunFits, CleanupFits, IdleFits
<1> QED
  BY <1>6, <1>7, <1>8 DEF LifecycleInv

\* The inductive invariant of the supervised worker lifecycle: what the driver knows,
\* how far run and cleanup have come, and what is settled by then.
THEOREM LifecycleInvariant == Spec => []LifecycleInv
<1>1. ASSUME LifecycleInv, [Next]_vars PROVE LifecycleInv'
  BY <1>1, ExecuteFits, LifecycleStepFits, AbortFits, DaemonFits, ContainerExitsFits, StutterFits
  DEF Next, Done
<1> QED
  BY <1>1, InitFits, PTL DEF Spec

LEMMA LifecycleInvIsEnough ==
  ASSUME LifecycleInv PROVE ReusedOnlyWhenClean /\ Isolated
<1>1. ReusedOnlyWhenClean
  BY DEF LifecycleInv, IdleFits, FullyProven, DriverFits, LedgerFits, ReusedOnlyWhenClean
<1>2. box["verifier"] = "running" => box["worker"] = "absent" /\ box["egress"] = "absent"
  BY DEF LifecycleInv, DriverFits, VerifierLast, Settled
<1>3. life.result = "COMPLETED" => ~gap
  BY DEF LifecycleInv, LifeTypes, Life, IdleFits
<1> QED
  BY <1>1, <1>2, <1>3 DEF Isolated

\* A call of execute that does not poison the lifecycle leaves no container, network,
\* workspace, late command or CPU control call, and a completed one has its proof.
THEOREM CallsLeaveACleanDriver == Spec => []ReusedOnlyWhenClean
BY LifecycleInvariant, LifecycleInvIsEnough, PTL

\* The verifier runs when the worker and the egress proxy are gone, and no run completes
\* whose worker was ever without the proxy.
THEOREM VerifierRunsAlone == Spec => []Isolated
BY LifecycleInvariant, LifecycleInvIsEnough, PTL
==============================================================================
