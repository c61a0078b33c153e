------------------------------ MODULE WorkerRpc ------------------------------
(***************************************************************************)
(* Remote execution of repairs: the RPC client (codex/worker-rpc-client),  *)
(* the mutual-TLS supervisor (codex/worker-rpc-mtls) and the replay store  *)
(* (codex/worker-rpc-replay-sqlite) that several supervisors, or one       *)
(* before and after a restart, share.                                      *)
(*                                                                         *)
(* A call is one runRepair with its connection.  Its two ends are          *)
(* caller[c], what the client is waiting for, and handler[c], where the    *)
(* secureConnection handler of server[c] stands; executor[c] is the work   *)
(* the handler started.  Every await of the handler ends a step.           *)
(*                                                                         *)
(* A client object never repeats an identifier and has one call at a time. *)
(* Another object, in the same process or after a restart, knows neither:  *)
(* so any call may carry any identifiers, and any number of calls may be   *)
(* under way.  A client may hang or vanish at any step.                    *)
(*                                                                         *)
(* Supervisors read one clock, now, which does not move back.  The clock   *)
(* of a client is independent of it.  Frames are whole: a bad, short or    *)
(* late one is a refusal that READING allows at any time.                  *)
(***************************************************************************)
EXTENDS Integers, FiniteSets

CONSTANTS
  Supervisor,
  Call,             \* calls; each is made at most once
  RequestId, Nonce, \* what a request may carry as requestId and runNonce
  Time,             \* clock readings
  RpcTimeout,       \* rpcTimeoutMs of the clients
  WallTime,         \* limits.wallTimeMs of the requests
  ClockSkew,        \* clockSkewMs of the supervisors
  ReplayCapacity,   \* capacity of the replay store
  PassSigning,      \* TRUE for protocol v1; the v2 supervisor signs FAIL only
  None

ASSUME TimeAssumption == Time \subseteq Nat
ASSUME LimitAssumption ==
  RpcTimeout \in Nat /\ WallTime \in Nat /\ ClockSkew \in Nat /\ ReplayCapacity \in Nat
ASSUME NoneAssumption == None \notin Time /\ None \notin Supervisor

VARIABLES
  now,        \* the clock of the supervisors
  rows,       \* worker_rpc_replay_capabilities
  request,    \* the request of a call
  caller,     \* the client's end of a call
  server,     \* the supervisor a call has reached
  handler,    \* where the handler of the connection stands
  stamp,      \* the last clock reading of the handler
  executor,   \* the promise of executor.execute
  startedAt,  \* when it was called
  answered,   \* whether the response frame was written to the connection
  mode,       \* listening, or how far close() has come
  slot        \* activeRepair

callVars == <<request, caller>>
handlerVars == <<server, handler, stamp, executor, startedAt, answered>>
rpcVars == <<now, rows, callVars, handlerVars, mode, slot>>

Request == [id: RequestId, nonce: Nonce, issued: Time]
Row == [id: RequestId, nonce: Nonce, expires: Nat]

Expiry(c) == request[c].issued + RpcTimeout
Left(c) == caller[c] # "WAITING"
SlotSteps == {"CONSUMING", "CONSUMED", "EXECUTING", "ABORTING", "SIGNING"}

RpcTypeOK ==
  /\ now \in Time
  /\ rows \subseteq Row
  /\ request \in [Call -> Request \cup {None}]
  /\ caller \in [Call -> {"UNUSED", "WAITING", "ACCEPTED", "FAILED"}]
  /\ server \in [Call -> Supervisor \cup {None}]
  /\ handler \in [Call -> {"NONE", "READING", "ENDED"} \cup SlotSteps]
  /\ stamp \in [Call -> Time \cup {None}]
  /\ executor \in [Call -> {"NONE", "RUNNING", "PASS", "FAIL"}]
  /\ startedAt \in [Call -> Time \cup {None}]
  /\ answered \in [Call -> BOOLEAN]
  /\ mode \in [Supervisor -> {"OPEN", "CLOSING", "CLOSED", "STUCK"}]
  /\ slot \in [Supervisor -> BOOLEAN]

RpcInit ==
  /\ now \in Time /\ \A t \in Time : now <= t
  /\ rows = {}
  /\ request = [c \in Call |-> None]
  /\ caller = [c \in Call |-> "UNUSED"]
  /\ server = [c \in Call |-> None]
  /\ handler = [c \in Call |-> "NONE"]
  /\ stamp = [c \in Call |-> None]
  /\ executor = [c \in Call |-> "NONE"]
  /\ startedAt = [c \in Call |-> None]
  /\ answered = [c \in Call |-> FALSE]
  /\ mode = [s \in Supervisor |-> "OPEN"]
  /\ slot = [s \in Supervisor |-> FALSE]

Tick ==
  /\ \E t \in Time : t > now /\ now' = t
  /\ UNCHANGED <<rows, callVars, handlerVars, mode, slot>>

-----------------------------------------------------------------------------
(* The client                                                              *)

\* runRepair up to the call of the transport, which connects to a supervisor
\* and authenticates both ends; the request frame is on its way.
RunRepair(c, s, req) ==
  /\ caller[c] = "UNUSED"
  /\ mode[s] = "OPEN"
  /\ request' = [request EXCEPT ![c] = req]
  /\ caller' = [caller EXCEPT ![c] = "WAITING"]
  /\ server' = [server EXCEPT ![c] = s]
  /\ handler' = [handler EXCEPT ![c] = "READING"]
  /\ UNCHANGED <<now, rows, stamp, executor, startedAt, answered, mode, slot>>

\* The RPC timeout, an abort by the caller, or a transport failure: the
\* client destroys its socket, whatever the supervisor is doing.
GiveUp(c) ==
  /\ ~Left(c)
  /\ caller' = [caller EXCEPT ![c] = "FAILED"]
  /\ UNCHANGED <<now, rows, request, handlerVars, mode, slot>>

\* A signed response: accepted, or rejected by one of the checks of its
\* report, its bindings and its time, which use data and a clock of the client.
Receive(c) ==
  /\ caller[c] = "WAITING"
  /\ answered[c]
  /\ \/ executor[c] = "PASS" /\ caller' = [caller EXCEPT ![c] = "ACCEPTED"]
     \/ caller' = [caller EXCEPT ![c] = "FAILED"]
  /\ UNCHANGED <<now, rows, request, handlerVars, mode, slot>>

-----------------------------------------------------------------------------
(* The replay store                                                        *)

Names(row, c) == row.id = request[c].id \/ row.nonce = request[c].nonce
Unexpired(t) == {row \in rows : row.expires > t}
RowOf(c) == [id |-> request[c].id, nonce |-> request[c].nonce, expires |-> Expiry(c)]

MayConsume(c, kept) ==
  /\ \A row \in kept : ~Names(row, c)
  /\ Cardinality(kept) < ReplayCapacity

-----------------------------------------------------------------------------
(* The handler of a connection                                             *)

\* validateRequestWindow.
InWindow(c) ==
  /\ request[c].issued <= now + ClockSkew
  /\ Expiry(c) >= now

\* The finally block of the handler gives the slot back when the handler ends.
Goto(c, step) ==
  /\ handler' = [handler EXCEPT ![c] = step]
  /\ slot' = [slot EXCEPT ![server[c]] =
                IF step \in SlotSteps THEN TRUE
                ELSE IF handler[c] \in SlotSteps THEN FALSE ELSE @]

\* Identity, frame, time limit or JSON of the request is not as it should be.
RefuseFrame(c) ==
  /\ handler[c] = "READING"
  /\ Goto(c, "ENDED")
  /\ UNCHANGED <<now, rows, callVars, server, stamp, executor, startedAt, answered, mode>>

\* The frame is complete.  The slot is taken before the first await after it.
Admit(c) ==
  /\ handler[c] = "READING"
  /\ \/ InWindow(c) /\ ~slot[server[c]] /\ Goto(c, "CONSUMING")
     \/ ~(InWindow(c) /\ ~slot[server[c]]) /\ Goto(c, "ENDED")
  /\ stamp' = [stamp EXCEPT ![c] = now]
  /\ UNCHANGED <<now, rows, callVars, server, executor, startedAt, answered, mode>>

\* replayStore.consume, whose transaction waits for the writer lock: the time
\* it compares with was read before.  It may fail, and then changes nothing.
Consume(c) ==
  /\ handler[c] = "CONSUMING"
  /\ LET kept == Unexpired(stamp[c])
     IN \/ /\ Expiry(c) > stamp[c]
           /\ MayConsume(c, kept)
           /\ rows' = kept \cup {RowOf(c)}
           /\ Goto(c, "CONSUMED")
        \/ /\ Expiry(c) > stamp[c]
           /\ ~MayConsume(c, kept)
           /\ rows' = kept
           /\ Goto(c, "ENDED")
        \/ rows' = rows /\ Goto(c, "ENDED")
  /\ UNCHANGED <<now, callVars, server, stamp, executor, startedAt, answered, mode>>

StartableOnceAdmitted(c) == mode[server[c]] = "OPEN"              \* mutant
StartableThoughClosed(c) == InWindow(c)                           \* mutant
Startable(c) == mode[server[c]] = "OPEN" /\ InWindow(c)

\* After the await: the supervisor may have closed, the socket may be
\* destroyed (noticed or not), and the window is checked again.
StartExecution(c) ==
  /\ handler[c] = "CONSUMED"
  /\ \/ /\ Startable(c)
        /\ Goto(c, "EXECUTING")
        /\ executor' = [executor EXCEPT ![c] = "RUNNING"]
        /\ startedAt' = [startedAt EXCEPT ![c] = now]
     \/ /\ ~Startable(c) \/ Left(c)
        /\ Goto(c, "ENDED")
        /\ UNCHANGED <<executor, startedAt>>
  /\ UNCHANGED <<now, rows, callVars, server, stamp, answered, mode>>

\* The executor settles on its own, or some time after it was aborted.
Settle(c) ==
  /\ executor[c] = "RUNNING"
  /\ \E outcome \in {"PASS", "FAIL"} :
       executor' = [executor EXCEPT ![c] = outcome]
  /\ UNCHANGED <<now, rows, callVars, server, handler, stamp, startedAt, answered, mode, slot>>

\* executionTimer.
Deadline(c) ==
  /\ handler[c] = "EXECUTING"
  /\ now >= startedAt[c] + WallTime \/ now >= Expiry(c)
  /\ Goto(c, "ABORTING")
  /\ UNCHANGED <<now, rows, callVars, server, stamp, executor, startedAt, answered, mode>>

\* connectionMonitor: the client has hung up, or sends what it must not.
ConnectionChanges(c) ==
  /\ handler[c] = "EXECUTING"
  /\ Goto(c, "ABORTING")
  /\ UNCHANGED <<now, rows, callVars, server, stamp, executor, startedAt, answered, mode>>

SettledOrNot(c) == TRUE                                           \* mutant
HasSettled(c) == executor[c] # "RUNNING"

\* The catch block awaits the executor before the finally block runs.
FinishAbort(c) ==
  /\ handler[c] = "ABORTING"
  /\ HasSettled(c)
  /\ Goto(c, "ENDED")
  /\ UNCHANGED <<now, rows, callVars, server, stamp, executor, startedAt, answered, mode>>

SignableLate(c) ==                                                \* mutant
  /\ executor[c] = "PASS" => PassSigning
  /\ request[c].issued <= now
Signable(c) ==
  /\ executor[c] = "PASS" => PassSigning
  /\ request[c].issued <= now
  /\ now <= Expiry(c)

\* The race is won by the executor, with a result or an exception (a FAIL that
\* is not signed); buildSignedResponse checks result and time, and signs.
Complete(c) ==
  /\ handler[c] = "EXECUTING"
  /\ executor[c] # "RUNNING"
  /\ \/ Signable(c) /\ Goto(c, "SIGNING")
     \/ (~Signable(c) \/ executor[c] = "FAIL") /\ Goto(c, "ENDED")
  /\ stamp' = [stamp EXCEPT ![c] = now]
  /\ UNCHANGED <<now, rows, callVars, server, executor, startedAt, answered, mode>>

\* The response is written, unless the signer, a timer or the socket fails.
Respond(c) ==
  /\ handler[c] = "SIGNING"
  /\ \/ /\ mode[server[c]] = "OPEN"
        /\ answered' = [answered EXCEPT ![c] = TRUE]
     \/ UNCHANGED answered
  /\ Goto(c, "ENDED")
  /\ UNCHANGED <<now, rows, callVars, server, stamp, executor, startedAt, mode>>

-----------------------------------------------------------------------------
(* The supervisor                                                          *)

\* close(): controllers are aborted and sockets destroyed in one turn.
Close(s) ==
  /\ mode[s] = "OPEN"
  /\ mode' = [mode EXCEPT ![s] = "CLOSING"]
  /\ handler' = [c \in Call |-> IF server[c] = s /\ handler[c] = "EXECUTING"
                                  THEN "ABORTING" ELSE handler[c]]
  /\ UNCHANGED <<now, rows, callVars, server, stamp, executor, startedAt, answered, slot>>

AllSettled(s) == \A c \in Call : server[c] = s => executor[c] # "RUNNING"

\* executorSettlements, or the shutdown timeout.
CloseEnds(s) ==
  /\ mode[s] = "CLOSING"
  /\ \/ AllSettled(s) /\ mode' = [mode EXCEPT ![s] = "CLOSED"]
     \/ ~AllSettled(s) /\ mode' = [mode EXCEPT ![s] = "STUCK"]
  /\ UNCHANGED <<now, rows, callVars, handlerVars, slot>>

\* The process dies and a new supervisor listens: only the rows remain.
Restart(s) ==
  /\ mode' = [mode EXCEPT ![s] = "OPEN"]
  /\ slot' = [slot EXCEPT ![s] = FALSE]
  /\ handler' = [c \in Call |-> IF server[c] = s THEN "ENDED" ELSE handler[c]]
  /\ executor' = [c \in Call |-> IF server[c] = s /\ executor[c] = "RUNNING"
                                   THEN "FAIL" ELSE executor[c]]
  /\ UNCHANGED <<now, rows, callVars, server, stamp, startedAt, answered>>

HandlerStep(c) ==
  \/ Admit(c) \/ Consume(c) \/ StartExecution(c) \/ Deadline(c)
  \/ FinishAbort(c) \/ Complete(c) \/ Respond(c)

RpcNext ==
  \/ Tick
  \/ \E c \in Call :
       \/ \E s \in Supervisor, req \in Request : RunRepair(c, s, req)
       \/ GiveUp(c) \/ Receive(c)
       \/ RefuseFrame(c) \/ HandlerStep(c) \/ ConnectionChanges(c) \/ Settle(c)
  \/ \E s \in Supervisor : Close(s) \/ CloseEnds(s) \/ Restart(s)

RpcSpec == RpcInit /\ [][RpcNext]_rpcVars

-----------------------------------------------------------------------------
(* Properties                                                              *)

Executed(c) == startedAt[c] # None
SameCapability(c, d) ==
  request[c].id = request[d].id \/ request[c].nonce = request[d].nonce

\* While an executed request is valid, no other request with its ID or its
\* nonce is executed, by any supervisor of the replay file and across restarts.
\* The one exception starts in the last instant of its own validity, when the
\* store already forgets a request that the window still admits.
OneExecutionPerCapability ==
  \A c, d \in Call :
    ( /\ c # d /\ Executed(c) /\ Executed(d) /\ SameCapability(c, d)
      /\ startedAt[c] <= startedAt[d] ) =>
      Expiry(c) <= startedAt[d] \/ startedAt[d] = Expiry(d)

\* The slot is taken exactly while a handler of this supervisor is between its
\* two ends: no refusal, abort or failure leaks it, which would refuse every
\* later repair, and none gives it back while its executor still runs.
SlotHasOneOwner ==
  \A s \in Supervisor :
    LET owners == {c \in Call : server[c] = s /\ handler[c] \in SlotSteps}
    IN /\ slot[s] <=> owners # {}
       /\ \A c, d \in owners : c = d
       /\ \A c \in Call :
            (server[c] = s /\ executor[c] = "RUNNING") => c \in owners

\* When close() has returned, nothing runs and nothing starts any more, not
\* even for a request that was being admitted when close() was called.
ClosedIsQuiet ==
  \A c \in Call : (Executed(c) /\ mode[server[c]] = "CLOSED") => executor[c] # "RUNNING"

\* A client accepts a result only of work that is over, for its own request,
\* finished while the request was valid and without having been aborted.
AcceptedWorkIsOver ==
  \A c \in Call : caller[c] = "ACCEPTED" =>
    /\ Executed(c) /\ executor[c] = "PASS" /\ handler[c] = "ENDED"
    /\ startedAt[c] <= stamp[c]
    /\ request[c].issued <= stamp[c] /\ stamp[c] <= Expiry(c)

=============================================================================
