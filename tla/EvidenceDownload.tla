-------------------------- MODULE EvidenceDownload --------------------------
(* Requests for the evidence archive while packages are published          *)
(* (src/app/api/evidence, src/src/evidence/archive-cache.ts and files.ts,  *)
(* src/scripts/generate-offline-evidence.mjs).  A request reads the files  *)
(* one after the other, and a publisher removes them all and writes them   *)
(* one after the other, so that a request may read files of two packages.  *)
(* Its key is the hash of all it read.  The files are grouped in three     *)
(* pieces, in the order in which they are read and written.                *)
(*                                                                         *)
(* The cache is modelled for builders that take time, as its interface     *)
(* allows; the route's own builder runs to its end in one turn.            *)
EXTENDS Naturals, Sequences, SequencesExt

CONSTANTS
    MaxRequests,    \* bound: how many requests are made
    Scenarios,      \* what is published, and how many requests there are
    Ttl,            \* how long the cache keeps an archive
    MaxTime,        \* bound: where the clock stops
    PiecesOf(_),    \* the pieces of a package; equal content has one name
    Accepts(_, _),  \* whether the files of three pieces are valid at a time
    IsLive(_), LiveExpiry(_),   \* of their attestation
    Genuine         \* the packages that may be served

ASSUME DownloadAssumption ==
    /\ MaxRequests \in Nat /\ Ttl \in Nat \ {0} /\ MaxTime \in Nat
    /\ \A s \in Scenarios :
        /\ s.requests \in 1..MaxRequests
        /\ s.published \in Seq(ToSet(s.published)) \ {<< >>}

VARIABLES
    scenario,       \* of Scenarios
    directory,      \* the package each piece on the disk is of, or Absent
    publisher,      \* the packages still to come, the pieces still to write
    clock,
    request,        \* of each request: where it is, what it read, what it got
    builds,         \* the outcome of the build each request started
    active,         \* the request whose build the cache waits for, or 0
    completed       \* the entry of the cache

cache == <<builds, active, completed>>
vars == <<scenario, directory, publisher, clock, request, cache>>

-----------------------------------------------------------------------------
(* The pieces.                                                             *)

Pieces == <<"artifacts", "reports", "manifest">>
Absent == "absent"
Nothing == [piece \in ToSet(Pieces) |-> Absent]

ASSUME PiecesAssumption ==
    \A s \in Scenarios : \A name \in ToSet(s.published) :
        /\ PiecesOf(name) = [piece \in ToSet(Pieces) |-> PiecesOf(name)[piece]]
        /\ \A piece \in ToSet(Pieces) : PiecesOf(name)[piece] # Absent

(* What can be read while these packages are published, each piece of any. *)
MayBeRead(published) ==
    { [piece \in ToSet(Pieces) |-> PiecesOf(from[piece])[piece]] :
        from \in [ToSet(Pieces) -> ToSet(published)] }

(* Whatever is accepted and live has a time at which its claim ends.       *)
ASSUME ExpiryAssumption ==
    \A s \in Scenarios : \A pieces \in MayBeRead(s.published) : \A time \in 0..MaxTime :
        Accepts(pieces, time) /\ IsLive(pieces) => LiveExpiry(pieces) \in Nat

-----------------------------------------------------------------------------
(* The cache.                                                              *)

Request == 1..MaxRequests
NoEntry == [key |-> Nothing, builtAt |-> 0]
NoBuild == [state |-> "none", entry |-> NoEntry]

(* Mutant: the cache looks at its own time limit only.                     *)
IsUsableWhileKept(entry) == entry.builtAt + Ttl > clock
IsUsable(entry) ==
    /\ entry.builtAt + Ttl > clock
    /\ IsLive(entry.key) => LiveExpiry(entry.key) >= clock

Respond(r, entry) == request' = [request EXCEPT ![r].at = "served", ![r].got = entry]
Fail(r) == request' = [request EXCEPT ![r].at = "unavailable"]

(* A usable archive of this key, else the active build, else a new one.    *)
GetOrCreate(r) ==
    LET key == request[r].read IN
    \/ /\ completed.key = key /\ IsUsable(completed)
       /\ Respond(r, completed)
       /\ UNCHANGED <<builds, active>>
    \/ /\ ~(completed.key = key /\ IsUsable(completed))
       /\ active # 0
       /\ request' = [request EXCEPT ![r].at = "waiting", ![r].observed = active]
       /\ UNCHANGED <<builds, active>>
    \/ /\ ~(completed.key = key /\ IsUsable(completed))
       /\ active = 0
       /\ active' = r
       /\ builds' = [builds EXCEPT ![r].state = "building"]
       /\ request' = [request EXCEPT ![r].at = "building"]

-----------------------------------------------------------------------------
(* A request.                                                              *)

(* Requests are numbered in the order in which they come.                  *)
Start(r) ==
    /\ request[r].at = "none" /\ r <= scenario.requests
    /\ \A other \in 1..(r - 1) : request[other].at # "none"
    /\ request' = [request EXCEPT ![r].at = "reading", ![r].asked = clock]
    /\ UNCHANGED <<scenario, directory, publisher, clock, cache>>

ReadPiece(r) ==
    /\ request[r].at = "reading"
    /\ \E i \in DOMAIN Pieces :
        /\ \A j \in DOMAIN Pieces : (request[r].read[Pieces[j]] = Absent) = (j >= i)
        /\ IF directory[Pieces[i]] = Absent
           THEN Fail(r)
           ELSE request' = [request EXCEPT
                    ![r].read[Pieces[i]] = directory[Pieces[i]],
                    ![r].at = IF i = Len(Pieces) THEN "read" ELSE "reading"]
    /\ UNCHANGED <<scenario, directory, publisher, clock, cache>>

Lookup(r) ==
    /\ request[r].at = "read"
    /\ GetOrCreate(r)
    /\ UNCHANGED <<scenario, directory, publisher, clock, completed>>

Validate(r) ==
    /\ builds[r].state = "building"
    /\ builds' = [builds EXCEPT ![r].state =
                    IF Accepts(request[r].read, clock) THEN "validated" ELSE "failed"]
    /\ UNCHANGED <<scenario, directory, publisher, clock, request, active, completed>>

Complete(r) ==
    LET entry == [key |-> request[r].read, builtAt |-> clock] IN
    /\ builds[r].state = "validated"
    /\ IF IsLive(entry.key) /\ LiveExpiry(entry.key) < clock
       THEN /\ builds' = [builds EXCEPT ![r].state = "failed"]
            /\ UNCHANGED completed
       ELSE /\ builds' = [builds EXCEPT ![r] = [state |-> "built", entry |-> entry]]
            /\ completed' = entry
    /\ UNCHANGED <<scenario, directory, publisher, clock, request, active>>

(* Mutant: the build is forgotten only when it succeeded.                  *)
ReturnKeepsFailure(r) ==
    /\ request[r].at = "building" /\ builds[r].state \in {"built", "failed"}
    /\ active' = IF active = r /\ builds[r].state = "built" THEN 0 ELSE active
    /\ IF builds[r].state = "built" THEN Respond(r, builds[r].entry) ELSE Fail(r)
    /\ UNCHANGED <<scenario, directory, publisher, clock, builds, completed>>

Return(r) ==
    /\ request[r].at = "building" /\ builds[r].state \in {"built", "failed"}
    /\ active' = IF active = r THEN 0 ELSE active
    /\ IF builds[r].state = "built" THEN Respond(r, builds[r].entry) ELSE Fail(r)
    /\ UNCHANGED <<scenario, directory, publisher, clock, builds, completed>>

(* Those who wait go on after the request that built.                      *)
Wake(r) ==
    LET build == builds[request[r].observed]
        ours == request[request[r].observed].read = request[r].read
    IN /\ request[r].at = "waiting"
       /\ request[request[r].observed].at \in {"served", "unavailable"}
       /\ \/ /\ build.state = "built" /\ ours /\ IsUsable(build.entry)
             /\ Respond(r, build.entry)
             /\ UNCHANGED <<builds, active>>
          \/ /\ build.state = "failed" /\ ours
             /\ Fail(r)
             /\ UNCHANGED <<builds, active>>
          \/ /\ ~(ours /\ (build.state = "failed" \/ IsUsable(build.entry)))
             /\ GetOrCreate(r)
       /\ UNCHANGED <<scenario, directory, publisher, clock, completed>>

Serve(r) ==
    ReadPiece(r) \/ Lookup(r) \/ Validate(r) \/ Complete(r) \/ Return(r) \/ Wake(r)

-----------------------------------------------------------------------------
(* The publisher and the clock.                                            *)

BeginPublication ==
    /\ publisher.left = << >> /\ publisher.next # << >>
    /\ directory' = Nothing
    /\ publisher' = [name |-> Head(publisher.next), left |-> Pieces,
                     next |-> Tail(publisher.next)]
    /\ UNCHANGED <<scenario, clock, request, cache>>

WritePiece ==
    /\ publisher.left # << >>
    /\ directory' = [directory EXCEPT ![Head(publisher.left)] =
                        PiecesOf(publisher.name)[Head(publisher.left)]]
    /\ publisher' = [publisher EXCEPT !.left = Tail(@)]
    /\ UNCHANGED <<scenario, clock, request, cache>>

(* The publisher dies: what it wrote stays.                                *)
Crash ==
    /\ publisher.left # << >>
    /\ publisher' = [publisher EXCEPT !.left = << >>]
    /\ UNCHANGED <<scenario, directory, clock, request, cache>>

Tick ==
    /\ clock < MaxTime
    /\ clock' = clock + 1
    /\ UNCHANGED <<scenario, directory, publisher, request, cache>>

-----------------------------------------------------------------------------
Init ==
    /\ scenario \in Scenarios
    /\ directory = PiecesOf(Head(scenario.published))
    /\ publisher = [name |-> Head(scenario.published), left |-> << >>,
                    next |-> Tail(scenario.published)]
    /\ clock \in 0..MaxTime
    /\ request = [r \in Request |->
                    [at |-> "none", asked |-> 0, read |-> Nothing, observed |-> 0, got |-> NoEntry]]
    /\ builds = [r \in Request |-> NoBuild]
    /\ active = 0
    /\ completed = NoEntry

Next ==
    \/ \E r \in Request : Start(r) \/ Serve(r)
    \/ BeginPublication \/ WritePiece \/ Crash \/ Tick

(* The event loop serves every request; nothing is asked of the publisher. *)
Spec == Init /\ [][Next]_vars /\ \A r \in Request : WF_vars(Serve(r))
-----------------------------------------------------------------------------
(* What is promised.                                                       *)

Served == {r \in Request : request[r].at = "served"}

(* Whoever is served gets the files it read, and they are those of one     *)
(* package that was published, whatever the publisher did meanwhile, and   *)
(* of one that may be served, its claims being borne out by its details    *)
(* (the key of archive-cache.ts, the checks of validate.ts).               *)
ServedIsGenuine ==
    \A r \in Served :
        /\ request[r].got.key = request[r].read
        /\ \E name \in Genuine \cap ToSet(scenario.published) :
            request[r].got.key = PiecesOf(name)

(* At the time of the request the archive was not older than the cache     *)
(* allows, and the attestation of a live one still stood.                  *)
FreshWhenServed ==
    \A r \in Served :
        /\ request[r].got.builtAt + Ttl > request[r].asked
        /\ IsLive(request[r].got.key) => LiveExpiry(request[r].got.key) >= request[r].asked

(* Every request is answered: each is made once, and in the end none is    *)
(* under way.                                                              *)
RequestsAreAnswered ==
    <>[](\A r \in Request : request[r].at \in {"none", "served", "unavailable"})
=============================================================================
