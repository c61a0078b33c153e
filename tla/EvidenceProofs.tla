--------------------------- MODULE EvidenceProofs ---------------------------
(* Two proofs about evidence: of the archive that a request is served, and *)
(* of the account that a session gives of the CPU its roles used.          *)
(*                                                                         *)
(* The archive, for any number of requests, any packages and any times.    *)
(* A build starts after the request that made it and before its answer, so *)
(* what it makes is younger than the request; what another request built   *)
(* is looked at again, at a time that is not before that of the request.   *)
(* And nothing is ever made of pieces that the check did not accept.       *)
(*                                                                         *)
(* The account, for any readings and failures of the port and transcripts  *)
(* of any length.  The transcript tells of each role what its record says, *)
(* and nothing else (Told), so that the checks of the reader, which count  *)
(* and compare places of the transcript, can be made on the records; each  *)
(* step of a call appends one event and keeps that (RoleStep).  While the  *)
(* session is open, nothing has failed, every reading is of the port, and  *)
(* the roles have run in their order (OpenInv).  Whatever ends it appends  *)
(* to such a transcript a stop, or a failure and its containment, and      *)
(* evidence is made of the records.                                        *)
EXTENDS EvidenceDownload, CpuEvidenceProducer, FiniteSetTheorems, TLAPS

Names == ToSet(scenario.published)
Piece == ToSet(Pieces)

(* The pieces on the disk and those read so far are each of some package.  *)
PieceNames == {Absent} \cup {PiecesOf(name)[piece] : name \in Names, piece \in Piece}
PartlyRead ==
    { pieces \in [Piece -> PieceNames] : \A piece \in Piece :
        pieces[piece] = Absent \/ \E name \in Names : pieces[piece] = PiecesOf(name)[piece] }
Whole(pieces) == \A piece \in Piece : pieces[piece] # Absent
Accepted(pieces) == \E time \in 0..MaxTime : Accepts(pieces, time)

Entry == [key : PartlyRead, builtAt : 0..MaxTime]
Publication == [name : Names, left : Seq(Piece), next : Seq(Names)]
RequestState ==
    [at : {"none", "reading", "read", "waiting", "building", "served", "unavailable"},
     asked : 0..MaxTime, read : PartlyRead, observed : 0..MaxRequests, got : Entry]
BuildState == [state : {"none", "building", "validated", "built", "failed"}, entry : Entry]
DownloadTypeOK ==
    /\ scenario \in Scenarios
    /\ directory \in PartlyRead
    /\ publisher \in Publication
    /\ clock \in 0..MaxTime
    /\ request \in [Request -> RequestState]
    /\ builds \in [Request -> BuildState]
    /\ active \in 0..MaxRequests
    /\ completed \in Entry

(* An entry that someone may be given: accepted, and its claim stood when  *)
(* it was made.                                                            *)
Sound(entry) ==
    /\ Whole(entry.key) /\ Accepted(entry.key)
    /\ IsLive(entry.key) => LiveExpiry(entry.key) >= entry.builtAt

RequestFits(r) ==
    /\ request[r].asked <= clock
    /\ request[r].at \in {"read", "waiting", "building", "served"} => Whole(request[r].read)
    /\ request[r].at = "waiting" =>
        /\ request[r].observed \in Request
        /\ builds[request[r].observed].state # "none"
    /\ request[r].at = "served" =>
        /\ request[r].got.key = request[r].read
        /\ Sound(request[r].got)
        /\ request[r].got.builtAt + Ttl > request[r].asked
        /\ IsLive(request[r].got.key) => LiveExpiry(request[r].got.key) >= request[r].asked

BuildFits(r) ==
    /\ builds[r].state # "none" =>
        /\ request[r].at \in {"building", "served", "unavailable"}
        /\ Whole(request[r].read)
    /\ builds[r].state \in {"validated", "built"} => Accepted(request[r].read)
    /\ builds[r].state = "built" =>
        /\ builds[r].entry.key = request[r].read
        /\ builds[r].entry.builtAt >= request[r].asked
        /\ Sound(builds[r].entry)

CacheFits ==
    /\ active # 0 => builds[active].state # "none"
    /\ Whole(completed.key) => Sound(completed)

DownloadInv ==
    /\ DownloadTypeOK
    /\ \A r \in Request : RequestFits(r) /\ BuildFits(r)
    /\ CacheFits

-----------------------------------------------------------------------------
(* The pieces.                                                             *)

(* There are three pieces, in this order.                                  *)
LEMMA ThreePieces ==
    /\ Piece = {"artifacts", "reports", "manifest"}
    /\ DOMAIN Pieces = 1..3 /\ Len(Pieces) = 3
    /\ Pieces[1] = "artifacts" /\ Pieces[2] = "reports" /\ Pieces[3] = "manifest"
    /\ Pieces \in Seq(Piece) /\ Pieces # << >>
BY DEF Piece, Pieces, ToSet

(* What is written or read is again each of some package.                  *)
LEMMA PieceIsPartlyRead ==
    ASSUME NEW pieces \in PartlyRead, NEW piece \in Piece, NEW name \in Names
    PROVE  [pieces EXCEPT ![piece] = PiecesOf(name)[piece]] \in PartlyRead
BY DEF PartlyRead, PieceNames

LEMMA ReadIsPartlyRead ==
    ASSUME NEW pieces \in PartlyRead, NEW piece \in Piece, NEW other \in PartlyRead
    PROVE  [pieces EXCEPT ![piece] = other[piece]] \in PartlyRead
BY DEF PartlyRead

LEMMA NothingIsPartlyRead ==
    Nothing \in PartlyRead /\ ~Whole(Nothing)
BY ThreePieces DEF Nothing, PartlyRead, PieceNames, Whole, Piece

LEMMA PackageIsPartlyRead ==
    ASSUME scenario \in Scenarios, NEW name \in Names
    PROVE  PiecesOf(name) \in PartlyRead
<1>1. PiecesOf(name) \in [Piece -> PieceNames]
  BY PiecesAssumption DEF PieceNames, Names, Piece
<1> QED BY <1>1 DEF PartlyRead

(* The last piece to be read makes the whole.                              *)
LEMMA LastPieceMakesWhole ==
    ASSUME NEW pieces \in PartlyRead, NEW i \in DOMAIN Pieces, i = Len(Pieces),
           \A j \in DOMAIN Pieces : (pieces[Pieces[j]] = Absent) = (j >= i),
           NEW value, value # Absent
    PROVE  Whole([pieces EXCEPT ![Pieces[i]] = value])
BY ThreePieces DEF Whole, PartlyRead

-----------------------------------------------------------------------------
(* Types.                                                                  *)

LEMMA InitialTypes ==
    ASSUME Init
    PROVE  DownloadTypeOK
<1>1. Head(scenario.published) \in Names /\ Tail(scenario.published) \in Seq(Names)
  <2>1. scenario.published \in Seq(Names) /\ scenario.published # << >>
    BY DownloadAssumption DEF Init, Names
  <2>2. Len(scenario.published) > 0
    BY <2>1
  <2> QED BY <2>1, <2>2 DEF Names, ToSet
<1> QED
  BY <1>1, PackageIsPartlyRead, NothingIsPartlyRead, DownloadAssumption, ThreePieces
     DEF Init, DownloadTypeOK, Publication, RequestState, BuildState, Entry, NoEntry, NoBuild, Request
(* Nothing changes the scenario, and so nothing changes what is meant by   *)
(* the pieces of its packages.                                             *)
MeaningStands ==
    /\ scenario' = scenario /\ Names' = Names /\ PartlyRead' = PartlyRead
    /\ Entry' = Entry /\ Publication' = Publication
    /\ RequestState' = RequestState /\ BuildState' = BuildState

LEMMA ScenarioStands ==
    ASSUME [Next]_vars
    PROVE  MeaningStands
<1>1. scenario' = scenario
  BY DEF Next, vars, Serve, Start, ReadPiece, Lookup, Validate, Complete, Return, Wake,
         BeginPublication, WritePiece, Crash, Tick
<1> QED
  BY <1>1 DEF MeaningStands, PartlyRead, PieceNames, Names, Entry, Publication, RequestState,
              BuildState

LEMMA GetOrCreateKeepsTypes ==
    ASSUME DownloadTypeOK, NEW r \in Request, GetOrCreate(r), MeaningStands,
           UNCHANGED <<directory, publisher, clock, completed>>
    PROVE  DownloadTypeOK'
<1>1. r \in 0..MaxRequests
  BY DownloadAssumption DEF Request
<1>2. request' \in [Request -> RequestState]
  BY <1>1 DEF DownloadTypeOK, GetOrCreate, Respond, RequestState
<1>3. builds' \in [Request -> BuildState] /\ active' \in 0..MaxRequests
  BY <1>1 DEF DownloadTypeOK, GetOrCreate, BuildState
<1> QED BY <1>2, <1>3 DEF DownloadTypeOK, MeaningStands

LEMMA AnswerKeepsTypes ==
    ASSUME NEW r \in Request, request \in [Request -> RequestState],
           \/ Fail(r)
           \/ \E entry \in Entry : Respond(r, entry)
    PROVE  request' \in [Request -> RequestState]
<1>1. [request[r] EXCEPT !.at = "unavailable"] \in RequestState
  BY DEF RequestState
<1>2. \A entry \in Entry : [request[r] EXCEPT !.at = "served", !.got = entry] \in RequestState
  BY DEF RequestState
<1> QED BY <1>1, <1>2 DEF Fail, Respond

LEMMA StepKeepsTypes ==
    ASSUME DownloadInv, [Next]_vars
    PROVE  DownloadTypeOK'
<1>0. MeaningStands
  BY ScenarioStands
<1> USE <1>0, DownloadAssumption DEF DownloadInv, DownloadTypeOK, MeaningStands
<1>1. CASE UNCHANGED vars
  BY <1>1 DEF vars, cache
<1>2. ASSUME NEW r \in Request, Start(r)
      PROVE  DownloadTypeOK'
  <2>1. request' \in [Request -> RequestState]
    BY ZenonT(40), <1>2 DEF Start, RequestState
  <2> QED BY <1>2, <2>1 DEF Start, cache
<1>3. ASSUME NEW r \in Request, ReadPiece(r)
      PROVE  DownloadTypeOK'
  <2>1. PICK i \in DOMAIN Pieces :
            IF directory[Pieces[i]] = Absent
            THEN Fail(r)
            ELSE request' = [request EXCEPT
                    ![r].read[Pieces[i]] = directory[Pieces[i]],
                    ![r].at = IF i = Len(Pieces) THEN "read" ELSE "reading"]
    BY <1>3 DEF ReadPiece
  <2>2. [request[r].read EXCEPT ![Pieces[i]] = directory[Pieces[i]]] \in PartlyRead
    BY ReadIsPartlyRead, ThreePieces DEF RequestState
  <2>3. request' \in [Request -> RequestState]
    <3>1. \A at \in {"read", "reading"} : \A read \in PartlyRead :
            [request[r] EXCEPT !.read = read, !.at = at] \in RequestState
      BY DEF RequestState
    <3>2. [request[r] EXCEPT !.at = "unavailable"] \in RequestState
      BY DEF RequestState
    <3> QED BY <2>1, <2>2, <3>1, <3>2 DEF Fail
  <2> QED BY <1>3, <2>3 DEF ReadPiece, cache
<1>4. ASSUME NEW r \in Request, Lookup(r)
      PROVE  DownloadTypeOK'
  BY <1>4, GetOrCreateKeepsTypes DEF Lookup
<1>5. ASSUME NEW r \in Request, Validate(r)
      PROVE  DownloadTypeOK'
  <2>1. builds' \in [Request -> BuildState]
    BY <1>5 DEF Validate, BuildState
  <2> QED BY <1>5, <2>1 DEF Validate
<1>6. ASSUME NEW r \in Request, Complete(r)
      PROVE  DownloadTypeOK'
  <2>1. [key |-> request[r].read, builtAt |-> clock] \in Entry
    BY DEF Entry, RequestState
  <2>2. builds' \in [Request -> BuildState] /\ completed' \in Entry
    <3>1. \A entry \in Entry :
            /\ [state |-> "built", entry |-> entry] \in BuildState
            /\ [builds[r] EXCEPT !.state = "failed"] \in BuildState
      BY DEF BuildState
    <3> QED BY <1>6, <2>1, <3>1 DEF Complete
  <2> QED BY <1>6, <2>2 DEF Complete
<1>7. ASSUME NEW r \in Request, Return(r)
      PROVE  DownloadTypeOK'
  <2>1. request' \in [Request -> RequestState]
    BY <1>7, AnswerKeepsTypes DEF Return, BuildState
  <2> QED BY <1>7, <2>1 DEF Return
<1>8. ASSUME NEW r \in Request, Wake(r)
      PROVE  DownloadTypeOK'
  <2>1. request[r].observed \in Request
    BY <1>8 DEF Wake, RequestFits
  <2>2. CASE GetOrCreate(r)
    BY <1>8, <2>2, GetOrCreateKeepsTypes DEF Wake
  <2>3. CASE UNCHANGED <<builds, active>>
             /\ (Respond(r, builds[request[r].observed].entry) \/ Fail(r))
    <3>1. request' \in [Request -> RequestState]
      BY <2>1, <2>3, AnswerKeepsTypes DEF BuildState
    <3> QED BY <1>8, <2>3, <3>1 DEF Wake
  <2> QED BY <1>8, <2>2, <2>3 DEF Wake
<1>9. CASE BeginPublication
  <2>1. Head(publisher.next) \in Names /\ Tail(publisher.next) \in Seq(Names)
    BY <1>9 DEF BeginPublication, Publication
  <2>2. publisher' \in Publication
    BY <1>9, <2>1, ThreePieces DEF BeginPublication, Publication
  <2> QED BY <1>9, <2>2, NothingIsPartlyRead DEF BeginPublication, cache
<1>10. CASE WritePiece
  <2>1. /\ publisher.name \in Names
        /\ Head(publisher.left) \in Piece /\ Tail(publisher.left) \in Seq(Piece)
    BY <1>10 DEF WritePiece, Publication
  <2>2. publisher' \in Publication /\ directory' \in PartlyRead
    BY <1>10, <2>1, PieceIsPartlyRead DEF WritePiece, Publication
  <2> QED BY <1>10, <2>2 DEF WritePiece, cache
<1>11. CASE Crash
  <2>1. publisher' \in Publication
    <3>1. << >> \in Seq(Piece)
      OBVIOUS
    <3> QED BY <1>11, <3>1 DEF Crash, Publication
  <2> QED BY <1>11, <2>1 DEF Crash, cache
<1>12. CASE Tick
  BY <1>12 DEF Tick, cache
<1> QED
  BY <1>1, <1>2, <1>3, <1>4, <1>5, <1>6, <1>7, <1>8, <1>9, <1>10, <1>11, <1>12
     DEF Next, Serve
-----------------------------------------------------------------------------
(* What is known of requests, builds and the cache.                        *)

LEMMA WholeMayBeRead ==
    ASSUME NEW pieces \in PartlyRead, Whole(pieces)
    PROVE  pieces \in MayBeRead(scenario.published)
<1> DEFINE from == [piece \in Piece |-> CHOOSE name \in Names :
                        pieces[piece] = PiecesOf(name)[piece]]
<1>1. from \in [Piece -> Names]
      /\ pieces = [piece \in Piece |-> PiecesOf(from[piece])[piece]]
  BY DEF PartlyRead, Whole
<1> QED BY <1>1 DEF MayBeRead, Names, Piece

(* The claim of what was accepted whole ends at a time.                    *)
LEMMA AcceptedHasExpiry ==
    ASSUME scenario \in Scenarios, NEW pieces \in PartlyRead, Whole(pieces),
           Accepted(pieces), IsLive(pieces)
    PROVE  LiveExpiry(pieces) \in Nat
<1>1. PICK time \in 0..MaxTime : Accepts(pieces, time)
  BY DEF Accepted
<1> QED BY <1>1, WholeMayBeRead, ExpiryAssumption

(* Time may pass, and builds that were begun may go on.                    *)
LEMMA UntouchedStillFits ==
    ASSUME NEW q \in Request, RequestFits(q), BuildFits(q), DownloadTypeOK,
           request'[q] = request[q], builds'[q] = builds[q],
           clock' \in 0..MaxTime, clock <= clock',
           \A b \in Request : builds[b].state # "none" => builds'[b].state # "none"
    PROVE  RequestFits(q)' /\ BuildFits(q)'
<1>1. request[q].asked \in 0..MaxTime /\ clock \in 0..MaxTime
  BY DEF DownloadTypeOK, RequestState
<1>2. request[q].asked <= clock'
  BY <1>1, DownloadAssumption DEF RequestFits
<1>3. RequestFits(q)'
  BY <1>2 DEF RequestFits, Sound, Whole, Accepted
<1>4. BuildFits(q)'
  BY DEF BuildFits, Sound, Whole, Accepted
<1> QED BY <1>3, <1>4

(* Who is given a sound entry that is usable now is served well.           *)
LEMMA UsableIsFresh ==
    ASSUME DownloadTypeOK, NEW r \in Request, request[r].asked <= clock,
           NEW entry \in Entry, Sound(entry), IsUsable(entry)
    PROVE  /\ entry.builtAt + Ttl > request[r].asked
           /\ IsLive(entry.key) => LiveExpiry(entry.key) >= request[r].asked
<1>1. /\ request[r].asked \in Nat /\ clock \in Nat /\ entry.builtAt \in Nat
      /\ Ttl \in Nat /\ scenario \in Scenarios
  BY DownloadAssumption DEF DownloadTypeOK, RequestState, Entry
<1>2. IsLive(entry.key) => LiveExpiry(entry.key) \in Nat
  BY <1>1, AcceptedHasExpiry DEF Sound, Entry
<1> QED BY <1>1, <1>2 DEF IsUsable

(* So is who waited for a build of its own, which is younger still.        *)
LEMMA OwnBuildIsFresh ==
    ASSUME DownloadTypeOK, NEW r \in Request,
           NEW entry \in Entry, Sound(entry), entry.builtAt >= request[r].asked
    PROVE  /\ entry.builtAt + Ttl > request[r].asked
           /\ IsLive(entry.key) => LiveExpiry(entry.key) >= request[r].asked
<1>1. /\ request[r].asked \in Nat /\ entry.builtAt \in Nat
      /\ Ttl \in Nat \ {0} /\ scenario \in Scenarios
  BY DownloadAssumption DEF DownloadTypeOK, RequestState, Entry
<1>2. IsLive(entry.key) => LiveExpiry(entry.key) \in Nat
  BY <1>1, AcceptedHasExpiry DEF Sound, Entry
<1> QED BY <1>1, <1>2 DEF Sound

AllFit == (\A q \in Request : RequestFits(q) /\ BuildFits(q)) /\ CacheFits

(* A step of one request leaves the others as they are.                    *)
LEMMA OwnStepKeepsFit ==
    ASSUME DownloadInv, NEW r \in Request, UNCHANGED clock,
           \A q \in Request \ {r} : request'[q] = request[q] /\ builds'[q] = builds[q],
           builds[r].state # "none" => builds'[r].state # "none",
           RequestFits(r)', BuildFits(r)', CacheFits'
    PROVE  AllFit'
<1>1. clock' \in 0..MaxTime /\ clock <= clock'
  BY DownloadAssumption DEF DownloadInv, DownloadTypeOK
<1>2. ASSUME NEW q \in Request, q # r
      PROVE  (RequestFits(q) /\ BuildFits(q))'
  BY <1>1, <1>2, UntouchedStillFits DEF DownloadInv
<1> QED BY <1>2 DEF AllFit

LEMMA GetOrCreateKeepsFit ==
    ASSUME DownloadInv, NEW r \in Request, request[r].at \in {"read", "waiting"},
           GetOrCreate(r), UNCHANGED <<clock, completed>>
    PROVE  AllFit'
<1> USE DEF DownloadInv
<1>0. /\ request \in [Request -> RequestState] /\ builds \in [Request -> BuildState]
      /\ completed \in Entry /\ active \in 0..MaxRequests
  BY DEF DownloadTypeOK
<1>1. Whole(request[r].read) /\ request[r].asked <= clock /\ builds[r].state = "none"
  BY DEF RequestFits, BuildFits
<1>2. CASE /\ completed.key = request[r].read /\ IsUsable(completed)
           /\ Respond(r, completed)
           /\ UNCHANGED <<builds, active>>
  <2>1. Sound(completed)
    BY <1>1, <1>2 DEF CacheFits
  <2>2. /\ request' = [request EXCEPT ![r].at = "served", ![r].got = completed]
        /\ request'[r].at = "served" /\ request'[r].got = completed
        /\ request'[r].read = request[r].read /\ request'[r].asked = request[r].asked
    BY <1>0, <1>2 DEF Respond, RequestState
  <2>3. RequestFits(r)'
    BY <1>1, <1>0, <1>2, <2>1, <2>2, UsableIsFresh DEF RequestFits, Sound, Whole, Accepted
  <2>4. BuildFits(r)' /\ CacheFits'
    BY <1>1, <1>2, <2>2 DEF BuildFits, CacheFits, Sound, Whole, Accepted
  <2> QED BY <1>0, <1>2, <2>2, <2>3, <2>4, OwnStepKeepsFit
<1>3. CASE /\ active # 0
           /\ request' = [request EXCEPT ![r].at = "waiting", ![r].observed = active]
           /\ UNCHANGED <<builds, active>>
  <2>1. active \in Request /\ builds[active].state # "none"
    BY <1>0, <1>3, DownloadAssumption DEF CacheFits, Request
  <2>2. /\ request'[r].at = "waiting" /\ request'[r].observed = active
        /\ request'[r].read = request[r].read /\ request'[r].asked = request[r].asked
    BY <1>0, <1>3 DEF RequestState
  <2>3. RequestFits(r)' /\ BuildFits(r)' /\ CacheFits'
    BY <1>1, <1>3, <2>1, <2>2
       DEF RequestFits, BuildFits, CacheFits, Sound, Whole, Accepted
  <2> QED BY <1>0, <1>3, <2>3, OwnStepKeepsFit
<1>4. CASE /\ active' = r
           /\ builds' = [builds EXCEPT ![r].state = "building"]
           /\ request' = [request EXCEPT ![r].at = "building"]
  <2>1. /\ request'[r].at = "building" /\ request'[r].read = request[r].read
        /\ request'[r].asked = request[r].asked /\ builds'[r].state = "building"
    BY <1>0, <1>4 DEF RequestState, BuildState
  <2>2. RequestFits(r)' /\ BuildFits(r)' /\ CacheFits'
    BY <1>1, <1>4, <2>1
       DEF RequestFits, BuildFits, CacheFits, Sound, Whole, Accepted
  <2> QED BY <1>4, <2>1, <2>2, OwnStepKeepsFit
<1> QED BY <1>2, <1>3, <1>4 DEF GetOrCreate

LEMMA WakeKeepsFit ==
    ASSUME DownloadInv, NEW r \in Request, Wake(r)
    PROVE  AllFit'
<1> USE DEF DownloadInv
<1> DEFINE first == request[r].observed
<1>0. /\ request \in [Request -> RequestState] /\ builds \in [Request -> BuildState]
      /\ request[r].at = "waiting" /\ UNCHANGED <<clock, completed>>
  BY DEF DownloadTypeOK, Wake
<1>1. first \in Request /\ builds[first].state # "none" /\ builds[r].state = "none"
      /\ Whole(request[r].read) /\ request[r].asked <= clock
  BY <1>0 DEF RequestFits, BuildFits
<1>2. CASE /\ builds[first].state = "built" /\ request[first].read = request[r].read
           /\ IsUsable(builds[first].entry) /\ Respond(r, builds[first].entry)
           /\ UNCHANGED <<builds, active>>
  <2>1. /\ Sound(builds[first].entry) /\ builds[first].entry.key = request[r].read
        /\ builds[first].entry \in Entry
    BY <1>0, <1>1, <1>2 DEF BuildFits, BuildState
  <2>2. /\ request'[r].at = "served" /\ request'[r].got = builds[first].entry
        /\ request'[r].read = request[r].read /\ request'[r].asked = request[r].asked
        /\ request' = [request EXCEPT ![r].at = "served", ![r].got = builds[first].entry]
    BY <1>0, <1>2 DEF Respond, RequestState
  <2>3. RequestFits(r)'
    BY <1>1, <1>0, <1>2, <2>1, <2>2, UsableIsFresh DEF RequestFits, Sound, Whole, Accepted
  <2>4. BuildFits(r)' /\ CacheFits'
    BY <1>0, <1>1, <1>2, <2>2 DEF BuildFits, CacheFits, Sound, Whole, Accepted
  <2> QED BY <1>0, <1>2, <2>2, <2>3, <2>4, OwnStepKeepsFit
<1>3. CASE Fail(r) /\ UNCHANGED <<builds, active>>
  <2>1. /\ request' = [request EXCEPT ![r].at = "unavailable"]
        /\ request'[r].at = "unavailable" /\ request'[r].asked = request[r].asked
    BY <1>0, <1>3 DEF Fail, RequestState
  <2>2. RequestFits(r)' /\ BuildFits(r)' /\ CacheFits'
    BY <1>0, <1>1, <1>3, <2>1 DEF RequestFits, BuildFits, CacheFits, Sound, Whole, Accepted
  <2> QED BY <1>0, <1>3, <2>1, <2>2, OwnStepKeepsFit
<1>4. CASE GetOrCreate(r)
  BY <1>0, <1>4, GetOrCreateKeepsFit
<1> QED BY <1>2, <1>3, <1>4 DEF Wake

LEMMA ReadPieceKeepsFit ==
    ASSUME DownloadInv, NEW r \in Request, ReadPiece(r)
    PROVE  AllFit'
<1> USE DEF DownloadInv
<1>0. /\ request \in [Request -> RequestState] /\ request[r].at = "reading"
      /\ builds[r].state = "none" /\ UNCHANGED <<clock, builds, active, completed>>
      /\ request[r].asked <= clock /\ CacheFits'
  BY DEF DownloadTypeOK, ReadPiece, cache, RequestFits, BuildFits, CacheFits,
         Sound, Whole, Accepted
<1>1. PICK i \in DOMAIN Pieces :
        /\ \A j \in DOMAIN Pieces : (request[r].read[Pieces[j]] = Absent) = (j >= i)
        /\ IF directory[Pieces[i]] = Absent
           THEN Fail(r)
           ELSE request' = [request EXCEPT
                    ![r].read[Pieces[i]] = directory[Pieces[i]],
                    ![r].at = IF i = Len(Pieces) THEN "read" ELSE "reading"]
  BY DEF ReadPiece
<1> DEFINE now == [request[r].read EXCEPT ![Pieces[i]] = directory[Pieces[i]]]
<1>2. CASE Fail(r)
  <2>1. /\ request' = [request EXCEPT ![r].at = "unavailable"]
        /\ request'[r].at = "unavailable" /\ request'[r].asked = request[r].asked
    BY <1>0, <1>2 DEF Fail, RequestState
  <2> QED BY <1>0, <2>1, OwnStepKeepsFit DEF RequestFits, BuildFits
<1>3. CASE /\ directory[Pieces[i]] # Absent
           /\ request' = [request EXCEPT
                    ![r].read[Pieces[i]] = directory[Pieces[i]],
                    ![r].at = IF i = Len(Pieces) THEN "read" ELSE "reading"]
  <2>1. /\ request'[r].read = now /\ request'[r].asked = request[r].asked
        /\ request'[r].at = IF i = Len(Pieces) THEN "read" ELSE "reading"
    BY <1>0, <1>3 DEF RequestState
  <2>2. request[r].read \in PartlyRead
    BY <1>0 DEF RequestState
  <2>3. i = Len(Pieces) => Whole(now)
    BY <1>1, <1>3, <2>2, LastPieceMakesWhole
  <2>4. RequestFits(r)' /\ BuildFits(r)'
    BY <1>0, <2>1, <2>3 DEF RequestFits, BuildFits, Whole
  <2> QED BY <1>0, <1>3, <2>4, OwnStepKeepsFit
<1> QED BY <1>1, <1>2, <1>3

LEMMA BuildStepKeepsFit ==
    ASSUME DownloadInv, NEW r \in Request, Validate(r) \/ Complete(r)
    PROVE  AllFit'
<1> USE DEF DownloadInv
<1>0. /\ request \in [Request -> RequestState] /\ builds \in [Request -> BuildState]
      /\ UNCHANGED <<clock, request, active>> /\ builds[r].state \in {"building", "validated"}
      /\ Whole(request[r].read) /\ request[r].at \in {"building", "served", "unavailable"}
      /\ clock \in 0..MaxTime /\ active \in 0..MaxRequests /\ scenario \in Scenarios
  BY DEF DownloadTypeOK, Validate, Complete, BuildFits
<1>1. RequestFits(r)'
  BY <1>0 DEF RequestFits, Sound, Whole, Accepted
<1>2. CASE Validate(r)
  <2>1. /\ builds' = [builds EXCEPT ![r].state = builds'[r].state]
        /\ builds'[r].state \in {"validated", "failed"}
        /\ builds'[r].state = "validated" => Accepts(request[r].read, clock)
    BY <1>0, <1>2 DEF Validate, BuildState
  <2>2. BuildFits(r)' /\ CacheFits'
    BY <1>0, <1>2, <2>1 DEF BuildFits, CacheFits, Validate, Sound, Whole, Accepted
  <2> QED BY <1>0, <1>1, <2>1, <2>2, OwnStepKeepsFit
<1>3. CASE Complete(r)
  <2> DEFINE entry == [key |-> request[r].read, builtAt |-> clock]
  <2>1. CASE /\ builds' = [builds EXCEPT ![r].state = "failed"]
             /\ UNCHANGED completed
    <3>1. builds'[r].state = "failed"
      BY <1>0, <2>1 DEF BuildState
    <3>2. BuildFits(r)' /\ CacheFits'
      BY <1>0, <2>1, <3>1 DEF BuildFits, CacheFits, Sound, Whole, Accepted
    <3> QED BY <1>0, <1>1, <2>1, <3>1, <3>2, OwnStepKeepsFit
  <2>2. CASE /\ ~(IsLive(entry.key) /\ LiveExpiry(entry.key) < clock)
             /\ builds' = [builds EXCEPT ![r] = [state |-> "built", entry |-> entry]]
             /\ completed' = entry
    <3>1. Accepted(request[r].read)
      BY <1>3 DEF Complete, BuildFits
    <3>2. entry \in Entry
      BY <1>0 DEF RequestState, Entry
    <3>3. Sound(entry)
      <4>1. IsLive(entry.key) => LiveExpiry(entry.key) \in Nat
        BY <1>0, <3>1, <3>2, AcceptedHasExpiry DEF Entry
      <4> QED BY <1>0, <2>2, <3>1, <4>1, DownloadAssumption DEF Sound
    <3>4. builds'[r] = [state |-> "built", entry |-> entry]
      BY <1>0, <2>2
    <3>5. BuildFits(r)' /\ CacheFits'
      BY <1>0, <2>2, <3>1, <3>3, <3>4
         DEF BuildFits, CacheFits, RequestFits, Sound, Whole, Accepted
    <3> QED BY <1>0, <1>1, <2>2, <3>4, <3>5, OwnStepKeepsFit
  <2> QED BY <1>3, <2>1, <2>2 DEF Complete
<1> QED BY <1>2, <1>3
LEMMA ReturnKeepsFit ==
    ASSUME DownloadInv, NEW r \in Request, Return(r)
    PROVE  AllFit'
<1> USE DEF DownloadInv
<1>0. /\ request \in [Request -> RequestState] /\ builds \in [Request -> BuildState]
      /\ UNCHANGED <<clock, builds, completed>> /\ active' \in {0, active}
      /\ request[r].asked <= clock /\ Whole(request[r].read)
      /\ builds[r].state \in {"built", "failed"}
  BY DEF DownloadTypeOK, Return, RequestFits
<1>1. CacheFits'
  BY <1>0 DEF CacheFits, Sound, Whole, Accepted
<1>2. CASE builds[r].state = "built" /\ Respond(r, builds[r].entry)
  <2>1. /\ Sound(builds[r].entry) /\ builds[r].entry.key = request[r].read
        /\ builds[r].entry \in Entry /\ builds[r].entry.builtAt >= request[r].asked
    BY <1>0, <1>2 DEF BuildFits, BuildState
  <2>2. /\ request'[r].at = "served" /\ request'[r].got = builds[r].entry
        /\ request'[r].read = request[r].read /\ request'[r].asked = request[r].asked
        /\ request' = [request EXCEPT ![r].at = "served", ![r].got = builds[r].entry]
    BY <1>0, <1>2 DEF Respond, RequestState
  <2>3. RequestFits(r)'
    BY <1>0, <2>1, <2>2, OwnBuildIsFresh DEF RequestFits, Sound, Whole, Accepted
  <2>4. BuildFits(r)'
    BY <1>0, <2>2 DEF BuildFits, Sound, Whole, Accepted
  <2> QED BY <1>0, <1>1, <2>2, <2>3, <2>4, OwnStepKeepsFit
<1>3. CASE builds[r].state = "failed" /\ Fail(r)
  <2>1. /\ request' = [request EXCEPT ![r].at = "unavailable"]
        /\ request'[r].at = "unavailable" /\ request'[r].asked = request[r].asked
        /\ request'[r].read = request[r].read
    BY <1>0, <1>3 DEF Fail, RequestState
  <2>2. RequestFits(r)' /\ BuildFits(r)'
    BY <1>0, <1>3, <2>1 DEF RequestFits, BuildFits, Sound, Whole, Accepted
  <2> QED BY <1>0, <1>1, <2>1, <2>2, OwnStepKeepsFit
<1> QED BY <1>0, <1>2, <1>3 DEF Return

LEMMA StartKeepsFit ==
    ASSUME DownloadInv, NEW r \in Request, Start(r)
    PROVE  AllFit'
<1> USE DEF DownloadInv
<1>0. /\ request \in [Request -> RequestState] /\ clock \in 0..MaxTime
      /\ request[r].at = "none" /\ UNCHANGED <<clock, builds, active, completed>>
      /\ request' = [request EXCEPT ![r].at = "reading", ![r].asked = clock]
      /\ builds[r].state = "none"
  BY DEF DownloadTypeOK, Start, cache, BuildFits
<1>1. request'[r].at = "reading" /\ request'[r].asked = clock
  BY <1>0 DEF RequestState
<1>2. RequestFits(r)' /\ BuildFits(r)'
  BY <1>0, <1>1, DownloadAssumption DEF RequestFits, BuildFits
<1>3. CacheFits'
  BY <1>0 DEF CacheFits, Sound, Whole, Accepted
<1> QED BY <1>0, <1>2, <1>3, OwnStepKeepsFit

LEMMA StepKeepsFit ==
    ASSUME DownloadInv, [Next]_vars
    PROVE  AllFit'
<1>1. ASSUME UNCHANGED <<request, cache>>, clock' \in 0..MaxTime, clock <= clock'
      PROVE  AllFit'
  <2>1. UNCHANGED <<request, builds, active, completed>>
    BY <1>1 DEF cache
  <2>2. \A q \in Request : RequestFits(q)' /\ BuildFits(q)'
    BY <1>1, <2>1, UntouchedStillFits DEF DownloadInv
  <2>3. CacheFits'
    BY <2>1 DEF DownloadInv, CacheFits, Sound, Whole, Accepted
  <2> QED BY <2>2, <2>3 DEF AllFit
<1>2. clock \in 0..MaxTime /\ clock <= clock
  BY DownloadAssumption DEF DownloadInv, DownloadTypeOK
<1>3. CASE UNCHANGED vars \/ BeginPublication \/ WritePiece \/ Crash
  BY <1>1, <1>2, <1>3 DEF vars, BeginPublication, WritePiece, Crash
<1>4. CASE Tick
  <2>1. clock' \in 0..MaxTime /\ clock <= clock'
    BY <1>2, <1>4, DownloadAssumption DEF Tick
  <2> QED BY <1>1, <1>4, <2>1 DEF Tick
<1>5. ASSUME NEW r \in Request, Start(r) \/ Serve(r)
      PROVE  AllFit'
  <2>1. CASE Lookup(r)
    BY <2>1, GetOrCreateKeepsFit DEF Lookup
  <2> QED
    BY <1>5, <2>1, StartKeepsFit, ReadPieceKeepsFit, BuildStepKeepsFit, ReturnKeepsFit,
       WakeKeepsFit DEF Serve
<1> QED BY <1>3, <1>4, <1>5 DEF Next

LEMMA InitiallyFit ==
    ASSUME Init
    PROVE  DownloadInv
<1>1. DownloadTypeOK
  BY InitialTypes
<1>2. ASSUME NEW r \in Request
      PROVE  RequestFits(r) /\ BuildFits(r)
  BY <1>1, DownloadAssumption DEF Init, RequestFits, BuildFits, NoBuild, DownloadTypeOK
<1>3. CacheFits
  BY NothingIsPartlyRead DEF Init, CacheFits, NoEntry
<1> QED BY <1>1, <1>2, <1>3 DEF DownloadInv

THEOREM DownloadInvariant == Spec => []DownloadInv
<1>1. Init => DownloadInv
  BY InitiallyFit
<1>2. DownloadInv /\ [Next]_vars => DownloadInv'
  BY StepKeepsTypes, StepKeepsFit DEF DownloadInv, AllFit
<1> QED BY <1>1, <1>2, PTL DEF Spec

-----------------------------------------------------------------------------
(* What is promised.                                                       *)

(* Whoever is served is served something young enough, and whose claim     *)
(* stood, when it asked: from the cache, from a build it waited for, or    *)
(* from its own (archive-cache.ts, isUsable and getOrCreate).              *)
THEOREM FreshWhenServedHolds == Spec => []FreshWhenServed
<1>1. DownloadInv => FreshWhenServed
  BY DEF DownloadInv, RequestFits, FreshWhenServed, Served
<1> QED BY <1>1, DownloadInvariant, PTL

(* The check that a build makes (validate.ts) tells a package that may be  *)
(* served from every other, and from every mixture of two packages.        *)
CheckIsExact ==
    \A s \in Scenarios : \A pieces \in MayBeRead(s.published) : \A time \in 0..MaxTime :
        Accepts(pieces, time) =>
            \E name \in Genuine \cap ToSet(s.published) : pieces = PiecesOf(name)

(* If it does, then so does the service: no order of reading, publishing,  *)
(* crashing, building and waiting brings anything else to a client.        *)
THEOREM ServedIsGenuineHolds == CheckIsExact => (Spec => []ServedIsGenuine)
<1> SUFFICES ASSUME CheckIsExact
             PROVE  Spec => []ServedIsGenuine
  OBVIOUS
<1>1. ASSUME DownloadInv, NEW r \in Served
      PROVE  /\ request[r].got.key = request[r].read
             /\ \E name \in Genuine \cap ToSet(scenario.published) :
                    request[r].got.key = PiecesOf(name)
  <2>1. r \in Request /\ scenario \in Scenarios /\ request[r].read \in PartlyRead
        /\ request[r].got.key = request[r].read /\ Whole(request[r].read)
        /\ Accepted(request[r].read)
    BY <1>1 DEF Served, DownloadInv, DownloadTypeOK, RequestState, RequestFits, Sound
  <2>2. request[r].read \in MayBeRead(scenario.published)
    BY <2>1, WholeMayBeRead
  <2> QED BY <2>1, <2>2 DEF CheckIsExact, Accepted
<1>2. DownloadInv => ServedIsGenuine
  BY <1>1 DEF ServedIsGenuine
<1> QED BY <1>2, DownloadInvariant, PTL

(***************************************************************************)
(* The account: its inductive invariant                                    *)
(***************************************************************************)

Moment == Nat \cup {None}
RoleRecord ==
  [state : States, samples : Seq(Nat), sampleAt : Seq(Nat), boundAt : Nat,
   startedAt : Moment, stoppedAt : Moment, releasedAt : Moment]

IsWork(w) ==
  /\ w = [role |-> w.role, events |-> w.events]
  /\ DOMAIN w.role \subseteq Roles
  /\ w.role \in [DOMAIN w.role -> RoleRecord]
  /\ w.events \in Seq(Event)

OneAt(at) == IF at = None THEN {} ELSE {at}

\* The transcript tells of role r what its record p says, and nothing else.
Told(transcript, r, p) ==
  /\ AtRole(transcript, "ROLE_CGROUP_BOUND", r) = {p.boundAt}
  /\ AtRole(transcript, "ROLE_EXECUTION_STARTED", r) = OneAt(p.startedAt)
  /\ AtRole(transcript, "ROLE_EXECUTION_STOPPED", r) = OneAt(p.stoppedAt)
  /\ AtRole(transcript, "ROLE_CGROUP_RELEASED", r) = OneAt(p.releasedAt)
  /\ AtRole(transcript, "ROLE_CPU_SAMPLE", r) = {p.sampleAt[k] : k \in 1..Len(p.samples)}
  /\ \A k \in 1..Len(p.samples) : transcript[p.sampleAt[k]].index = k - 1
  /\ \A k \in 1..Len(p.samples) : transcript[p.sampleAt[k]].usage = p.samples[k]

\* The samples of a role never fall, and stand in their order after its admission.
Ascend(p) ==
  /\ Len(p.sampleAt) = Len(p.samples)
  /\ \A j, k \in 1..Len(p.samples) : j < k => p.samples[j] <= p.samples[k]
  /\ \A j, k \in 1..Len(p.samples) : j < k => p.sampleAt[j] < p.sampleAt[k]
  /\ \A k \in 1..Len(p.samples) : p.boundAt < p.sampleAt[k]

\* Which moments a role has had, and in which order.
Lived(p) ==
  /\ p.state = "BOUND" => p.startedAt = None
  /\ p.state \in {"BOUND", "RUNNING"} => p.stoppedAt = None
  /\ p.state \in {"RUNNING", "STOPPED"} => p.startedAt # None
  /\ p.state = "STOPPED" => p.stoppedAt # None
  /\ p.state = "RELEASED" <=> p.releasedAt # None
  /\ p.state = "RELEASED" /\ p.startedAt # None => p.stoppedAt # None
  /\ p.startedAt # None => p.boundAt < p.startedAt
  /\ p.stoppedAt # None => p.startedAt # None /\ p.startedAt < p.stoppedAt
  /\ p.releasedAt # None =>
       /\ p.boundAt < p.releasedAt
       /\ p.stoppedAt # None => p.stoppedAt < p.releasedAt
       /\ \A k \in 1..Len(p.samples) : p.sampleAt[k] < p.releasedAt

Admitted(S) ==
  /\ S \subseteq Roles
  /\ "worker" \in S => "egress" \in S
  /\ "verifier" \in S => "worker" \in S

SoundWork(w) ==
  /\ IsWork(w)
  /\ Admitted(DOMAIN w.role)
  /\ \A r \in DOMAIN w.role :
       Told(w.events, r, w.role[r]) /\ Ascend(w.role[r]) /\ Lived(w.role[r])
  /\ \A i \in DOMAIN w.events :
       "role" \in DOMAIN w.events[i] => w.events[i].role \in DOMAIN w.role
  /\ At(w.events, "CONTROLLER_STARTED") = {1}

\* Each role has been read.
AllRead(w) == \A r \in DOMAIN w.role : w.role[r].samples # <<>>

\* The first sample is before the execution, the last after it, the others inside.
Bracketed(p) ==
  /\ p.state = "BOUND" => Len(p.samples) = 1
  /\ p.state # "BOUND" =>
       /\ p.startedAt # None /\ p.sampleAt[1] < p.startedAt
       /\ \A k \in 2..Len(p.samples) : p.startedAt < p.sampleAt[k]
  /\ p.state \in {"STOPPED", "RELEASED"} =>
       /\ p.stoppedAt # None /\ Len(p.samples) >= 2
       /\ p.stoppedAt < p.sampleAt[Len(p.samples)]
       /\ \A k \in 2 .. Len(p.samples) - 1 : p.sampleAt[k] < p.stoppedAt

InTurn(f) ==
  /\ "worker" \in DOMAIN f =>
       f["egress"].startedAt # None /\ f["egress"].startedAt < f["worker"].boundAt
  /\ "egress" \in DOMAIN f /\ f["egress"].state \in {"STOPPED", "RELEASED"} =>
       /\ "worker" \in DOMAIN f /\ f["worker"].state = "RELEASED"
       /\ f["worker"].stoppedAt < f["egress"].stoppedAt
  /\ "verifier" \in DOMAIN f =>
       /\ f["egress"].state = "RELEASED" /\ f["worker"].state = "RELEASED"
       /\ f["egress"].stoppedAt < f["verifier"].boundAt

\* Nothing has failed and nothing has been contained.
Unharmed(transcript) ==
  \A t \in {"FAILURE_OBSERVED", "CONTAINMENT_ACTION", "CONTROLLER_STOPPED"} :
    At(transcript, t) = {}

PortAgrees ==
  /\ port = [first |-> [r \in DOMAIN role |-> Head(role[r].samples)],
             latest |-> [r \in DOMAIN role |-> Last(role[r].samples)],
             released |-> {r \in DOMAIN role : role[r].state = "RELEASED"},
             stopped |-> FALSE, failed |-> {}]

OpenInv ==
  /\ SoundWork(Work) /\ AllRead(Work)
  /\ Unharmed(events)
  /\ \A r \in DOMAIN role : Bracketed(role[r])
  /\ InTurn(role)
  /\ PortAgrees
  /\ Aggregate(Work) <= Budget

SessionInv ==
  /\ ended = [how |-> ended.how, evidence |-> ended.evidence, reported |-> ended.reported]
  /\ Mutable => OpenInv
  /\ ReaderAcceptsProducer
  /\ QuietExactlyWhenClaimed
  /\ UsageIsAccounted

(***************************************************************************)
(* Transcripts                                                             *)
(***************************************************************************)

LEMMA AppendGrows ==
  ASSUME NEW transcript \in Seq(Event), NEW e \in Event
  PROVE  /\ Append(transcript, e) \in Seq(Event)
         /\ Len(Append(transcript, e)) = Len(transcript) + 1
         /\ DOMAIN Append(transcript, e) = DOMAIN transcript \cup {Len(transcript) + 1}
         /\ DOMAIN transcript = 1..Len(transcript)
         /\ Len(transcript) \in Nat
         /\ \A i \in DOMAIN transcript : Append(transcript, e)[i] = transcript[i]
         /\ Append(transcript, e)[Len(transcript) + 1] = e
  OBVIOUS

LEMMA AppendAt ==
  ASSUME NEW transcript \in Seq(Event), NEW e \in Event, NEW t
  PROVE  /\ e.type = t =>
              At(Append(transcript, e), t) = At(transcript, t) \cup {Len(transcript) + 1}
         /\ e.type # t => At(Append(transcript, e), t) = At(transcript, t)
  BY AppendGrows DEF At

LEMMA AppendAtRole ==
  ASSUME NEW transcript \in Seq(Event), NEW e \in Event, NEW t, NEW r
  PROVE  /\ e.type = t /\ e.role = r =>
              AtRole(Append(transcript, e), t, r)
                = AtRole(transcript, t, r) \cup {Len(transcript) + 1}
         /\ e.type # t \/ e.role # r =>
              AtRole(Append(transcript, e), t, r) = AtRole(transcript, t, r)
  <1>1. At(transcript, t) \subseteq DOMAIN transcript
    BY DEF At
  <1>2. CASE e.type = t
    <2>1. At(Append(transcript, e), t) = At(transcript, t) \cup {Len(transcript) + 1}
      BY <1>2, AppendAt
    <2> QED
      BY <1>1, <1>2, <2>1, AppendGrows DEF AtRole
  <1>3. CASE e.type # t
    <2>1. At(Append(transcript, e), t) = At(transcript, t)
      BY <1>3, AppendAt
    <2> QED
      BY <1>1, <1>3, <2>1, AppendGrows DEF AtRole
  <1> QED
    BY <1>2, <1>3

Nowhere(S) == \A i : i \notin S

\* The first event of its type about a role.
LEMMA FirstAtRole ==
  ASSUME NEW transcript \in Seq(Event), NEW e \in Event,
         Nowhere(AtRole(transcript, e.type, e.role))
  PROVE  AtRole(Append(transcript, e), e.type, e.role) = {Len(transcript) + 1}
  <1>1. PICK t, r : t = e.type /\ r = e.role
    OBVIOUS
  <1>2. AtRole(Append(transcript, e), t, r) = AtRole(transcript, t, r) \cup {Len(transcript) + 1}
    BY <1>1, AppendAtRole
  <1> QED
    BY <1>1, <1>2 DEF Nowhere

LEMMA AtIsInside ==
  ASSUME NEW transcript \in Seq(Event), NEW t, NEW r
  PROVE  /\ At(transcript, t) \subseteq 1..Len(transcript)
         /\ AtRole(transcript, t, r) \subseteq At(transcript, t)
         /\ Len(transcript) \in Nat
  BY DEF At, AtRole

\* What an event may be.
LEMMA EventIs ==
  ASSUME NEW e \in Event
  PROVE  /\ e.type \in RoleEvents \cup {"ROLE_CPU_SAMPLE", "CONTROLLER_STARTED",
                         "CONTROLLER_STOPPED", "FAILURE_OBSERVED", "CONTAINMENT_ACTION"}
         /\ "role" \in DOMAIN e <=> e.type \in RoleEvents \cup {"ROLE_CPU_SAMPLE"}
         /\ "role" \in DOMAIN e => e.role \in Roles
         /\ e.type = "ROLE_CPU_SAMPLE" => e.index \in Nat /\ e.usage \in Nat
  BY DEF Event, RoleEvents

\* An event that is not about a role leaves what is told of it.
LEMMA OthersKeepTold ==
  ASSUME NEW transcript \in Seq(Event), NEW e \in Event, NEW r, NEW p,
         Told(transcript, r, p),
         e.type \in RoleEvents \cup {"ROLE_CPU_SAMPLE"} => e.role # r
  PROVE  Told(Append(transcript, e), r, p)
  <1>1. \A t \in RoleEvents \cup {"ROLE_CPU_SAMPLE"} :
          AtRole(Append(transcript, e), t, r) = AtRole(transcript, t, r)
    <2> TAKE t \in RoleEvents \cup {"ROLE_CPU_SAMPLE"}
    <2>1. e.type # t \/ e.role # r
      OBVIOUS
    <2> QED
      BY <2>1, AppendAtRole
  <1>2. \A k \in 1..Len(p.samples) : p.sampleAt[k] \in DOMAIN transcript
    BY DEF Told, AtRole, At
  <1>3. \A k \in 1..Len(p.samples) :
          Append(transcript, e)[p.sampleAt[k]] = transcript[p.sampleAt[k]]
    BY <1>2, AppendGrows
  <1> QED
    BY <1>1, <1>3 DEF Told, RoleEvents

(***************************************************************************)
(* The steps of a call keep a work sound                                   *)
(***************************************************************************)

RoleTypes == RoleEvents \cup {"ROLE_CPU_SAMPLE"}

LEMMA AppendedIs ==
  ASSUME NEW w, IsWork(w), NEW e
  PROVE  Appended(w, e) = [role |-> w.role, events |-> Append(w.events, e)]
  <1> DEFINE f == w.role
             t == w.events
  <1>1. w = [role |-> f, events |-> t]
    BY DEF IsWork
  <1> HIDE DEF f, t
  <1>2. Appended(w, e) = [role |-> f, events |-> Append(t, e)]
    BY <1>1 DEF Appended
  <1> QED
    BY <1>2 DEF f, t

\* One controller start, at the first place, whatever else is appended.
LEMMA StartStays ==
  ASSUME NEW transcript \in Seq(Event), NEW e \in Event, e.type # "CONTROLLER_STARTED",
         At(transcript, "CONTROLLER_STARTED") = {1}
  PROVE  At(Append(transcript, e), "CONTROLLER_STARTED") = {1}
  BY AppendAt

LEMMA RoleStep ==
  ASSUME NEW w, SoundWork(w), NEW r \in DOMAIN w.role, NEW e \in Event, e.type \in RoleTypes,
         e.role = r, NEW p \in RoleRecord, Told(Append(w.events, e), r, p), Ascend(p), Lived(p)
  PROVE  /\ SoundWork(Noted(w, r, p, e))
         /\ DOMAIN Noted(w, r, p, e).role = DOMAIN w.role
         /\ Noted(w, r, p, e).role[r] = p
         /\ \A q \in DOMAIN w.role \ {r} : Noted(w, r, p, e).role[q] = w.role[q]
         /\ Noted(w, r, p, e).events = Append(w.events, e)
  <1> DEFINE x == Noted(w, r, p, e)
  <1>1. /\ x.role = [w.role EXCEPT ![r] = p] /\ x.events = Append(w.events, e)
        /\ x = [role |-> x.role, events |-> x.events]
    BY DEF Noted
  <1>2. /\ DOMAIN x.role = DOMAIN w.role /\ x.role[r] = p
        /\ \A q \in DOMAIN w.role \ {r} : x.role[q] = w.role[q]
        /\ x.role \in [DOMAIN w.role -> RoleRecord]
    BY <1>1 DEF SoundWork, IsWork
  <1>3. w.events \in Seq(Event) /\ x.events \in Seq(Event)
    BY <1>1, AppendGrows DEF SoundWork, IsWork
  <1>4. IsWork(x) /\ Admitted(DOMAIN x.role)
    BY <1>1, <1>2, <1>3 DEF IsWork, SoundWork
  <1>5. \A q \in DOMAIN x.role :
          Told(x.events, q, x.role[q]) /\ Ascend(x.role[q]) /\ Lived(x.role[q])
    <2> SUFFICES ASSUME NEW q \in DOMAIN w.role, q # r
                 PROVE  Told(Append(w.events, e), q, w.role[q]) /\ Ascend(w.role[q]) /\ Lived(w.role[q])
      BY <1>1, <1>2
    <2>1. Told(w.events, q, w.role[q]) /\ Ascend(w.role[q]) /\ Lived(w.role[q])
      BY DEF SoundWork
    <2> QED
      BY <2>1, <1>3, OthersKeepTold
  <1>6. \A i \in DOMAIN x.events :
          "role" \in DOMAIN x.events[i] => x.events[i].role \in DOMAIN x.role
    <2> TAKE i \in DOMAIN x.events
    <2>1. CASE i \in DOMAIN w.events
      BY <2>1, <1>1, <1>2, <1>3, AppendGrows DEF SoundWork
    <2>2. CASE i = Len(w.events) + 1
      BY <2>2, <1>1, <1>2, <1>3, AppendGrows
    <2> QED
      BY <2>1, <2>2, <1>1, <1>3, AppendGrows
  <1>7. e.type # "CONTROLLER_STARTED"
    BY DEF RoleTypes, RoleEvents
  <1>8. At(x.events, "CONTROLLER_STARTED") = {1}
    BY <1>1, <1>3, <1>7, StartStays DEF SoundWork
  <1>9. SoundWork(x)
    BY <1>4, <1>5, <1>6, <1>8 DEF SoundWork
  <1> QED
    BY <1>1, <1>2, <1>9

LEMMA PlainStep ==
  ASSUME NEW w, SoundWork(w), NEW e \in Event, e.type \notin RoleTypes,
         e.type # "CONTROLLER_STARTED"
  PROVE  /\ SoundWork(Appended(w, e))
         /\ Appended(w, e).role = w.role
         /\ Appended(w, e).events = Append(w.events, e)
  <1> DEFINE x == Appended(w, e)
  <1>1. /\ x.role = w.role /\ x.events = Append(w.events, e)
        /\ x = [role |-> x.role, events |-> x.events]
    BY AppendedIs DEF SoundWork
  <1>3. w.events \in Seq(Event) /\ x.events \in Seq(Event)
    BY <1>1, AppendGrows DEF SoundWork, IsWork
  <1>4. IsWork(x) /\ Admitted(DOMAIN x.role)
    BY <1>1, <1>3 DEF IsWork, SoundWork
  <1>5. \A q \in DOMAIN x.role :
          Told(x.events, q, x.role[q]) /\ Ascend(x.role[q]) /\ Lived(x.role[q])
    BY <1>1, <1>3, OthersKeepTold DEF SoundWork, RoleTypes
  <1>6. \A i \in DOMAIN x.events :
          "role" \in DOMAIN x.events[i] => x.events[i].role \in DOMAIN x.role
    <2> TAKE i \in DOMAIN x.events
    <2>1. CASE i \in DOMAIN w.events
      BY <2>1, <1>1, <1>3, AppendGrows DEF SoundWork
    <2>2. CASE i = Len(w.events) + 1
      BY <2>2, <1>1, <1>3, AppendGrows, EventIs DEF RoleTypes
    <2> QED
      BY <2>1, <2>2, <1>1, <1>3, AppendGrows
  <1>8. At(x.events, "CONTROLLER_STARTED") = {1}
    BY <1>1, <1>3, StartStays DEF SoundWork
  <1> QED
    BY <1>1, <1>4, <1>5, <1>6, <1>8 DEF SoundWork

\* Nothing is told of a role that is not bound.
LEMMA UnboundIsUntold ==
  ASSUME NEW w, SoundWork(w), NEW r \in Roles \ DOMAIN w.role, NEW t \in RoleTypes
  PROVE  Nowhere(AtRole(w.events, t, r))
  <1> SUFFICES ASSUME NEW i \in AtRole(w.events, t, r) PROVE FALSE
    BY DEF Nowhere
  <1>1. i \in DOMAIN w.events /\ w.events[i].type = t /\ w.events[i].role = r
    BY DEF AtRole, At
  <1>2. w.events[i] \in Event
    BY <1>1 DEF SoundWork, IsWork
  <1>3. "role" \in DOMAIN w.events[i]
    BY <1>1, <1>2, EventIs DEF RoleTypes
  <1> QED
    BY <1>1, <1>3 DEF SoundWork

\* Records of a role after one more sample, its start, its end, its release.
SampledRecord(p, at, usage) ==
  [p EXCEPT !.samples = Append(@, usage), !.sampleAt = Append(@, at)]
StartedRecord(p, at) == [p EXCEPT !.state = "RUNNING", !.startedAt = at]
StoppedRecord(p, at) == [p EXCEPT !.state = "STOPPED", !.stoppedAt = at]
ReleasedRecord(p, at) == [p EXCEPT !.state = "RELEASED", !.releasedAt = at]

SampleEvent(p, r, usage) ==
  [type |-> "ROLE_CPU_SAMPLE", role |-> r, index |-> Len(p.samples), usage |-> usage]

LEMMA StepsAre ==
  ASSUME NEW w, NEW r, NEW usage
  PROVE  LET at == Len(w.events) + 1
             p == w.role[r]
         IN /\ Sampled(w, r, usage)
                  = Noted(w, r, SampledRecord(p, at, usage), SampleEvent(p, r, usage))
            /\ Started(w, r)
                  = Noted(w, r, StartedRecord(p, at), RoleEvent("ROLE_EXECUTION_STARTED", r))
            /\ Stopped(w, r)
                  = Noted(w, r, StoppedRecord(p, at), RoleEvent("ROLE_EXECUTION_STOPPED", r))
            /\ Released(w, r)
                  = Noted(w, r, ReleasedRecord(p, at), RoleEvent("ROLE_CGROUP_RELEASED", r))
  BY DEF Sampled, Started, Stopped, Released, SampledRecord, SampleEvent, StartedRecord,
         StoppedRecord, ReleasedRecord

\* The moments of a record lie inside the transcript.
Inside(transcript, p) ==
  /\ p.boundAt \in 1..Len(transcript)
  /\ p.startedAt # None => p.startedAt \in 1..Len(transcript)
  /\ p.stoppedAt # None => p.stoppedAt \in 1..Len(transcript)
  /\ p.releasedAt # None => p.releasedAt \in 1..Len(transcript)
  /\ \A k \in 1..Len(p.samples) : p.sampleAt[k] \in 1..Len(transcript)

\* Where a bound role stands in the transcript.
LEMMA BoundRoleIs ==
  ASSUME NEW w, SoundWork(w), NEW r \in DOMAIN w.role
  PROVE  /\ w.role[r] \in RoleRecord /\ r \in Roles
         /\ Told(w.events, r, w.role[r]) /\ Ascend(w.role[r]) /\ Lived(w.role[r])
         /\ w.events \in Seq(Event) /\ Len(w.events) \in Nat
         /\ Inside(w.events, w.role[r])
         /\ Len(w.role[r].samples) \in Nat /\ Len(w.role[r].sampleAt) = Len(w.role[r].samples)
         /\ \A k \in 1..Len(w.role[r].samples) : w.role[r].samples[k] \in Nat
  <1>1. /\ w.role[r] \in RoleRecord /\ r \in Roles /\ w.events \in Seq(Event)
        /\ Told(w.events, r, w.role[r]) /\ Ascend(w.role[r]) /\ Lived(w.role[r])
    BY DEF SoundWork, IsWork
  <1>2. /\ w.role[r].samples \in Seq(Nat) /\ w.role[r].sampleAt \in Seq(Nat)
        /\ Len(w.role[r].sampleAt) = Len(w.role[r].samples) /\ Len(w.events) \in Nat
    BY <1>1 DEF RoleRecord, Ascend
  <1>3. \A t : AtRole(w.events, t, r) \subseteq 1..Len(w.events)
    BY <1>1, AtIsInside
  <1>4. /\ w.role[r].boundAt \in 1..Len(w.events)
        /\ w.role[r].startedAt # None => w.role[r].startedAt \in 1..Len(w.events)
        /\ w.role[r].stoppedAt # None => w.role[r].stoppedAt \in 1..Len(w.events)
        /\ w.role[r].releasedAt # None => w.role[r].releasedAt \in 1..Len(w.events)
    BY <1>1, <1>3 DEF Told, OneAt
  <1>5. \A k \in 1..Len(w.role[r].samples) : w.role[r].sampleAt[k] \in 1..Len(w.events)
    BY <1>1, <1>3 DEF Told
  <1>6. \A k \in 1..Len(w.role[r].samples) : w.role[r].samples[k] \in Nat
    BY SMTT(30), <1>2
  <1>7. Inside(w.events, w.role[r])
    BY <1>4, <1>5 DEF Inside
  <1> QED
    BY <1>1, <1>2, <1>6, <1>7

LEMMA StartedKeeps ==
  ASSUME NEW transcript \in Seq(Event), NEW r \in Roles, NEW p \in RoleRecord,
         Told(transcript, r, p), Ascend(p), Lived(p), Inside(transcript, p),
         p.state \in {"BOUND"}, NEW at, at = Len(transcript) + 1,
         NEW n, n = StartedRecord(p, at), NEW e, e = RoleEvent("ROLE_EXECUTION_STARTED", r)
  PROVE  /\ n \in RoleRecord /\ e \in Event /\ e.type = "ROLE_EXECUTION_STARTED" /\ e.role = r
         /\ Told(Append(transcript, e), r, n) /\ Ascend(n) /\ Lived(n)
  <1>1. Len(transcript) \in Nat /\ at \in Nat /\ at # None
    BY ProducerAssumption
  <1>2. /\ n \in RoleRecord /\ n.samples = p.samples /\ n.sampleAt = p.sampleAt
        /\ n.boundAt = p.boundAt /\ n.state = "RUNNING" /\ n.startedAt = at
        /\ n.stoppedAt = p.stoppedAt /\ n.releasedAt = p.releasedAt
    BY <1>1 DEF StartedRecord, RoleRecord, States, Moment
  <1>3. e \in Event /\ e.type = "ROLE_EXECUTION_STARTED" /\ e.role = r
    BY DEF RoleEvent, Event, RoleEvents
  <1>4. \A t \in RoleTypes \ {"ROLE_EXECUTION_STARTED"} :
          AtRole(Append(transcript, e), t, r) = AtRole(transcript, t, r)
    BY <1>3, AppendAtRole
  <1>5. AtRole(Append(transcript, e), "ROLE_EXECUTION_STARTED", r) = {at}
    <2>1. Nowhere(AtRole(transcript, "ROLE_EXECUTION_STARTED", r))
      BY DEF Nowhere, Told, OneAt, Lived
    <2>2. AtRole(Append(transcript, e), e.type, e.role) = {Len(transcript) + 1}
      BY <1>3, <2>1, FirstAtRole
    <2> QED
      BY <1>3, <2>2
  <1>6. \A k \in 1..Len(p.samples) : Append(transcript, e)[p.sampleAt[k]] = transcript[p.sampleAt[k]]
    BY <1>3, AppendGrows DEF Inside
  <1>7. Told(Append(transcript, e), r, n)
    <2>1. /\ AtRole(Append(transcript, e), "ROLE_CGROUP_BOUND", r) = {n.boundAt}
          /\ AtRole(Append(transcript, e), "ROLE_CPU_SAMPLE", r)
               = {n.sampleAt[k] : k \in 1..Len(n.samples)}
      BY <1>2, <1>4 DEF Told, RoleTypes, RoleEvents
    <2>2. /\ AtRole(Append(transcript, e), "ROLE_EXECUTION_STARTED", r) = OneAt(n.startedAt)
          /\ AtRole(Append(transcript, e), "ROLE_EXECUTION_STOPPED", r) = OneAt(n.stoppedAt)
          /\ AtRole(Append(transcript, e), "ROLE_CGROUP_RELEASED", r) = OneAt(n.releasedAt)
      BY <1>1, <1>2, <1>4, <1>5 DEF Told, OneAt, RoleTypes, RoleEvents
    <2>3. \A k \in 1..Len(n.samples) :
            /\ Append(transcript, e)[n.sampleAt[k]].index = k - 1
            /\ Append(transcript, e)[n.sampleAt[k]].usage = n.samples[k]
      <3> TAKE k \in 1..Len(n.samples)
      <3>1. k \in 1..Len(p.samples) /\ n.sampleAt[k] = p.sampleAt[k] /\ n.samples[k] = p.samples[k]
        BY <1>2
      <3>2. transcript[p.sampleAt[k]].index = k - 1 /\ transcript[p.sampleAt[k]].usage = p.samples[k]
        BY <3>1 DEF Told
      <3>3. Append(transcript, e)[p.sampleAt[k]] = transcript[p.sampleAt[k]]
        BY <3>1, <1>6
      <3> QED
        BY <3>1, <3>2, <3>3
    <2> QED
      BY <2>1, <2>2, <2>3 DEF Told
  <1>8. Ascend(n)
    BY <1>2 DEF Ascend
  <1>9. Lived(n)
    BY <1>1, <1>2 DEF Lived, Inside, RoleRecord
  <1> QED
    BY <1>2, <1>3, <1>7, <1>8, <1>9

LEMMA StoppedKeeps ==
  ASSUME NEW transcript \in Seq(Event), NEW r \in Roles, NEW p \in RoleRecord,
         Told(transcript, r, p), Ascend(p), Lived(p), Inside(transcript, p),
         p.state \in {"RUNNING"}, NEW at, at = Len(transcript) + 1,
         NEW n, n = StoppedRecord(p, at), NEW e, e = RoleEvent("ROLE_EXECUTION_STOPPED", r)
  PROVE  /\ n \in RoleRecord /\ e \in Event /\ e.type = "ROLE_EXECUTION_STOPPED" /\ e.role = r
         /\ Told(Append(transcript, e), r, n) /\ Ascend(n) /\ Lived(n)
  <1>1. Len(transcript) \in Nat /\ at \in Nat /\ at # None
    BY ProducerAssumption
  <1>2. /\ n \in RoleRecord /\ n.samples = p.samples /\ n.sampleAt = p.sampleAt
        /\ n.boundAt = p.boundAt /\ n.state = "STOPPED" /\ n.startedAt = p.startedAt
        /\ n.stoppedAt = at /\ n.releasedAt = p.releasedAt
    BY <1>1 DEF StoppedRecord, RoleRecord, States, Moment
  <1>3. e \in Event /\ e.type = "ROLE_EXECUTION_STOPPED" /\ e.role = r
    BY DEF RoleEvent, Event, RoleEvents
  <1>4. \A t \in RoleTypes \ {"ROLE_EXECUTION_STOPPED"} :
          AtRole(Append(transcript, e), t, r) = AtRole(transcript, t, r)
    BY <1>3, AppendAtRole
  <1>5. AtRole(Append(transcript, e), "ROLE_EXECUTION_STOPPED", r) = {at}
    <2>1. Nowhere(AtRole(transcript, "ROLE_EXECUTION_STOPPED", r))
      BY DEF Nowhere, Told, OneAt, Lived
    <2>2. AtRole(Append(transcript, e), e.type, e.role) = {Len(transcript) + 1}
      BY <1>3, <2>1, FirstAtRole
    <2> QED
      BY <1>3, <2>2
  <1>6. \A k \in 1..Len(p.samples) : Append(transcript, e)[p.sampleAt[k]] = transcript[p.sampleAt[k]]
    BY <1>3, AppendGrows DEF Inside
  <1>7. Told(Append(transcript, e), r, n)
    <2>1. /\ AtRole(Append(transcript, e), "ROLE_CGROUP_BOUND", r) = {n.boundAt}
          /\ AtRole(Append(transcript, e), "ROLE_CPU_SAMPLE", r)
               = {n.sampleAt[k] : k \in 1..Len(n.samples)}
      BY <1>2, <1>4 DEF Told, RoleTypes, RoleEvents
    <2>2. /\ AtRole(Append(transcript, e), "ROLE_EXECUTION_STARTED", r) = OneAt(n.startedAt)
          /\ AtRole(Append(transcript, e), "ROLE_EXECUTION_STOPPED", r) = OneAt(n.stoppedAt)
          /\ AtRole(Append(transcript, e), "ROLE_CGROUP_RELEASED", r) = OneAt(n.releasedAt)
      BY <1>1, <1>2, <1>4, <1>5 DEF Told, OneAt, RoleTypes, RoleEvents
    <2>3. \A k \in 1..Len(n.samples) :
            /\ Append(transcript, e)[n.sampleAt[k]].index = k - 1
            /\ Append(transcript, e)[n.sampleAt[k]].usage = n.samples[k]
      <3> TAKE k \in 1..Len(n.samples)
      <3>1. k \in 1..Len(p.samples) /\ n.sampleAt[k] = p.sampleAt[k] /\ n.samples[k] = p.samples[k]
        BY <1>2
      <3>2. transcript[p.sampleAt[k]].index = k - 1 /\ transcript[p.sampleAt[k]].usage = p.samples[k]
        BY <3>1 DEF Told
      <3>3. Append(transcript, e)[p.sampleAt[k]] = transcript[p.sampleAt[k]]
        BY <3>1, <1>6
      <3> QED
        BY <3>1, <3>2, <3>3
    <2> QED
      BY <2>1, <2>2, <2>3 DEF Told
  <1>8. Ascend(n)
    BY <1>2 DEF Ascend
  <1>9. Lived(n)
    BY <1>1, <1>2 DEF Lived, Inside, RoleRecord
  <1> QED
    BY <1>2, <1>3, <1>7, <1>8, <1>9

LEMMA ReleasedKeeps ==
  ASSUME NEW transcript \in Seq(Event), NEW r \in Roles, NEW p \in RoleRecord,
         Told(transcript, r, p), Ascend(p), Lived(p), Inside(transcript, p),
         p.state \in {"BOUND", "STOPPED"}, NEW at, at = Len(transcript) + 1,
         NEW n, n = ReleasedRecord(p, at), NEW e, e = RoleEvent("ROLE_CGROUP_RELEASED", r)
  PROVE  /\ n \in RoleRecord /\ e \in Event /\ e.type = "ROLE_CGROUP_RELEASED" /\ e.role = r
         /\ Told(Append(transcript, e), r, n) /\ Ascend(n) /\ Lived(n)
  <1>1. Len(transcript) \in Nat /\ at \in Nat /\ at # None
    BY ProducerAssumption
  <1>2. /\ n \in RoleRecord /\ n.samples = p.samples /\ n.sampleAt = p.sampleAt
        /\ n.boundAt = p.boundAt /\ n.state = "RELEASED" /\ n.startedAt = p.startedAt
        /\ n.stoppedAt = p.stoppedAt /\ n.releasedAt = at
    BY <1>1 DEF ReleasedRecord, RoleRecord, States, Moment
  <1>3. e \in Event /\ e.type = "ROLE_CGROUP_RELEASED" /\ e.role = r
    BY DEF RoleEvent, Event, RoleEvents
  <1>4. \A t \in RoleTypes \ {"ROLE_CGROUP_RELEASED"} :
          AtRole(Append(transcript, e), t, r) = AtRole(transcript, t, r)
    BY <1>3, AppendAtRole
  <1>5. AtRole(Append(transcript, e), "ROLE_CGROUP_RELEASED", r) = {at}
    <2>1. Nowhere(AtRole(transcript, "ROLE_CGROUP_RELEASED", r))
      BY DEF Nowhere, Told, OneAt, Lived
    <2>2. AtRole(Append(transcript, e), e.type, e.role) = {Len(transcript) + 1}
      BY <1>3, <2>1, FirstAtRole
    <2> QED
      BY <1>3, <2>2
  <1>6. \A k \in 1..Len(p.samples) : Append(transcript, e)[p.sampleAt[k]] = transcript[p.sampleAt[k]]
    BY <1>3, AppendGrows DEF Inside
  <1>7. Told(Append(transcript, e), r, n)
    <2>1. /\ AtRole(Append(transcript, e), "ROLE_CGROUP_BOUND", r) = {n.boundAt}
          /\ AtRole(Append(transcript, e), "ROLE_CPU_SAMPLE", r)
               = {n.sampleAt[k] : k \in 1..Len(n.samples)}
      BY <1>2, <1>4 DEF Told, RoleTypes, RoleEvents
    <2>2. /\ AtRole(Append(transcript, e), "ROLE_EXECUTION_STARTED", r) = OneAt(n.startedAt)
          /\ AtRole(Append(transcript, e), "ROLE_EXECUTION_STOPPED", r) = OneAt(n.stoppedAt)
          /\ AtRole(Append(transcript, e), "ROLE_CGROUP_RELEASED", r) = OneAt(n.releasedAt)
      BY <1>1, <1>2, <1>4, <1>5 DEF Told, OneAt, RoleTypes, RoleEvents
    <2>3. \A k \in 1..Len(n.samples) :
            /\ Append(transcript, e)[n.sampleAt[k]].index = k - 1
            /\ Append(transcript, e)[n.sampleAt[k]].usage = n.samples[k]
      <3> TAKE k \in 1..Len(n.samples)
      <3>1. k \in 1..Len(p.samples) /\ n.sampleAt[k] = p.sampleAt[k] /\ n.samples[k] = p.samples[k]
        BY <1>2
      <3>2. transcript[p.sampleAt[k]].index = k - 1 /\ transcript[p.sampleAt[k]].usage = p.samples[k]
        BY <3>1 DEF Told
      <3>3. Append(transcript, e)[p.sampleAt[k]] = transcript[p.sampleAt[k]]
        BY <3>1, <1>6
      <3> QED
        BY <3>1, <3>2, <3>3
    <2> QED
      BY <2>1, <2>2, <2>3 DEF Told
  <1>8. Ascend(n)
    BY <1>2 DEF Ascend
  <1>9. Lived(n)
    BY <1>1, <1>2 DEF Lived, Inside, RoleRecord
  <1> QED
    BY <1>2, <1>3, <1>7, <1>8, <1>9

\* n is the record p after one more sample.
MoreSampled(p, at, usage, n) ==
  /\ n \in RoleRecord /\ n.boundAt = p.boundAt /\ n.state = p.state
  /\ n.startedAt = p.startedAt /\ n.stoppedAt = p.stoppedAt
  /\ n.releasedAt = p.releasedAt
  /\ Len(n.samples) = Len(p.samples) + 1 /\ Len(n.sampleAt) = Len(n.samples)
  /\ \A k \in 1..Len(p.samples) :
       n.samples[k] = p.samples[k] /\ n.sampleAt[k] = p.sampleAt[k]
  /\ n.samples[Len(p.samples) + 1] = usage /\ n.sampleAt[Len(p.samples) + 1] = at

LEMMA SampledRecordIs ==
  ASSUME NEW p \in RoleRecord, Len(p.sampleAt) = Len(p.samples), NEW at \in Nat,
         NEW usage \in Nat, NEW n, n = SampledRecord(p, at, usage)
  PROVE  MoreSampled(p, at, usage, n)
  <1>1. PICK u, v : u = Append(p.samples, usage) /\ v = Append(p.sampleAt, at)
    OBVIOUS
  <1>2. p.samples \in Seq(Nat) /\ p.sampleAt \in Seq(Nat)
    BY DEF RoleRecord
  <1>3. /\ u \in Seq(Nat) /\ Len(u) = Len(p.samples) + 1
        /\ \A k \in 1..Len(p.samples) : u[k] = p.samples[k]
        /\ u[Len(p.samples) + 1] = usage
    BY <1>1, <1>2
  <1>4. /\ v \in Seq(Nat) /\ Len(v) = Len(p.samples) + 1
        /\ \A k \in 1..Len(p.samples) : v[k] = p.sampleAt[k]
        /\ v[Len(p.samples) + 1] = at
    BY <1>1, <1>2
  <1>5. n = [p EXCEPT !.samples = u, !.sampleAt = v]
    BY <1>1 DEF SampledRecord
  <1>6. /\ n \in RoleRecord /\ n.boundAt = p.boundAt /\ n.state = p.state
        /\ n.startedAt = p.startedAt /\ n.stoppedAt = p.stoppedAt
        /\ n.releasedAt = p.releasedAt /\ n.samples = u /\ n.sampleAt = v
    BY <1>3, <1>4, <1>5 DEF RoleRecord
  <1> QED
    BY <1>3, <1>4, <1>6 DEF MoreSampled

LEMMA SampledKeeps ==
  ASSUME NEW transcript \in Seq(Event), NEW r \in Roles, NEW p \in RoleRecord,
         Told(transcript, r, p), Ascend(p), Lived(p), Inside(transcript, p),
         p.state # "RELEASED", NEW usage \in Nat,
         p.samples = <<>> \/ p.samples[Len(p.samples)] <= usage,
         NEW at, at = Len(transcript) + 1, NEW n, n = SampledRecord(p, at, usage),
         NEW e, e = SampleEvent(p, r, usage)
  PROVE  /\ n \in RoleRecord /\ e \in Event /\ e.type = "ROLE_CPU_SAMPLE" /\ e.role = r
         /\ Told(Append(transcript, e), r, n) /\ Ascend(n) /\ Lived(n)
  <1> DEFINE last == Len(p.samples) + 1
  <1>1. /\ Len(transcript) \in Nat /\ at \in Nat /\ at # None
        /\ p.samples \in Seq(Nat) /\ Len(p.samples) \in Nat /\ Len(p.sampleAt) = Len(p.samples)
    BY ProducerAssumption DEF RoleRecord, Ascend
  <1>2. /\ n \in RoleRecord /\ n.boundAt = p.boundAt /\ n.state = p.state
        /\ n.startedAt = p.startedAt /\ n.stoppedAt = p.stoppedAt /\ n.releasedAt = p.releasedAt
        /\ Len(n.samples) = last /\ Len(n.sampleAt) = last
        /\ n.samples[last] = usage /\ n.sampleAt[last] = at
    <2>1. MoreSampled(p, at, usage, n)
      BY <1>1, SampledRecordIs
    <2> QED
      BY <2>1 DEF MoreSampled
  <1>3. \A k \in 1..Len(p.samples) : n.samples[k] = p.samples[k] /\ n.sampleAt[k] = p.sampleAt[k]
    <2>1. MoreSampled(p, at, usage, n)
      BY <1>1, SampledRecordIs
    <2> QED
      BY <2>1 DEF MoreSampled
  <1>4. /\ e \in Event /\ e.type = "ROLE_CPU_SAMPLE" /\ e.role = r
        /\ e.index = Len(p.samples) /\ e.usage = usage
    BY <1>1 DEF SampleEvent, Event
  <1>5. \A t \in RoleEvents : AtRole(Append(transcript, e), t, r) = AtRole(transcript, t, r)
    BY <1>4, AppendAtRole DEF RoleEvents
  <1>6. AtRole(Append(transcript, e), "ROLE_CPU_SAMPLE", r)
          = AtRole(transcript, "ROLE_CPU_SAMPLE", r) \cup {at}
    BY <1>4, AppendAtRole
  <1>7. /\ \A k \in 1..Len(p.samples) :
             Append(transcript, e)[p.sampleAt[k]] = transcript[p.sampleAt[k]]
        /\ Append(transcript, e)[at] = e
    BY <1>4, AppendGrows DEF Inside
  <1>8. \A k \in 1..last : k \in 1..Len(p.samples) \/ k = last
    BY <1>1
  <1>9. 1..Len(p.samples) \subseteq 1..last /\ last \in 1..last
    BY <1>1
  <1> HIDE DEF last
  <1>10. AtRole(Append(transcript, e), "ROLE_CPU_SAMPLE", r) = {n.sampleAt[k] : k \in 1..last}
    <2>1. AtRole(transcript, "ROLE_CPU_SAMPLE", r) = {p.sampleAt[k] : k \in 1..Len(p.samples)}
      BY DEF Told
    <2>2. {p.sampleAt[k] : k \in 1..Len(p.samples)} \cup {at} \subseteq {n.sampleAt[k] : k \in 1..last}
      BY SMTT(30), <1>2, <1>3, <1>9
    <2>3. {n.sampleAt[k] : k \in 1..last} \subseteq {p.sampleAt[k] : k \in 1..Len(p.samples)} \cup {at}
      BY <1>2, <1>3, <1>8
    <2> QED
      BY <1>6, <2>1, <2>2, <2>3
  <1>11. \A k \in 1..last : /\ Append(transcript, e)[n.sampleAt[k]].index = k - 1
                             /\ Append(transcript, e)[n.sampleAt[k]].usage = n.samples[k]
    <2> TAKE k \in 1..last
    <2>1. CASE k \in 1..Len(p.samples)
      <3>1. /\ transcript[p.sampleAt[k]].index = k - 1
            /\ transcript[p.sampleAt[k]].usage = p.samples[k]
        BY <2>1 DEF Told
      <3>2. /\ n.samples[k] = p.samples[k] /\ n.sampleAt[k] = p.sampleAt[k]
            /\ Append(transcript, e)[p.sampleAt[k]] = transcript[p.sampleAt[k]]
        BY <2>1, <1>3, <1>7
      <3> QED
        BY <3>1, <3>2
    <2>2. CASE k = last
      BY <2>2, <1>1, <1>2, <1>4, <1>7 DEF last
    <2> QED
      BY <2>1, <2>2, <1>8
  <1>12. Told(Append(transcript, e), r, n)
    BY <1>2, <1>5, <1>10, <1>11 DEF Told, RoleEvents
  <1>13. \A k \in 1..Len(p.samples) :
           p.sampleAt[k] < at /\ p.boundAt < at /\ p.samples[k] <= usage
    <2> TAKE k \in 1..Len(p.samples)
    <2>1. p.sampleAt[k] < at /\ p.boundAt < at
      BY SMTT(30), <1>1 DEF Inside
    <2>2. CASE k = Len(p.samples)
      BY <2>1, <2>2, <1>1
    <2>3. CASE k < Len(p.samples)
      <3>1. p.samples # <<>> /\ Len(p.samples) \in 1..Len(p.samples)
        BY <2>3, <1>1
      <3>2. p.samples[k] <= p.samples[Len(p.samples)]
        BY <2>3, <3>1 DEF Ascend
      <3>3. p.samples[k] \in Nat /\ p.samples[Len(p.samples)] \in Nat
        BY SMTT(30), <3>1, <1>1
      <3> QED
        BY <2>1, <3>1, <3>2, <3>3
    <2> QED
      BY <2>2, <2>3, <1>1
  <1>14. Ascend(n)
    <2>1. \A j, k \in 1..last :
            j < k => n.samples[j] <= n.samples[k] /\ n.sampleAt[j] < n.sampleAt[k]
      <3> SUFFICES ASSUME NEW j \in 1..last, NEW k \in 1..last, j < k
                   PROVE  n.samples[j] <= n.samples[k] /\ n.sampleAt[j] < n.sampleAt[k]
        OBVIOUS
      <3>1. j \in 1..Len(p.samples)
        BY <1>1 DEF last
      <3>2. CASE k \in 1..Len(p.samples)
        BY <3>1, <3>2, <1>3 DEF Ascend
      <3>3. CASE k = last
        BY <3>1, <3>3, <1>2, <1>3, <1>13
      <3> QED
        BY <3>2, <3>3, <1>8
    <2>2. \A k \in 1..last : n.boundAt < n.sampleAt[k]
      <3> TAKE k \in 1..last
      <3>1. CASE k \in 1..Len(p.samples)
        BY <3>1, <1>2, <1>3 DEF Ascend
      <3>2. CASE k = last
        BY <3>2, <1>1, <1>2 DEF Inside
      <3> QED
        BY <3>1, <3>2, <1>8
    <2> QED
      BY <1>2, <2>1, <2>2 DEF Ascend
  <1>15. Lived(n)
    BY <1>2 DEF Lived
  <1> QED
    BY <1>2, <1>4, <1>12, <1>14, <1>15

\* x is w after one more event, about r, whose record is n.
NotedTo(w, r, n, e, x) ==
  /\ SoundWork(x) /\ DOMAIN x.role = DOMAIN w.role /\ x.role[r] = n
  /\ \A q \in DOMAIN w.role \ {r} : x.role[q] = w.role[q]
  /\ x.events = Append(w.events, e) /\ e \in Event

LEMMA SampledSound ==
  ASSUME NEW w, SoundWork(w), NEW r \in DOMAIN w.role, w.role[r].state # "RELEASED",
         NEW usage \in Nat,
         w.role[r].samples = <<>> \/ w.role[r].samples[Len(w.role[r].samples)] <= usage
  PROVE  NotedTo(w, r, SampledRecord(w.role[r], Len(w.events) + 1, usage),
                 SampleEvent(w.role[r], r, usage), Sampled(w, r, usage))
  <1>1. PICK at : at = Len(w.events) + 1
    OBVIOUS
  <1>2. PICK n : n = SampledRecord(w.role[r], at, usage)
    OBVIOUS
  <1>3. PICK e : e = SampleEvent(w.role[r], r, usage)
    OBVIOUS
  <1>4. /\ n \in RoleRecord /\ e \in Event /\ e.type = "ROLE_CPU_SAMPLE" /\ e.role = r
        /\ Told(Append(w.events, e), r, n) /\ Ascend(n) /\ Lived(n)
    BY <1>1, <1>2, <1>3, BoundRoleIs, SampledKeeps
  <1>5. Sampled(w, r, usage) = Noted(w, r, n, e)
    BY <1>1, <1>2, <1>3, StepsAre
  <1>6. e.type \in RoleTypes
    BY <1>4 DEF RoleTypes
  <1>7. NotedTo(w, r, n, e, Sampled(w, r, usage))
    BY <1>4, <1>5, <1>6, RoleStep DEF NotedTo
  <1> QED
    BY <1>1, <1>2, <1>3, <1>7

LEMMA StartedSound ==
  ASSUME NEW w, SoundWork(w), NEW r \in DOMAIN w.role, w.role[r].state \in {"BOUND"}
  PROVE  LET at == Len(w.events) + 1
             x == Started(w, r)
         IN /\ SoundWork(x) /\ DOMAIN x.role = DOMAIN w.role
            /\ x.role[r] = StartedRecord(w.role[r], at)
            /\ \A q \in DOMAIN w.role \ {r} : x.role[q] = w.role[q]
            /\ x.events = Append(w.events, RoleEvent("ROLE_EXECUTION_STARTED", r))
            /\ RoleEvent("ROLE_EXECUTION_STARTED", r) \in Event
  <1>1. PICK at : at = Len(w.events) + 1
    OBVIOUS
  <1>2. PICK n : n = StartedRecord(w.role[r], at)
    OBVIOUS
  <1>3. PICK e : e = RoleEvent("ROLE_EXECUTION_STARTED", r)
    OBVIOUS
  <1>4. /\ n \in RoleRecord /\ e \in Event /\ e.type = "ROLE_EXECUTION_STARTED" /\ e.role = r
        /\ Told(Append(w.events, e), r, n) /\ Ascend(n) /\ Lived(n)
    BY <1>1, <1>2, <1>3, BoundRoleIs, StartedKeeps
  <1>5. Started(w, r) = Noted(w, r, n, e)
    BY <1>1, <1>2, <1>3, StepsAre
  <1>6. e.type \in RoleTypes
    BY <1>4 DEF RoleTypes, RoleEvents
  <1> QED
    BY <1>1, <1>2, <1>3, <1>4, <1>5, <1>6, RoleStep

LEMMA StoppedSound ==
  ASSUME NEW w, SoundWork(w), NEW r \in DOMAIN w.role, w.role[r].state \in {"RUNNING"}
  PROVE  LET at == Len(w.events) + 1
             x == Stopped(w, r)
         IN /\ SoundWork(x) /\ DOMAIN x.role = DOMAIN w.role
            /\ x.role[r] = StoppedRecord(w.role[r], at)
            /\ \A q \in DOMAIN w.role \ {r} : x.role[q] = w.role[q]
            /\ x.events = Append(w.events, RoleEvent("ROLE_EXECUTION_STOPPED", r))
            /\ RoleEvent("ROLE_EXECUTION_STOPPED", r) \in Event
  <1>1. PICK at : at = Len(w.events) + 1
    OBVIOUS
  <1>2. PICK n : n = StoppedRecord(w.role[r], at)
    OBVIOUS
  <1>3. PICK e : e = RoleEvent("ROLE_EXECUTION_STOPPED", r)
    OBVIOUS
  <1>4. /\ n \in RoleRecord /\ e \in Event /\ e.type = "ROLE_EXECUTION_STOPPED" /\ e.role = r
        /\ Told(Append(w.events, e), r, n) /\ Ascend(n) /\ Lived(n)
    BY <1>1, <1>2, <1>3, BoundRoleIs, StoppedKeeps
  <1>5. Stopped(w, r) = Noted(w, r, n, e)
    BY <1>1, <1>2, <1>3, StepsAre
  <1>6. e.type \in RoleTypes
    BY <1>4 DEF RoleTypes, RoleEvents
  <1> QED
    BY <1>1, <1>2, <1>3, <1>4, <1>5, <1>6, RoleStep

LEMMA ReleasedSound ==
  ASSUME NEW w, SoundWork(w), NEW r \in DOMAIN w.role, w.role[r].state \in {"BOUND", "STOPPED"}
  PROVE  LET at == Len(w.events) + 1
             x == Released(w, r)
         IN /\ SoundWork(x) /\ DOMAIN x.role = DOMAIN w.role
            /\ x.role[r] = ReleasedRecord(w.role[r], at)
            /\ \A q \in DOMAIN w.role \ {r} : x.role[q] = w.role[q]
            /\ x.events = Append(w.events, RoleEvent("ROLE_CGROUP_RELEASED", r))
            /\ RoleEvent("ROLE_CGROUP_RELEASED", r) \in Event
  <1>1. PICK at : at = Len(w.events) + 1
    OBVIOUS
  <1>2. PICK n : n = ReleasedRecord(w.role[r], at)
    OBVIOUS
  <1>3. PICK e : e = RoleEvent("ROLE_CGROUP_RELEASED", r)
    OBVIOUS
  <1>4. /\ n \in RoleRecord /\ e \in Event /\ e.type = "ROLE_CGROUP_RELEASED" /\ e.role = r
        /\ Told(Append(w.events, e), r, n) /\ Ascend(n) /\ Lived(n)
    BY <1>1, <1>2, <1>3, BoundRoleIs, ReleasedKeeps
  <1>5. Released(w, r) = Noted(w, r, n, e)
    BY <1>1, <1>2, <1>3, StepsAre
  <1>6. e.type \in RoleTypes
    BY <1>4 DEF RoleTypes, RoleEvents
  <1> QED
    BY <1>1, <1>2, <1>3, <1>4, <1>5, <1>6, RoleStep

(***************************************************************************)
(* A role is admitted                                                      *)
(***************************************************************************)

BoundRecord(at) ==
  [state |-> "BOUND", samples |-> <<>>, sampleAt |-> <<>>, boundAt |-> at,
   startedAt |-> None, stoppedAt |-> None, releasedAt |-> None]

LEMMA BoundRecordIs ==
  ASSUME NEW at \in Nat, NEW n, n = BoundRecord(at)
  PROVE  /\ n \in RoleRecord /\ Ascend(n) /\ Lived(n)
         /\ n.samples = <<>> /\ Len(n.samples) = 0 /\ n.boundAt = at /\ n.state = "BOUND"
         /\ n.startedAt = None /\ n.stoppedAt = None /\ n.releasedAt = None
         /\ n.sampleAt = <<>>
  <1>1. /\ n.samples = <<>> /\ Len(n.samples) = 0 /\ n.boundAt = at /\ n.state = "BOUND"
        /\ n.startedAt = None /\ n.stoppedAt = None /\ n.releasedAt = None
        /\ n.sampleAt = <<>> /\ n \in RoleRecord
    BY DEF BoundRecord, RoleRecord, States, Moment
  <1>2. 1..Len(n.samples) = {}
    BY <1>1
  <1>3. Ascend(n)
    BY <1>1, <1>2 DEF Ascend
  <1>4. Lived(n)
    BY <1>1 DEF Lived
  <1> QED
    BY <1>1, <1>3, <1>4

LEMMA BoundTold ==
  ASSUME NEW transcript \in Seq(Event), NEW r, NEW e \in Event, e.type = "ROLE_CGROUP_BOUND",
         e.role = r, \A t \in RoleTypes : Nowhere(AtRole(transcript, t, r)),
         NEW n, Len(n.samples) = 0, n.boundAt = Len(transcript) + 1,
         n.startedAt = None, n.stoppedAt = None, n.releasedAt = None
  PROVE  Told(Append(transcript, e), r, n)
  <1>1. Nowhere(AtRole(transcript, e.type, e.role))
    BY DEF RoleTypes, RoleEvents
  <1>2. AtRole(Append(transcript, e), e.type, e.role) = {Len(transcript) + 1}
    BY <1>1, FirstAtRole
  <1>3. \A t \in RoleTypes \ {"ROLE_CGROUP_BOUND"} : AtRole(Append(transcript, e), t, r) = {}
    <2> TAKE t \in RoleTypes \ {"ROLE_CGROUP_BOUND"}
    <2>1. AtRole(Append(transcript, e), t, r) = AtRole(transcript, t, r)
      BY AppendAtRole
    <2> QED
      BY <2>1 DEF Nowhere
  <1>4. 1..Len(n.samples) = {}
    OBVIOUS
  <1> QED
    BY <1>2, <1>3, <1>4 DEF Told, OneAt, RoleTypes, RoleEvents

\* x is w after role r has been admitted with the record n.
BoundTo(w, r, n, e, x) ==
  /\ SoundWork(x) /\ DOMAIN x.role = DOMAIN w.role \cup {r}
  /\ x.role[r] = n /\ \A q \in DOMAIN w.role : x.role[q] = w.role[q]
  /\ x.events = Append(w.events, e) /\ e \in Event /\ e.type = "ROLE_CGROUP_BOUND"

LEMMA BoundSound ==
  ASSUME NEW w, SoundWork(w), NEW r \in Roles \ DOMAIN w.role, Admitted(DOMAIN w.role \cup {r}),
         NEW n, n = BoundRecord(Len(w.events) + 1),
         NEW e, e = RoleEvent("ROLE_CGROUP_BOUND", r),
         NEW x, x = [role |-> Including(w.role, r, n), events |-> Append(w.events, e)]
  PROVE  BoundTo(w, r, n, e, x)
  <1>1. /\ w.events \in Seq(Event) /\ Len(w.events) \in Nat
        /\ DOMAIN w.role \subseteq Roles /\ w.role \in [DOMAIN w.role -> RoleRecord]
    BY DEF SoundWork, IsWork
  <1>2. /\ n \in RoleRecord /\ Ascend(n) /\ Lived(n) /\ Len(n.samples) = 0
        /\ n.boundAt = Len(w.events) + 1
        /\ n.startedAt = None /\ n.stoppedAt = None /\ n.releasedAt = None
    BY <1>1, BoundRecordIs
  <1>3. e \in Event /\ e.type = "ROLE_CGROUP_BOUND" /\ e.role = r
    BY DEF RoleEvent, Event, RoleEvents
  <1>4. /\ x.role = Including(w.role, r, n) /\ x.events = Append(w.events, e)
        /\ x = [role |-> x.role, events |-> x.events]
    OBVIOUS
  <1>5. /\ DOMAIN x.role = DOMAIN w.role \cup {r} /\ x.role[r] = n
        /\ \A q \in DOMAIN w.role : x.role[q] = w.role[q]
        /\ x.role \in [DOMAIN x.role -> RoleRecord]
    BY <1>1, <1>2, <1>4 DEF Including
  <1>6. x.events \in Seq(Event)
    BY <1>1, <1>3, <1>4, AppendGrows
  <1>7. IsWork(x) /\ Admitted(DOMAIN x.role)
    BY <1>1, <1>4, <1>5, <1>6 DEF IsWork
  <1>8. Told(Append(w.events, e), r, n)
    <2>1. \A t \in RoleTypes : Nowhere(AtRole(w.events, t, r))
      BY UnboundIsUntold
    <2> QED
      BY <2>1, <1>1, <1>2, <1>3, BoundTold
  <1>9. \A q \in DOMAIN x.role :
          Told(x.events, q, x.role[q]) /\ Ascend(x.role[q]) /\ Lived(x.role[q])
    <2> SUFFICES ASSUME NEW q \in DOMAIN w.role
                 PROVE  Told(Append(w.events, e), q, w.role[q]) /\ Ascend(w.role[q]) /\ Lived(w.role[q])
      BY <1>2, <1>4, <1>5, <1>8
    <2>1. Told(w.events, q, w.role[q]) /\ Ascend(w.role[q]) /\ Lived(w.role[q]) /\ q # r
      BY DEF SoundWork
    <2> QED
      BY <2>1, <1>1, <1>3, OthersKeepTold
  <1>10. \A i \in DOMAIN x.events :
           "role" \in DOMAIN x.events[i] => x.events[i].role \in DOMAIN x.role
    <2> TAKE i \in DOMAIN x.events
    <2>1. CASE i \in DOMAIN w.events
      BY <2>1, <1>1, <1>3, <1>4, <1>5, AppendGrows DEF SoundWork
    <2>2. CASE i = Len(w.events) + 1
      BY <2>2, <1>1, <1>3, <1>4, <1>5, AppendGrows
    <2> QED
      BY <2>1, <2>2, <1>1, <1>3, <1>4, AppendGrows
  <1>11. At(x.events, "CONTROLLER_STARTED") = {1}
    BY <1>1, <1>3, <1>4, StartStays DEF SoundWork
  <1>12. SoundWork(x)
    BY <1>7, <1>9, <1>10, <1>11 DEF SoundWork
  <1> QED
    BY <1>3, <1>4, <1>5, <1>12 DEF BoundTo

(***************************************************************************)
(* Containment                                                             *)
(***************************************************************************)

ActionEvent(name, succeeded) ==
  [type |-> "CONTAINMENT_ACTION", action |-> name, result |-> Result(succeeded)]

\* The failure stands after `before` events, and the actions right after it.
Harmed(transcript, before, code, a, acted) ==
  /\ At(transcript, "FAILURE_OBSERVED") = {before + 1}
  /\ transcript[before + 1].code = code
  /\ At(transcript, "CONTAINMENT_ACTION")
       = IF acted THEN {before + 2, before + 3, before + 4} ELSE {}
  /\ acted => /\ transcript[before + 2] = ActionEvent("FREEZE", a.freeze)
              /\ transcript[before + 3] = ActionEvent("KILL", a.kill)
              /\ transcript[before + 4] = ActionEvent("REAP", a.reap)

IsAnswer(a, unfinished) ==
  /\ a = [freeze |-> a.freeze, kill |-> a.kill, reap |-> a.reap, left |-> a.left,
          stops |-> a.stops, released |-> a.released]
  /\ a.freeze \in BOOLEAN /\ a.kill \in BOOLEAN /\ a.reap \in BOOLEAN /\ a.stops \in BOOLEAN
  /\ a.left \in {0, 1} /\ a.released \subseteq unfinished
  /\ unfinished = {} => a.freeze /\ a.kill /\ a.reap /\ a.left = 0

LEMMA AnswersAre ==
  ASSUME NEW unfinished, unfinished \subseteq Roles, NEW a \in Answers(unfinished)
  PROVE  IsAnswer(a, unfinished)
  <1>1. PICK F : /\ F \subseteq (IF unfinished = {} THEN {"stops"} ELSE Steps) \cup unfinished
                 /\ a = [freeze |-> "freeze" \notin F, kill |-> "kill" \notin F,
                         reap |-> "reap" \notin F, left |-> IF "left" \in F THEN 1 ELSE 0,
                         stops |-> "stops" \notin F, released |-> unfinished \ F]
    BY DEF Answers
  <1>2. unfinished = {} => F \subseteq {"stops"}
    BY <1>1
  <1> QED
    BY <1>1, <1>2 DEF IsAnswer

LEMMA HarmedStays ==
  ASSUME NEW transcript \in Seq(Event), NEW e \in Event,
         e.type \notin {"FAILURE_OBSERVED", "CONTAINMENT_ACTION"},
         NEW before \in Nat, NEW code, NEW a, NEW acted \in BOOLEAN,
         Harmed(transcript, before, code, a, acted)
  PROVE  Harmed(Append(transcript, e), before, code, a, acted)
  <1>1. /\ At(Append(transcript, e), "FAILURE_OBSERVED") = At(transcript, "FAILURE_OBSERVED")
        /\ At(Append(transcript, e), "CONTAINMENT_ACTION") = At(transcript, "CONTAINMENT_ACTION")
    BY AppendAt
  <1>2. \A t : At(transcript, t) \subseteq DOMAIN transcript
    BY DEF At
  <1>3. \A i \in DOMAIN transcript : Append(transcript, e)[i] = transcript[i]
    BY AppendGrows
  <1>4. Append(transcript, e)[before + 1] = transcript[before + 1]
    BY <1>2, <1>3 DEF Harmed
  <1>5. acted => /\ Append(transcript, e)[before + 2] = transcript[before + 2]
                 /\ Append(transcript, e)[before + 3] = transcript[before + 3]
                 /\ Append(transcript, e)[before + 4] = transcript[before + 4]
    BY <1>2, <1>3 DEF Harmed
  <1> QED
    BY <1>1, <1>4, <1>5 DEF Harmed

\* What a release or a stop leaves of a role.
Keeps(p, n) == n.samples = p.samples /\ n.boundAt = p.boundAt /\ n.startedAt = p.startedAt

\* x is s after role r has been contained.
ContainedFrom(s, x, r, before, code, a, acted) ==
  /\ SoundWork(x) /\ DOMAIN x.role = DOMAIN s.role
  /\ \A q \in DOMAIN s.role \ {r} : x.role[q] = s.role[q]
  /\ Keeps(s.role[r], x.role[r])
  /\ x.role[r].state = "RELEASED" <=> r \in a.released
  /\ Harmed(x.events, before, code, a, acted)
  /\ At(x.events, "CONTROLLER_STOPPED") = {}

LEMMA ContainedRoleIs ==
  ASSUME NEW s, SoundWork(s), NEW r \in DOMAIN s.role, s.role[r].state # "RELEASED",
         NEW before \in Nat, NEW code, NEW a, NEW acted \in BOOLEAN,
         Harmed(s.events, before, code, a, acted), At(s.events, "CONTROLLER_STOPPED") = {}
  PROVE  ContainedFrom(s, ContainedRole(s, r, a), r, before, code, a, acted)
  <1>1. PICK m : m = IF s.role[r].state = "RUNNING" THEN Stopped(s, r) ELSE s
    OBVIOUS
  <1>2. s.events \in Seq(Event) /\ s.role[r] \in RoleRecord /\ Len(s.events) \in Nat
    BY BoundRoleIs
  <1>3. /\ SoundWork(m) /\ DOMAIN m.role = DOMAIN s.role
        /\ \A q \in DOMAIN s.role \ {r} : m.role[q] = s.role[q]
        /\ Keeps(s.role[r], m.role[r]) /\ m.role[r].state \in {"BOUND", "STOPPED"}
        /\ Harmed(m.events, before, code, a, acted)
        /\ At(m.events, "CONTROLLER_STOPPED") = {}
    <2>1. CASE s.role[r].state = "RUNNING"
      <3>1. PICK e : e = RoleEvent("ROLE_EXECUTION_STOPPED", r)
        OBVIOUS
      <3>2. /\ SoundWork(m) /\ DOMAIN m.role = DOMAIN s.role
            /\ \A q \in DOMAIN s.role \ {r} : m.role[q] = s.role[q]
            /\ m.role[r] = StoppedRecord(s.role[r], Len(s.events) + 1)
            /\ m.events = Append(s.events, e) /\ e \in Event
        BY <1>1, <2>1, <3>1, StoppedSound
      <3>3. e.type = "ROLE_EXECUTION_STOPPED"
        BY <3>1 DEF RoleEvent
      <3>4. Keeps(s.role[r], m.role[r]) /\ m.role[r].state = "STOPPED"
        BY <3>2, <1>2 DEF StoppedRecord, RoleRecord, Keeps
      <3>5. Harmed(m.events, before, code, a, acted)
        BY <1>2, <3>2, <3>3, HarmedStays
      <3>6. At(m.events, "CONTROLLER_STOPPED") = {}
        BY <1>2, <3>2, <3>3, AppendAt
      <3> QED
        BY <3>2, <3>4, <3>5, <3>6
    <2>2. CASE s.role[r].state # "RUNNING"
      <3>1. s.role[r].state \in {"BOUND", "STOPPED"}
        BY <2>2, <1>2 DEF RoleRecord, States
      <3> QED
        BY <1>1, <2>2, <3>1 DEF Keeps
    <2> QED
      BY <2>1, <2>2
  <1>4. ContainedRole(s, r, a) = IF r \in a.released THEN Released(m, r) ELSE m
    BY <1>1 DEF ContainedRole
  <1>5. CASE r \in a.released
    <2>1. PICK e : e = RoleEvent("ROLE_CGROUP_RELEASED", r)
      OBVIOUS
    <2>2. PICK x : x = Released(m, r)
      OBVIOUS
    <2>3. /\ SoundWork(x) /\ DOMAIN x.role = DOMAIN m.role
          /\ \A q \in DOMAIN m.role \ {r} : x.role[q] = m.role[q]
          /\ x.role[r] = ReleasedRecord(m.role[r], Len(m.events) + 1)
          /\ x.events = Append(m.events, e) /\ e \in Event
      BY <1>3, <2>1, <2>2, ReleasedSound
    <2>4. e.type = "ROLE_CGROUP_RELEASED"
      BY <2>1 DEF RoleEvent
    <2>5. m.events \in Seq(Event) /\ m.role[r] \in RoleRecord
      BY <1>3, BoundRoleIs
    <2>6. Keeps(m.role[r], x.role[r]) /\ x.role[r].state = "RELEASED"
      BY <2>3, <2>5 DEF ReleasedRecord, RoleRecord, Keeps
    <2>7. Harmed(x.events, before, code, a, acted)
      BY <1>3, <2>3, <2>4, <2>5, HarmedStays
    <2>8. At(x.events, "CONTROLLER_STOPPED") = {}
      BY <1>3, <2>3, <2>4, <2>5, AppendAt
    <2>9. Keeps(s.role[r], x.role[r])
      BY <1>3, <2>6 DEF Keeps
    <2> QED
      BY <1>3, <1>4, <1>5, <2>2, <2>3, <2>6, <2>7, <2>8, <2>9 DEF ContainedFrom
  <1>6. CASE r \notin a.released
    BY <1>3, <1>4, <1>6 DEF ContainedFrom
  <1> QED
    BY <1>5, <1>6

\* Containment of what w leaves unfinished has come to s: the failure and the
\* actions are recorded, and the roles of Done have been looked at.
Containing(w, s, code, a, Done) ==
  /\ SoundWork(s) /\ DOMAIN s.role = DOMAIN w.role
  /\ Harmed(s.events, Len(w.events), code, a, Unfinished(w) # {})
  /\ At(s.events, "CONTROLLER_STOPPED") = {}
  /\ \A r \in DOMAIN w.role :
       /\ Keeps(w.role[r], s.role[r])
       /\ s.role[r].state = "RELEASED"
            <=> w.role[r].state = "RELEASED" \/ r \in Done \cap a.released
       /\ w.role[r].state = "RELEASED" \/ r \notin Done => s.role[r] = w.role[r]

FailureEvent(code) == [type |-> "FAILURE_OBSERVED", code |-> code]
StopEvent == [type |-> "CONTROLLER_STOPPED"]

Seen(w, code) == Appended(w, FailureEvent(code))

Acted(w, code, a) ==
  Appended(Appended(Appended(Seen(w, code), ActionEvent("FREEZE", a.freeze)),
                    ActionEvent("KILL", a.kill)),
           ActionEvent("REAP", a.reap))

EachOf(w, s, r, a) == IF r \in Unfinished(w) THEN ContainedRole(s, r, a) ELSE s

Over(w, code, a) ==
  IF Unfinished(w) = {} THEN Seen(w, code)
  ELSE EachOf(w, EachOf(w, EachOf(w, Acted(w, code, a), "egress", a), "worker", a),
              "verifier", a)

LEMMA ContainedIs ==
  ASSUME NEW w, NEW code, NEW a
  PROVE  Contained(w, code, a)
           = IF a.stops THEN Appended(Over(w, code, a), StopEvent) ELSE Over(w, code, a)
  BY DEF Contained, Over, EachOf, Acted, Seen, FailureEvent, ActionEvent, StopEvent

LEMMA EventsAre ==
  ASSUME NEW code \in Codes, NEW a, NEW unfinished, IsAnswer(a, unfinished)
  PROVE  /\ FailureEvent(code) \in Event /\ StopEvent \in Event
         /\ ActionEvent("FREEZE", a.freeze) \in Event /\ ActionEvent("KILL", a.kill) \in Event
         /\ ActionEvent("REAP", a.reap) \in Event
         /\ FailureEvent(code).type = "FAILURE_OBSERVED" /\ FailureEvent(code).code = code
         /\ StopEvent.type = "CONTROLLER_STOPPED"
         /\ \A name, succeeded : ActionEvent(name, succeeded).type = "CONTAINMENT_ACTION"
  BY DEF FailureEvent, StopEvent, ActionEvent, Event, Result, IsAnswer

\* s is w after a failure has been recorded.
SeenFrom(w, s, code) ==
  /\ SoundWork(s) /\ s.role = w.role
  /\ Len(s.events) = Len(w.events) + 1 /\ Len(w.events) \in Nat
  /\ At(s.events, "FAILURE_OBSERVED") = {Len(w.events) + 1}
  /\ s.events[Len(w.events) + 1].code = code
  /\ At(s.events, "CONTAINMENT_ACTION") = {} /\ At(s.events, "CONTROLLER_STOPPED") = {}

LEMMA SeenIs ==
  ASSUME NEW w, SoundWork(w), Unharmed(w.events), NEW code \in Codes,
         NEW s, s = Seen(w, code)
  PROVE  SeenFrom(w, s, code)
  <1>1. PICK e : e = FailureEvent(code)
    OBVIOUS
  <1>2. e \in Event /\ e.type = "FAILURE_OBSERVED" /\ e.code = code
    BY <1>1 DEF FailureEvent, Event
  <1>3. e.type \notin RoleTypes /\ e.type # "CONTROLLER_STARTED"
    BY <1>2 DEF RoleTypes, RoleEvents
  <1>4. w.events \in Seq(Event)
    BY DEF SoundWork, IsWork
  <1>5. s = Appended(w, e)
    BY <1>1 DEF Seen
  <1>6. SoundWork(s) /\ s.role = w.role /\ s.events = Append(w.events, e)
    BY <1>2, <1>3, <1>5, PlainStep
  <1>7. /\ Len(s.events) = Len(w.events) + 1 /\ Len(w.events) \in Nat
        /\ s.events[Len(w.events) + 1] = e /\ s.events \in Seq(Event)
    BY <1>2, <1>4, <1>6, AppendGrows
  <1>8. At(s.events, "FAILURE_OBSERVED") = {Len(w.events) + 1}
    <2>1. At(Append(w.events, e), "FAILURE_OBSERVED")
            = At(w.events, "FAILURE_OBSERVED") \cup {Len(w.events) + 1}
      BY <1>2, <1>4, AppendAt
    <2>2. \A i : i \notin At(w.events, "FAILURE_OBSERVED")
      BY DEF Unharmed
    <2> QED
      BY <1>6, <2>1, <2>2
  <1>9. /\ At(s.events, "CONTAINMENT_ACTION") = At(w.events, "CONTAINMENT_ACTION")
        /\ At(s.events, "CONTROLLER_STOPPED") = At(w.events, "CONTROLLER_STOPPED")
    BY <1>2, <1>4, <1>6, AppendAt
  <1>10. At(s.events, "CONTAINMENT_ACTION") = {} /\ At(s.events, "CONTROLLER_STOPPED") = {}
    BY <1>9 DEF Unharmed
  <1> QED
    BY <1>1, <1>2, <1>6, <1>7, <1>8, <1>10 DEF SeenFrom

\* x is w after one more containment action.
ActedFrom(w, x, e) ==
  /\ SoundWork(x) /\ x.role = w.role /\ At(x.events, "CONTROLLER_STOPPED") = {}
  /\ Len(x.events) = Len(w.events) + 1
  /\ At(x.events, "FAILURE_OBSERVED") = At(w.events, "FAILURE_OBSERVED")
  /\ At(x.events, "CONTAINMENT_ACTION")
       = At(w.events, "CONTAINMENT_ACTION") \cup {Len(w.events) + 1}
  /\ x.events[Len(w.events) + 1] = e
  /\ \A i \in 1..Len(w.events) : x.events[i] = w.events[i]

LEMMA ActionStep ==
  ASSUME NEW w, SoundWork(w), At(w.events, "CONTROLLER_STOPPED") = {},
         NEW e \in Event, e.type = "CONTAINMENT_ACTION", NEW x, x = Appended(w, e)
  PROVE  ActedFrom(w, x, e)
  <1>1. e.type \notin RoleTypes /\ e.type # "CONTROLLER_STARTED"
    BY DEF RoleTypes, RoleEvents
  <1>2. w.events \in Seq(Event)
    BY DEF SoundWork, IsWork
  <1>3. SoundWork(x) /\ x.role = w.role /\ x.events = Append(w.events, e)
    BY <1>1, PlainStep
  <1>4. /\ Len(x.events) = Len(w.events) + 1 /\ x.events[Len(w.events) + 1] = e
        /\ \A i \in 1..Len(w.events) : x.events[i] = w.events[i]
    BY <1>2, <1>3, AppendGrows
  <1>5. /\ At(x.events, "FAILURE_OBSERVED") = At(w.events, "FAILURE_OBSERVED")
        /\ At(x.events, "CONTROLLER_STOPPED") = At(w.events, "CONTROLLER_STOPPED")
        /\ At(x.events, "CONTAINMENT_ACTION")
              = At(w.events, "CONTAINMENT_ACTION") \cup {Len(w.events) + 1}
    <2>1. At(Append(w.events, e), "CONTAINMENT_ACTION")
            = At(w.events, "CONTAINMENT_ACTION") \cup {Len(w.events) + 1}
      <3>1. PICK t, u : t = "CONTAINMENT_ACTION" /\ u = w.events
        OBVIOUS
      <3>2. At(Append(u, e), t) = At(u, t) \cup {Len(u) + 1}
        BY <1>2, <3>1, AppendAt
      <3> QED
        BY <3>1, <3>2
    <2>2. /\ At(Append(w.events, e), "FAILURE_OBSERVED") = At(w.events, "FAILURE_OBSERVED")
          /\ At(Append(w.events, e), "CONTROLLER_STOPPED") = At(w.events, "CONTROLLER_STOPPED")
      BY <1>2, AppendAt
    <2> QED
      BY <1>3, <2>1, <2>2
  <1> QED
    BY <1>3, <1>4, <1>5 DEF ActedFrom

LEMMA ActedContaining ==
  ASSUME NEW w, SoundWork(w), Unharmed(w.events), NEW code \in Codes,
         NEW a, IsAnswer(a, Unfinished(w)), Unfinished(w) # {}
  PROVE  Containing(w, Acted(w, code, a), code, a, {})
  <1>1. PICK s : s = Seen(w, code)
    OBVIOUS
  <1>2. PICK x : x = Appended(s, ActionEvent("FREEZE", a.freeze))
    OBVIOUS
  <1>3. PICK y : y = Appended(x, ActionEvent("KILL", a.kill))
    OBVIOUS
  <1>4. PICK z : z = Appended(y, ActionEvent("REAP", a.reap))
    OBVIOUS
  <1>5. Acted(w, code, a) = z
    BY <1>1, <1>2, <1>3, <1>4 DEF Acted
  <1>6. PICK n : n = Len(w.events)
    OBVIOUS
  <1>7. /\ SoundWork(s) /\ s.role = w.role /\ Len(s.events) = n + 1 /\ n \in Nat
        /\ At(s.events, "FAILURE_OBSERVED") = {n + 1} /\ s.events[n + 1].code = code
        /\ At(s.events, "CONTAINMENT_ACTION") = {} /\ At(s.events, "CONTROLLER_STOPPED") = {}
    <2>1. SeenFrom(w, s, code)
      BY <1>1, SeenIs
    <2> QED
      BY <1>6, <2>1 DEF SeenFrom
  <1>8. /\ SoundWork(x) /\ x.role = s.role /\ At(x.events, "CONTROLLER_STOPPED") = {}
        /\ Len(x.events) = n + 2 /\ At(x.events, "FAILURE_OBSERVED") = {n + 1}
        /\ At(x.events, "CONTAINMENT_ACTION") = {n + 2}
        /\ x.events[n + 2] = ActionEvent("FREEZE", a.freeze) /\ x.events[n + 1] = s.events[n + 1]
    <2>1. PICK e : e = ActionEvent("FREEZE", a.freeze)
      OBVIOUS
    <2>2. e \in Event /\ e.type = "CONTAINMENT_ACTION"
      BY <2>1, EventsAre
    <2>3. x = Appended(s, e)
      BY <2>1, <1>2
    <2>4. /\ SoundWork(x) /\ x.role = s.role /\ At(x.events, "CONTROLLER_STOPPED") = {}
          /\ Len(x.events) = Len(s.events) + 1
          /\ At(x.events, "FAILURE_OBSERVED") = At(s.events, "FAILURE_OBSERVED")
          /\ At(x.events, "CONTAINMENT_ACTION")
               = At(s.events, "CONTAINMENT_ACTION") \cup {Len(s.events) + 1}
          /\ x.events[Len(s.events) + 1] = e
          /\ \A i \in 1..Len(s.events) : x.events[i] = s.events[i]
      <3>1. SoundWork(s) /\ At(s.events, "CONTROLLER_STOPPED") = {}
        BY <1>7
      <3>2. ActedFrom(s, x, e)
        BY <2>2, <2>3, <3>1, ActionStep
      <3> QED
        BY <3>2 DEF ActedFrom
    <2>5. Len(s.events) + 1 = n + 2 /\ n + 1 \in 1..Len(s.events)
      BY <1>7
    <2>6. \A i : i \notin At(s.events, "CONTAINMENT_ACTION")
      BY <1>7
    <2>7. At(x.events, "CONTAINMENT_ACTION") = {n + 2}
      BY <2>4, <2>5, <2>6
    <2> QED
      BY <2>1, <2>4, <2>5, <2>7, <1>7
  <1>9. /\ SoundWork(y) /\ y.role = s.role /\ At(y.events, "CONTROLLER_STOPPED") = {}
        /\ Len(y.events) = n + 3 /\ At(y.events, "FAILURE_OBSERVED") = {n + 1}
        /\ At(y.events, "CONTAINMENT_ACTION") = {n + 2, n + 3}
        /\ y.events[n + 3] = ActionEvent("KILL", a.kill)
        /\ y.events[n + 2] = x.events[n + 2] /\ y.events[n + 1] = s.events[n + 1]
    <2>1. PICK e : e = ActionEvent("KILL", a.kill)
      OBVIOUS
    <2>2. e \in Event /\ e.type = "CONTAINMENT_ACTION"
      BY <2>1, EventsAre
    <2>3. y = Appended(x, e)
      BY <2>1, <1>3
    <2>4. /\ SoundWork(y) /\ y.role = x.role /\ At(y.events, "CONTROLLER_STOPPED") = {}
          /\ Len(y.events) = Len(x.events) + 1
          /\ At(y.events, "FAILURE_OBSERVED") = At(x.events, "FAILURE_OBSERVED")
          /\ At(y.events, "CONTAINMENT_ACTION")
               = At(x.events, "CONTAINMENT_ACTION") \cup {Len(x.events) + 1}
          /\ y.events[Len(x.events) + 1] = e
          /\ \A i \in 1..Len(x.events) : y.events[i] = x.events[i]
      <3>1. SoundWork(x) /\ At(x.events, "CONTROLLER_STOPPED") = {}
        BY <1>8
      <3>2. ActedFrom(x, y, e)
        BY <2>2, <2>3, <3>1, ActionStep
      <3> QED
        BY <3>2 DEF ActedFrom
    <2>5. Len(x.events) + 1 = n + 3 /\ n + 1 \in 1..Len(x.events) /\ n + 2 \in 1..Len(x.events)
      BY <1>7, <1>8
    <2>6. At(y.events, "CONTAINMENT_ACTION") = {n + 2, n + 3}
      BY <2>4, <2>5, <1>8
    <2> QED
      BY <2>1, <2>4, <2>5, <2>6, <1>7, <1>8
  <1>10. /\ SoundWork(z) /\ z.role = s.role /\ At(z.events, "CONTROLLER_STOPPED") = {}
         /\ At(z.events, "FAILURE_OBSERVED") = {n + 1}
         /\ At(z.events, "CONTAINMENT_ACTION") = {n + 2, n + 3, n + 4}
         /\ z.events[n + 4] = ActionEvent("REAP", a.reap) /\ z.events[n + 3] = y.events[n + 3]
         /\ z.events[n + 2] = x.events[n + 2] /\ z.events[n + 1] = s.events[n + 1]
    <2>1. PICK e : e = ActionEvent("REAP", a.reap)
      OBVIOUS
    <2>2. e \in Event /\ e.type = "CONTAINMENT_ACTION"
      BY <2>1, EventsAre
    <2>3. z = Appended(y, e)
      BY <2>1, <1>4
    <2>4. /\ SoundWork(z) /\ z.role = y.role /\ At(z.events, "CONTROLLER_STOPPED") = {}
          /\ At(z.events, "FAILURE_OBSERVED") = At(y.events, "FAILURE_OBSERVED")
          /\ At(z.events, "CONTAINMENT_ACTION")
               = At(y.events, "CONTAINMENT_ACTION") \cup {Len(y.events) + 1}
          /\ z.events[Len(y.events) + 1] = e
          /\ \A i \in 1..Len(y.events) : z.events[i] = y.events[i]
      <3>1. SoundWork(y) /\ At(y.events, "CONTROLLER_STOPPED") = {}
        BY <1>9
      <3>2. ActedFrom(y, z, e)
        BY <2>2, <2>3, <3>1, ActionStep
      <3> QED
        BY <3>2 DEF ActedFrom
    <2>5. /\ Len(y.events) + 1 = n + 4 /\ n + 1 \in 1..Len(y.events)
          /\ n + 2 \in 1..Len(y.events) /\ n + 3 \in 1..Len(y.events)
      BY <1>7, <1>9
    <2>6. At(z.events, "CONTAINMENT_ACTION") = {n + 2, n + 3, n + 4}
      BY <2>4, <2>5, <1>9
    <2> QED
      BY <2>1, <2>4, <2>5, <2>6, <1>7, <1>9
  <1>11. Harmed(z.events, Len(w.events), code, a, Unfinished(w) # {})
    BY <1>6, <1>7, <1>8, <1>9, <1>10 DEF Harmed
  <1>12. z.role = w.role
    BY <1>7, <1>10
  <1> QED
    BY <1>5, <1>10, <1>11, <1>12 DEF Containing, Keeps

LEMMA EachContaining ==
  ASSUME NEW w, NEW s, NEW code, NEW a, NEW Done, NEW r \in Roles \ Done,
         Len(w.events) \in Nat, Containing(w, s, code, a, Done), IsAnswer(a, Unfinished(w))
  PROVE  Containing(w, EachOf(w, s, r, a), code, a, Done \cup {r})
  <1>1. CASE r \in Unfinished(w)
    <2>1. r \in DOMAIN w.role /\ w.role[r].state # "RELEASED" /\ s.role[r] = w.role[r]
      BY <1>1 DEF Unfinished, Containing
    <2>2. PICK x : x = ContainedRole(s, r, a)
      OBVIOUS
    <2>3. (Unfinished(w) # {}) \in BOOLEAN
      OBVIOUS
    <2>4. /\ SoundWork(x) /\ DOMAIN x.role = DOMAIN s.role
          /\ \A q \in DOMAIN s.role \ {r} : x.role[q] = s.role[q]
          /\ Keeps(s.role[r], x.role[r])
          /\ x.role[r].state = "RELEASED" <=> r \in a.released
          /\ Harmed(x.events, Len(w.events), code, a, Unfinished(w) # {})
          /\ At(x.events, "CONTROLLER_STOPPED") = {}
      <3>1. /\ SoundWork(s) /\ r \in DOMAIN s.role /\ s.role[r].state # "RELEASED"
            /\ Harmed(s.events, Len(w.events), code, a, Unfinished(w) # {})
            /\ At(s.events, "CONTROLLER_STOPPED") = {}
        BY <2>1 DEF Containing
      <3>2. ContainedFrom(s, x, r, Len(w.events), code, a, Unfinished(w) # {})
        BY <2>2, <2>3, <3>1, ContainedRoleIs
      <3> QED
        BY <3>2 DEF ContainedFrom
    <2>5. EachOf(w, s, r, a) = x
      BY <1>1, <2>2 DEF EachOf
    <2>6. \A q \in DOMAIN w.role :
            /\ Keeps(w.role[q], x.role[q])
            /\ x.role[q].state = "RELEASED"
                 <=> w.role[q].state = "RELEASED" \/ q \in (Done \cup {r}) \cap a.released
            /\ w.role[q].state = "RELEASED" \/ q \notin Done \cup {r} => x.role[q] = w.role[q]
      <3> TAKE q \in DOMAIN w.role
      <3>1. CASE q = r
        BY <3>1, <2>1, <2>4
      <3>2. CASE q # r
        BY <3>2, <2>4 DEF Containing
      <3> QED
        BY <3>1, <3>2
    <2> QED
      BY <2>4, <2>5, <2>6 DEF Containing
  <1>2. CASE r \notin Unfinished(w)
    <2>1. EachOf(w, s, r, a) = s
      BY <1>2 DEF EachOf
    <2>2. r \notin DOMAIN w.role \/ w.role[r].state = "RELEASED"
      BY <1>2 DEF Unfinished
    <2>3. \A q \in DOMAIN w.role :
            /\ s.role[q].state = "RELEASED"
                 <=> w.role[q].state = "RELEASED" \/ q \in (Done \cup {r}) \cap a.released
            /\ w.role[q].state = "RELEASED" \/ q \notin Done \cup {r} => s.role[q] = w.role[q]
      BY <2>2 DEF Containing
    <2> QED
      BY <2>1, <2>3 DEF Containing
  <1> QED
    BY <1>1, <1>2

LEMMA OverContaining ==
  ASSUME NEW w, SoundWork(w), Unharmed(w.events), NEW code \in Codes,
         NEW a, IsAnswer(a, Unfinished(w))
  PROVE  Containing(w, Over(w, code, a), code, a, Roles)
  <1>1. Len(w.events) \in Nat
    BY AtIsInside DEF SoundWork, IsWork
  <1>2. CASE Unfinished(w) = {}
    <2>1. PICK s : s = Seen(w, code)
      OBVIOUS
    <2>2. Over(w, code, a) = s
      BY <1>2, <2>1 DEF Over
    <2>3. SeenFrom(w, s, code)
      BY <2>1, SeenIs
    <2>4. \A r \in DOMAIN w.role : w.role[r].state = "RELEASED"
      BY <1>2 DEF Unfinished
    <2> QED
      BY <1>2, <2>2, <2>3, <2>4 DEF Containing, Harmed, Keeps, SeenFrom
  <1>3. CASE Unfinished(w) # {}
    <2>1. PICK s : s = Acted(w, code, a)
      OBVIOUS
    <2>2. PICK x : x = EachOf(w, s, "egress", a)
      OBVIOUS
    <2>3. PICK y : y = EachOf(w, x, "worker", a)
      OBVIOUS
    <2>4. PICK z : z = EachOf(w, y, "verifier", a)
      OBVIOUS
    <2>5. Over(w, code, a) = z
      BY <1>3, <2>1, <2>2, <2>3, <2>4 DEF Over
    <2>6. Containing(w, s, code, a, {})
      BY <1>3, <2>1, ActedContaining
    <2>7. Containing(w, x, code, a, {} \cup {"egress"})
      BY <1>1, <2>2, <2>6, EachContaining DEF Roles
    <2>8. Containing(w, x, code, a, {"egress"})
      BY <2>7
    <2>9. Containing(w, y, code, a, {"egress"} \cup {"worker"})
      BY <1>1, <2>3, <2>8, EachContaining DEF Roles
    <2>10. Containing(w, y, code, a, {"egress", "worker"})
      <3>1. {"egress"} \cup {"worker"} = {"egress", "worker"}
        OBVIOUS
      <3> QED
        BY <2>9, <3>1
    <2>11. Containing(w, z, code, a, {"egress", "worker"} \cup {"verifier"})
      BY <1>1, <2>4, <2>10, EachContaining DEF Roles
    <2>12. {"egress", "worker"} \cup {"verifier"} = Roles
      BY DEF Roles
    <2> QED
      BY <2>5, <2>11, <2>12
  <1> QED
    BY <1>2, <1>3

\* x is what the containment of w leaves.
LeftBy(w, x, code, a) ==
  /\ SoundWork(x) /\ DOMAIN x.role = DOMAIN w.role
  /\ Harmed(x.events, Len(w.events), code, a, Unfinished(w) # {})
  /\ At(x.events, "CONTROLLER_STOPPED") = IF a.stops THEN {Len(x.events)} ELSE {}
  /\ \A r \in DOMAIN w.role :
       /\ Keeps(w.role[r], x.role[r])
       /\ x.role[r].state = "RELEASED" <=> w.role[r].state = "RELEASED" \/ r \in a.released
       /\ w.role[r].state = "RELEASED" => x.role[r] = w.role[r]

LEMMA ContainedLeaves ==
  ASSUME NEW w, SoundWork(w), Unharmed(w.events), NEW code \in Codes,
         NEW a, IsAnswer(a, Unfinished(w)), NEW x, x = Contained(w, code, a)
  PROVE  LeftBy(w, x, code, a)
  <1>1. PICK s : s = Over(w, code, a)
    OBVIOUS
  <1>2. Containing(w, s, code, a, Roles)
    BY <1>1, OverContaining
  <1>3. DOMAIN w.role \subseteq Roles /\ Len(w.events) \in Nat /\ s.events \in Seq(Event)
    BY <1>2, AtIsInside DEF SoundWork, IsWork, Containing
  <1>4. /\ SoundWork(s) /\ DOMAIN s.role = DOMAIN w.role
        /\ Harmed(s.events, Len(w.events), code, a, Unfinished(w) # {})
        /\ At(s.events, "CONTROLLER_STOPPED") = {}
        /\ \A r \in DOMAIN w.role :
             /\ Keeps(w.role[r], s.role[r])
             /\ s.role[r].state = "RELEASED" <=> w.role[r].state = "RELEASED" \/ r \in a.released
             /\ w.role[r].state = "RELEASED" => s.role[r] = w.role[r]
    BY <1>2, <1>3 DEF Containing
  <1>5. x = IF a.stops THEN Appended(s, StopEvent) ELSE s
    BY <1>1, ContainedIs
  <1>6. CASE a.stops
    <2>1. PICK e : e = StopEvent
      OBVIOUS
    <2>2. e \in Event /\ e.type = "CONTROLLER_STOPPED"
      BY <2>1, EventsAre
    <2>3. e.type \notin RoleTypes /\ e.type # "CONTROLLER_STARTED"
      BY <2>2 DEF RoleTypes, RoleEvents
    <2>4. SoundWork(x) /\ x.role = s.role /\ x.events = Append(s.events, e)
      BY <1>4, <1>5, <1>6, <2>1, <2>2, <2>3, PlainStep
    <2>5. At(Append(s.events, e), "CONTROLLER_STOPPED")
            = At(s.events, "CONTROLLER_STOPPED") \cup {Len(s.events) + 1}
      BY <1>3, <2>2, AppendAt
    <2>6. \A i : i \notin At(s.events, "CONTROLLER_STOPPED")
      BY <1>4
    <2>7. Len(x.events) = Len(s.events) + 1
      BY <1>3, <2>2, <2>4, AppendGrows
    <2>8. At(x.events, "CONTROLLER_STOPPED") = {Len(x.events)}
      BY <2>4, <2>5, <2>6, <2>7
    <2>9. (Unfinished(w) # {}) \in BOOLEAN
      OBVIOUS
    <2>10. Harmed(x.events, Len(w.events), code, a, Unfinished(w) # {})
      BY <1>3, <1>4, <2>2, <2>4, <2>9, HarmedStays
    <2> QED
      BY <1>4, <1>6, <2>4, <2>8, <2>10 DEF LeftBy
  <1>7. CASE ~a.stops
    BY <1>4, <1>5, <1>7 DEF LeftBy
  <1> QED
    BY <1>6, <1>7

(***************************************************************************)
(* The reader accepts what is told of a role                               *)
(***************************************************************************)

LEMMA AscendingCount ==
  ASSUME NEW n \in Nat, NEW f, \A k \in 1..n : f[k] \in Nat,
         \A j, k \in 1..n : j < k => f[j] < f[k]
  PROVE  Cardinality({f[k] : k \in 1..n}) = n
  <1> DEFINE T == {f[k] : k \in 1..n}
             g == [k \in 1..n |-> f[k]]
  <1>1. g \in [1..n -> T] /\ \A k \in 1..n : g[k] = f[k]
    OBVIOUS
  <1>2. \A t \in T : \E k \in 1..n : g[k] = t
    OBVIOUS
  <1>3. \A j, k \in 1..n : g[j] = g[k] => j = k
    <2> SUFFICES ASSUME NEW j \in 1..n, NEW k \in 1..n, f[j] = f[k], j # k PROVE FALSE
      BY <1>1
    <2>1. j < k \/ k < j
      OBVIOUS
    <2> QED
      BY <2>1
  <1> HIDE DEF g, T
  <1>4. g \in Surjection(1..n, T)
    BY <1>1, <1>2 DEF Surjection
  <1>5. g \in Injection(1..n, T)
    BY <1>1, <1>3 DEF Injection, IsInjective
  <1>6. IsFiniteSet(1..n) /\ Cardinality(1..n) = n
    BY FS_Interval
  <1>7. Cardinality(T) = Cardinality(1..n)
    BY <1>4, <1>5, <1>6, FS_Surjection
  <1> QED
    BY <1>6, <1>7 DEF T

\* The k-th of ascending numbers has k - 1 of them before it.
LEMMA EarlierCount ==
  ASSUME NEW n \in Nat, NEW f, \A k \in 1..n : f[k] \in Nat,
         \A j, k \in 1..n : j < k => f[j] < f[k], NEW k \in 1..n
  PROVE  Cardinality({j \in {f[m] : m \in 1..n} : j < f[k]}) = k - 1
  <1>1. \A m \in 1..n : f[m] < f[k] <=> m < k
    <2> TAKE m \in 1..n
    <2>1. m < k \/ m = k \/ k < m
      OBVIOUS
    <2>2. f[m] \in Nat /\ f[k] \in Nat
      OBVIOUS
    <2> QED
      BY <2>1, <2>2
  <1>2. {j \in {f[m] : m \in 1..n} : j < f[k]} = {f[m] : m \in 1..(k - 1)}
    <2>1. \A m : m \in 1..(k - 1) <=> m \in 1..n /\ m < k
      OBVIOUS
    <2> QED
      BY <1>1, <2>1
  <1>3. k - 1 \in Nat /\ 1..(k - 1) \subseteq 1..n
    OBVIOUS
  <1>4. Cardinality({f[m] : m \in 1..(k - 1)}) = k - 1
    <2>1. \A m \in 1..(k - 1) : f[m] \in Nat
      BY <1>3
    <2>2. \A j, m \in 1..(k - 1) : j < m => f[j] < f[m]
      BY <1>3
    <2> QED
      BY <1>3, <2>1, <2>2, AscendingCount
  <1> QED
    BY <1>2, <1>4

LEMMA OneAtCount ==
  ASSUME NEW at
  PROVE  Cardinality(OneAt(at)) <= 1 /\ (OneAt(at) # {} <=> at # None)
         /\ \A i \in OneAt(at) : i = at
  BY FS_EmptySet, FS_Singleton DEF OneAt

LEMMA ObservedIs ==
  ASSUME NEW p \in RoleRecord, p.samples # <<>>, Ascend(p)
  PROVE  /\ Observed(p).baseline = p.samples[1] /\ Observed(p).last = p.samples[Len(p.samples)]
         /\ Observed(p).delta = Delta(p)
         /\ Delta(p) = p.samples[Len(p.samples)] - p.samples[1]
         /\ Observed(p).count = Len(p.samples) /\ Len(p.samples) \in Nat \ {0}
         /\ Observed(p).released = (p.state = "RELEASED")
         /\ \A k \in 1..Len(p.samples) : p.samples[k] \in Nat
         /\ p.samples[1] <= p.samples[Len(p.samples)]
         /\ Delta(p) \in Nat
  <1>1. p.samples \in Seq(Nat)
    BY DEF RoleRecord
  <1>2. Len(p.samples) \in Nat \ {0} /\ \A k \in 1..Len(p.samples) : p.samples[k] \in Nat
    BY <1>1
  <1>3. 1 \in 1..Len(p.samples) /\ Len(p.samples) \in 1..Len(p.samples)
    BY <1>2
  <1>4. p.samples[1] <= p.samples[Len(p.samples)]
    <2>1. CASE Len(p.samples) = 1
      BY <1>2, <1>3, <2>1
    <2>2. CASE 1 < Len(p.samples)
      BY <1>3, <2>2 DEF Ascend
    <2> QED
      BY <2>1, <2>2, <1>2
  <1>5. Head(p.samples) = p.samples[1]
    BY <1>1
  <1>6. Delta(p) = p.samples[Len(p.samples)] - p.samples[1]
    BY <1>5 DEF Delta, Last
  <1>7. Delta(p) \in Nat
    BY <1>2, <1>3, <1>4, <1>6
  <1>8. /\ Observed(p).baseline = p.samples[1] /\ Observed(p).last = p.samples[Len(p.samples)]
        /\ Observed(p).delta = Delta(p) /\ Observed(p).count = Len(p.samples)
        /\ Observed(p).released = (p.state = "RELEASED")
    BY <1>5 DEF Observed, Last
  <1> QED
    BY <1>2, <1>4, <1>6, <1>7, <1>8

LEMMA LinksObserved ==
  ASSUME NEW transcript \in Seq(Event), NEW r \in Roles, NEW p \in RoleRecord,
         Told(transcript, r, p), Ascend(p), Lived(p), Inside(transcript, p),
         p.samples # <<>>, NEW o, o = Observed(p)
  PROVE  LinksObservedRole(transcript, r, o)
  <1> DEFINE n == Len(p.samples)
             samples == AtRole(transcript, "ROLE_CPU_SAMPLE", r)
             bound == AtRole(transcript, "ROLE_CGROUP_BOUND", r)
             starts == AtRole(transcript, "ROLE_EXECUTION_STARTED", r)
             stops == AtRole(transcript, "ROLE_EXECUTION_STOPPED", r)
             releases == AtRole(transcript, "ROLE_CGROUP_RELEASED", r)
  <1>1. /\ o.baseline = p.samples[1] /\ o.last = p.samples[n] /\ o.count = n
        /\ n \in Nat \ {0} /\ o.released = (p.state = "RELEASED")
        /\ \A k \in 1..n : p.samples[k] \in Nat
    BY ObservedIs
  <1>2. /\ samples = {p.sampleAt[k] : k \in 1..n} /\ bound = {p.boundAt}
        /\ starts = OneAt(p.startedAt) /\ stops = OneAt(p.stoppedAt)
        /\ releases = OneAt(p.releasedAt)
        /\ \A k \in 1..n : transcript[p.sampleAt[k]].index = k - 1
        /\ \A k \in 1..n : transcript[p.sampleAt[k]].usage = p.samples[k]
    BY DEF Told
  <1>3. /\ \A k \in 1..n : p.sampleAt[k] \in Nat
        /\ \A j, k \in 1..n : j < k => p.sampleAt[j] < p.sampleAt[k]
    BY DEF Inside, Ascend
  <1> HIDE DEF n, samples, bound, starts, stops, releases
  <1>4. Cardinality(samples) = o.count
    <2>1. PICK f : f = p.sampleAt
      OBVIOUS
    <2>2. n \in Nat /\ \A k \in 1..n : f[k] \in Nat
      BY <1>1, <1>3, <2>1
    <2>3. \A j, k \in 1..n : j < k => f[j] < f[k]
      BY <1>3, <2>1
    <2>4. Cardinality({f[k] : k \in 1..n}) = n
      BY <2>2, <2>3, AscendingCount
    <2> QED
      BY <1>1, <1>2, <2>1, <2>4
  <1>5. \A i \in samples :
          /\ transcript[i].index = Cardinality({j \in samples : j < i})
          /\ \A j \in samples : i < j => transcript[i].usage <= transcript[j].usage
          /\ transcript[i].index = 0 => transcript[i].usage = o.baseline
          /\ transcript[i].index = o.count - 1 => transcript[i].usage = o.last
    <2> TAKE i \in samples
    <2>1. PICK k \in 1..n : i = p.sampleAt[k]
      BY <1>2
    <2>2. transcript[i].index = k - 1 /\ transcript[i].usage = p.samples[k]
      BY <1>2, <2>1
    <2>3. Cardinality({j \in samples : j < i}) = k - 1
      <3>1. PICK f : f = p.sampleAt
        OBVIOUS
      <3>2. n \in Nat /\ \A m \in 1..n : f[m] \in Nat
        BY <1>1, <1>3, <3>1
      <3>3. \A j, m \in 1..n : j < m => f[j] < f[m]
        BY <1>3, <3>1
      <3>4. Cardinality({j \in {f[m] : m \in 1..n} : j < f[k]}) = k - 1
        BY <3>2, <3>3, EarlierCount
      <3> QED
        BY <1>2, <2>1, <3>1, <3>4
    <2>4. ASSUME NEW j \in samples, i < j PROVE transcript[i].usage <= transcript[j].usage
      <3>1. PICK m \in 1..n : j = p.sampleAt[m]
        BY <1>2
      <3>2. transcript[j].usage = p.samples[m]
        BY <1>2, <3>1
      <3>3. k < m
        <4>1. k < m \/ k = m \/ m < k
          BY <1>1
        <4>2. i \in Nat /\ j \in Nat
          BY <1>3, <2>1, <3>1
        <4> QED
          BY <1>3, <2>1, <2>4, <3>1, <4>1, <4>2
      <3>4. p.samples[k] <= p.samples[m]
        BY <3>3 DEF Ascend, n
      <3> QED
        BY <2>2, <3>2, <3>4
    <2>5. transcript[i].index = 0 => transcript[i].usage = o.baseline
      BY <1>1, <2>2
    <2>6. transcript[i].index = o.count - 1 => transcript[i].usage = o.last
      BY <1>1, <2>2
    <2> QED
      BY <2>2, <2>3, <2>4, <2>5, <2>6
  <1>6. Cardinality(bound) = 1
    BY <1>2, FS_Singleton
  <1>7. /\ Cardinality(starts) <= 1 /\ Cardinality(stops) <= 1 /\ Cardinality(releases) <= 1
        /\ starts # {} <=> p.startedAt # None
        /\ stops # {} <=> p.stoppedAt # None
        /\ releases # {} <=> p.releasedAt # None
        /\ \A i \in starts : i = p.startedAt
        /\ \A i \in stops : i = p.stoppedAt
        /\ \A i \in releases : i = p.releasedAt
    BY <1>2, OneAtCount
  <1>8. Before(bound, starts \cup samples)
    <2>1. \A i \in samples : p.boundAt < i
      BY <1>2 DEF Ascend, n
    <2>2. \A i \in starts : p.boundAt < i
      BY <1>7 DEF Lived
    <2> QED
      BY <1>2, <2>1, <2>2 DEF Before
  <1>9. stops # {} => starts # {} /\ Before(starts, stops)
    BY <1>7 DEF Lived, Before
  <1>10. releases # {} =>
           /\ Before(samples, releases)
           /\ IF starts = {} THEN Before(bound, releases)
                             ELSE stops # {} /\ Before(stops, releases)
    <2> SUFFICES ASSUME releases # {}
                 PROVE  /\ Before(samples, releases)
                        /\ IF starts = {} THEN Before(bound, releases)
                                          ELSE stops # {} /\ Before(stops, releases)
      OBVIOUS
    <2>1. p.releasedAt # None /\ p.state = "RELEASED"
      BY <1>7 DEF Lived
    <2>2. Before(samples, releases)
      BY <1>2, <1>7, <2>1 DEF Lived, Before, n
    <2>3. Before(bound, releases)
      BY <1>2, <1>7, <2>1 DEF Lived, Before
    <2>4. starts # {} => stops # {} /\ Before(stops, releases)
      BY <1>7, <2>1 DEF Lived, Before
    <2> QED
      BY <2>2, <2>3, <2>4
  <1>11. o.released = (releases # {})
    BY <1>1, <1>7 DEF Lived
  <1> QED
    BY <1>4, <1>5, <1>6, <1>7, <1>8, <1>9, <1>10, <1>11
    DEF LinksObservedRole, samples, bound, starts, stops, releases

\* Containment actions are told as the profile says.
LEMMA LinksContained ==
  ASSUME NEW transcript, NEW before \in Nat, NEW code, NEW a, NEW unfinished,
         IsAnswer(a, unfinished), Harmed(transcript, before, code, a, unfinished # {}),
         NEW c, c.freeze = (IF unfinished = {} THEN "NOT_ATTEMPTED" ELSE Result(a.freeze)),
         c.kill = (IF unfinished = {} THEN "NOT_ATTEMPTED" ELSE Result(a.kill)),
         c.reap = (IF unfinished = {} THEN "NOT_ATTEMPTED" ELSE Result(a.reap))
  PROVE  LinksContainment(transcript, c)
  <1> DEFINE actions == At(transcript, "CONTAINMENT_ACTION")
             of(action) == {i \in actions : transcript[i].action = action}
  <1>1. CASE unfinished = {}
    <2>1. \A i : i \notin actions
      BY <1>1 DEF Harmed
    <2> HIDE DEF actions
    <2>2. \A action : of(action) = {}
      BY <2>1
    <2>3. \A S : Before(S, actions)
      BY <2>1 DEF Before
    <2>4. c.freeze = "NOT_ATTEMPTED" /\ c.kill = "NOT_ATTEMPTED" /\ c.reap = "NOT_ATTEMPTED"
      BY <1>1
    <2>5. \A x \in {<<"FREEZE", c.freeze>>, <<"KILL", c.kill>>, <<"REAP", c.reap>>} :
            IF x[2] = "NOT_ATTEMPTED"
            THEN of(x[1]) = {}
            ELSE Cardinality(of(x[1])) = 1 /\ \A i \in of(x[1]) : transcript[i].result = x[2]
      BY <2>2, <2>4
    <2>6. Before(of("FREEZE"), of("KILL") \cup of("REAP")) /\ Before(of("KILL"), of("REAP"))
      BY <2>2 DEF Before
    <2>7. of("REAP") = {} /\ of("KILL") = {}
      BY <2>2
    <2> HIDE DEF of
    <2> QED
      BY <2>3, <2>5, <2>6, <2>7 DEF LinksContainment, actions, of
  <1>2. CASE unfinished # {}
    <2>1. /\ actions = {before + 2, before + 3, before + 4}
          /\ transcript[before + 2] = ActionEvent("FREEZE", a.freeze)
          /\ transcript[before + 3] = ActionEvent("KILL", a.kill)
          /\ transcript[before + 4] = ActionEvent("REAP", a.reap)
          /\ At(transcript, "FAILURE_OBSERVED") = {before + 1}
      BY <1>2 DEF Harmed
    <2>2. /\ c.freeze = Result(a.freeze) /\ c.kill = Result(a.kill) /\ c.reap = Result(a.reap)
          /\ c.freeze # "NOT_ATTEMPTED" /\ c.kill # "NOT_ATTEMPTED" /\ c.reap # "NOT_ATTEMPTED"
      BY <1>2 DEF Result
    <2>3. /\ transcript[before + 2].action = "FREEZE" /\ transcript[before + 2].result = c.freeze
          /\ transcript[before + 3].action = "KILL" /\ transcript[before + 3].result = c.kill
          /\ transcript[before + 4].action = "REAP" /\ transcript[before + 4].result = c.reap
      BY <2>1, <2>2 DEF ActionEvent
    <2> HIDE DEF actions
    <2>4. of("FREEZE") = {before + 2} /\ of("KILL") = {before + 3} /\ of("REAP") = {before + 4}
      BY <2>1, <2>3
    <2> HIDE DEF of
    <2>5. Before(At(transcript, "FAILURE_OBSERVED"), actions)
      BY <2>1 DEF Before
    <2>6. \A x \in {<<"FREEZE", c.freeze>>, <<"KILL", c.kill>>, <<"REAP", c.reap>>} :
            IF x[2] = "NOT_ATTEMPTED"
            THEN of(x[1]) = {}
            ELSE Cardinality(of(x[1])) = 1 /\ \A i \in of(x[1]) : transcript[i].result = x[2]
      <3>1. /\ Cardinality(of("FREEZE")) = 1 /\ Cardinality(of("KILL")) = 1
            /\ Cardinality(of("REAP")) = 1
        BY <2>4, FS_Singleton
      <3>2. /\ \A i \in of("FREEZE") : transcript[i].result = c.freeze
            /\ \A i \in of("KILL") : transcript[i].result = c.kill
            /\ \A i \in of("REAP") : transcript[i].result = c.reap
        BY <2>3, <2>4
      <3> QED
        BY <2>2, <3>1, <3>2
    <2>7. Before(of("FREEZE"), of("KILL") \cup of("REAP")) /\ Before(of("KILL"), of("REAP"))
      BY <2>4 DEF Before
    <2>8. of("FREEZE") # {} /\ of("KILL") # {}
      BY <2>4
    <2> QED
      BY <2>5, <2>6, <2>7, <2>8 DEF LinksContainment, actions, of
  <1> QED
    BY <1>1, <1>2

(***************************************************************************)
(* The reader accepts the evidence of a failure                            *)
(***************************************************************************)

\* Admitted roles are the first ones of their order.
LEMMA AdmittedAre ==
  ASSUME NEW S, Admitted(S)
  PROVE  S = {} \/ S = {"egress"} \/ S = {"egress", "worker"} \/ S = Roles
  BY DEF Admitted, Roles

InPlace(S, q) ==
  /\ \A r \in Roles : r \in S <=> PlaceOf[r] \in DOMAIN q
  /\ \A r \in S : q[PlaceOf[r]] = r
  /\ \A i \in DOMAIN q : q[i] \in S

LEMMA OneMore ==
  ASSUME NEW s \in Seq(Roles), NEW r \in Roles
  PROVE  /\ Append(s, r) \in Seq(Roles) /\ Len(Append(s, r)) = Len(s) + 1
         /\ \A i \in 1..Len(s) : Append(s, r)[i] = s[i]
         /\ Append(s, r)[Len(s) + 1] = r
  OBVIOUS

LEMMA RolesAre ==
  "egress" \in Roles /\ "worker" \in Roles /\ "verifier" \in Roles
  BY DEF Roles

LEMMA InOrderIs ==
  ASSUME NEW S, Admitted(S)
  PROVE  InPlace(S, InOrder(S))
  <1>1. PICK none : none = <<>>
    OBVIOUS
  <1>2. none \in Seq(Roles) /\ Len(none) = 0
    BY <1>1
  <1>3. PICK one : one = Append(none, "egress")
    OBVIOUS
  <1>4. one \in Seq(Roles) /\ Len(one) = 1 /\ one[1] = "egress"
    BY <1>2, <1>3, OneMore, RolesAre
  <1>5. PICK two : two = Append(one, "worker")
    OBVIOUS
  <1>6. two \in Seq(Roles) /\ Len(two) = 2 /\ two[1] = "egress" /\ two[2] = "worker"
    <2>1. /\ Append(one, "worker") \in Seq(Roles) /\ Len(Append(one, "worker")) = Len(one) + 1
          /\ \A i \in 1..Len(one) : Append(one, "worker")[i] = one[i]
          /\ Append(one, "worker")[Len(one) + 1] = "worker"
      BY <1>4, OneMore, RolesAre
    <2> QED
      BY <1>4, <1>5, <2>1
  <1>7. PICK all : all = Append(two, "verifier")
    OBVIOUS
  <1>8. /\ all \in Seq(Roles) /\ Len(all) = 3
        /\ all[1] = "egress" /\ all[2] = "worker" /\ all[3] = "verifier"
    <2>1. /\ Append(two, "verifier") \in Seq(Roles) /\ Len(Append(two, "verifier")) = Len(two) + 1
          /\ \A i \in 1..Len(two) : Append(two, "verifier")[i] = two[i]
          /\ Append(two, "verifier")[Len(two) + 1] = "verifier"
      BY <1>6, OneMore, RolesAre
    <2> QED
      BY <1>6, <1>7, <2>1
  <1>9. DOMAIN none = {} /\ DOMAIN one = 1..1 /\ DOMAIN two = 1..2 /\ DOMAIN all = 1..3
    BY <1>2, <1>4, <1>6, <1>8
  <1>10. CASE S = {}
    <2>1. InOrder(S) = none
      BY <1>1, <1>10 DEF InOrder
    <2> QED
      BY <1>9, <1>10, <2>1 DEF InPlace
  <1>11. CASE S = {"egress"}
    <2>1. InOrder(S) = one
      BY <1>1, <1>3, <1>11 DEF InOrder
    <2> QED
      BY <1>4, <1>9, <1>11, <2>1 DEF InPlace, PlaceOf, Roles
  <1>12. CASE S = {"egress", "worker"}
    <2>1. InOrder(S) = two
      BY <1>1, <1>3, <1>5, <1>12 DEF InOrder
    <2> QED
      BY <1>6, <1>9, <1>12, <2>1 DEF InPlace, PlaceOf, Roles
  <1>13. CASE S = Roles
    <2>1. InOrder(S) = all
      BY <1>1, <1>3, <1>5, <1>7, <1>13 DEF InOrder, Roles
    <2> QED
      BY <1>8, <1>9, <1>13, <2>1 DEF InPlace, PlaceOf, Roles
  <1> QED
    BY <1>10, <1>11, <1>12, <1>13, AdmittedAre

\* Each bound role is observed in its place.
ObservedFrom(w, e) ==
  /\ ObservedRoles(e) = DOMAIN w.role
  /\ \A r \in DOMAIN w.role : ObservedOf(e, r) = Observed(w.role[r])
  /\ \A r \in DOMAIN w.role : PlaceOf[r] \in DOMAIN e.observed
  /\ \A i \in DOMAIN e.observed : \E r \in DOMAIN w.role : e.observed[i] = Observed(w.role[r])

LEMMA ObservedAre ==
  ASSUME NEW w, SoundWork(w), NEW e,
         e.observed = [i \in DOMAIN InOrder(DOMAIN w.role) |->
                        Observed(w.role[InOrder(DOMAIN w.role)[i]])]
  PROVE  ObservedFrom(w, e)
  <1>1. PICK q : q = InOrder(DOMAIN w.role)
    OBVIOUS
  <1>2. InPlace(DOMAIN w.role, q)
    BY <1>1, InOrderIs DEF SoundWork
  <1>3. e.observed = [i \in DOMAIN q |-> Observed(w.role[q[i]])]
    BY <1>1
  <1>4. DOMAIN e.observed = DOMAIN q /\ \A i \in DOMAIN q : e.observed[i] = Observed(w.role[q[i]])
    BY <1>3
  <1>5. DOMAIN w.role \subseteq Roles
    BY DEF SoundWork, IsWork
  <1>6. ObservedRoles(e) = DOMAIN w.role
    BY <1>2, <1>4, <1>5 DEF ObservedRoles, InPlace
  <1>7. \A r \in DOMAIN w.role : ObservedOf(e, r) = Observed(w.role[r]) /\ PlaceOf[r] \in DOMAIN e.observed
    BY <1>2, <1>4, <1>5 DEF ObservedOf, InPlace
  <1>8. \A i \in DOMAIN e.observed : \E r \in DOMAIN w.role : e.observed[i] = Observed(w.role[r])
    BY <1>2, <1>4 DEF InPlace
  <1> QED
    BY <1>6, <1>7, <1>8 DEF ObservedFrom

\* The sum of natural numbers is one.
LEMMA SumIsNat ==
  ASSUME NEW f, \A r \in DOMAIN f : f[r] \in Nat
  PROVE  SumOf(f) \in Nat
  BY DEF SumOf

LEMMA ReadRoleIs ==
  ASSUME NEW w, SoundWork(w), AllRead(w), NEW r \in DOMAIN w.role
  PROVE  /\ w.role[r] \in RoleRecord /\ w.role[r].samples # <<>> /\ Ascend(w.role[r])
         /\ Delta(w.role[r]) \in Nat
  <1>1. w.role[r] \in RoleRecord /\ w.role[r].samples # <<>> /\ Ascend(w.role[r])
    BY BoundRoleIs DEF AllRead
  <1> QED
    BY <1>1, ObservedIs

LEMMA AggregateIsNat ==
  ASSUME NEW w, SoundWork(w), AllRead(w)
  PROVE  Aggregate(w) \in Nat
  <1>1. PICK f : f = [r \in DOMAIN w.role |-> Delta(w.role[r])]
    OBVIOUS
  <1>2. \A r \in DOMAIN f : f[r] \in Nat
    BY <1>1, ReadRoleIs
  <1>3. Aggregate(w) = SumOf(f)
    BY <1>1 DEF Aggregate
  <1> QED
    BY <1>2, <1>3, SumIsNat

LEMMA SameSamplesSameAggregate ==
  ASSUME NEW w, NEW x, DOMAIN x.role = DOMAIN w.role,
         \A r \in DOMAIN w.role : x.role[r].samples = w.role[r].samples
  PROVE  Aggregate(x) = Aggregate(w)
  <1>1. \A r \in DOMAIN w.role : Delta(x.role[r]) = Delta(w.role[r])
    BY DEF Delta
  <1>2. [r \in DOMAIN x.role |-> Delta(x.role[r])] = [r \in DOMAIN w.role |-> Delta(w.role[r])]
    BY <1>1
  <1> QED
    BY <1>2 DEF Aggregate

\* A transcript in which a failure of what w was is contained.
FailedFrom(w, x, code, a) ==
  /\ LeftBy(w, x, code, a) /\ AllRead(x)
  /\ Aggregate(x) = Aggregate(w) /\ Aggregate(w) \in Nat
  /\ Len(w.events) \in Nat /\ x.events \in Seq(Event) /\ Len(x.events) \in Nat
  /\ DOMAIN w.role \subseteq Roles

LEMMA ContainedFails ==
  ASSUME NEW w, SoundWork(w), AllRead(w), Unharmed(w.events), NEW code \in Codes,
         NEW a, IsAnswer(a, Unfinished(w)), NEW x, x = Contained(w, code, a)
  PROVE  FailedFrom(w, x, code, a)
  <1>1. LeftBy(w, x, code, a)
    BY ContainedLeaves
  <1>2. AllRead(x)
    BY <1>1 DEF AllRead, Keeps, LeftBy
  <1>3. Aggregate(x) = Aggregate(w)
    BY <1>1, SameSamplesSameAggregate DEF Keeps, LeftBy
  <1>4. Aggregate(w) \in Nat
    BY AggregateIsNat
  <1>5. /\ Len(w.events) \in Nat /\ x.events \in Seq(Event) /\ Len(x.events) \in Nat
        /\ DOMAIN w.role \subseteq Roles
    BY <1>1, AtIsInside DEF SoundWork, IsWork, LeftBy
  <1> QED
    BY <1>1, <1>2, <1>3, <1>4, <1>5 DEF FailedFrom

\* Roles are bound and started before the failure.
LEMMA FailureIsLate ==
  ASSUME NEW w, SoundWork(w), NEW code, NEW a, NEW x, FailedFrom(w, x, code, a)
  PROVE  /\ Before(At(x.events, "ROLE_CGROUP_BOUND") \cup At(x.events, "ROLE_EXECUTION_STARTED"),
                   At(x.events, "FAILURE_OBSERVED"))
         /\ Unfinished(w) = {} =>
              \A r \in DOMAIN x.role : ~ActiveAtFailure(x.events, r)
  <1>1. At(x.events, "FAILURE_OBSERVED") = {Len(w.events) + 1} /\ Len(w.events) \in Nat
    BY DEF FailedFrom, LeftBy, Harmed
  <1>2. \A r \in DOMAIN x.role :
          /\ x.role[r].boundAt \in 1..Len(w.events)
          /\ x.role[r].startedAt # None => x.role[r].startedAt \in 1..Len(w.events)
    BY BoundRoleIs DEF FailedFrom, LeftBy, Keeps, Inside
  <1>3. \A r \in DOMAIN x.role : Told(x.events, r, x.role[r])
    BY DEF FailedFrom, LeftBy, SoundWork
  <1>4. ASSUME NEW t \in {"ROLE_CGROUP_BOUND", "ROLE_EXECUTION_STARTED"}, NEW i \in At(x.events, t)
        PROVE  i < Len(w.events) + 1
    <2>1. i \in DOMAIN x.events /\ x.events[i].type = t /\ x.events[i] \in Event
      BY DEF At, FailedFrom
    <2>2. "role" \in DOMAIN x.events[i]
      BY <2>1, EventIs DEF RoleEvents
    <2>3. PICK r \in DOMAIN x.role : r = x.events[i].role
      BY <2>1, <2>2 DEF FailedFrom, LeftBy, SoundWork
    <2>4. i \in AtRole(x.events, t, r)
      BY <2>3 DEF AtRole
    <2>5. CASE t = "ROLE_CGROUP_BOUND"
      BY <1>1, <1>2, <1>3, <2>3, <2>4, <2>5 DEF Told
    <2>6. CASE t = "ROLE_EXECUTION_STARTED"
      <3>1. i \in OneAt(x.role[r].startedAt)
        BY <1>3, <2>3, <2>4, <2>6 DEF Told
      <3>2. x.role[r].startedAt # None /\ i = x.role[r].startedAt
        BY <3>1 DEF OneAt
      <3> QED
        BY <1>1, <1>2, <3>2
    <2> QED
      BY <2>5, <2>6
  <1>5. ASSUME Unfinished(w) = {}, NEW r \in DOMAIN x.role, ActiveAtFailure(x.events, r)
        PROVE  FALSE
    <2>1. r \in DOMAIN w.role /\ w.role[r].state = "RELEASED" /\ x.role[r] = w.role[r]
      BY <1>5 DEF Unfinished, FailedFrom, LeftBy
    <2>2. /\ \E i \in AtRole(x.events, "ROLE_EXECUTION_STARTED", r) : TRUE
          /\ \A i \in AtRole(x.events, "ROLE_EXECUTION_STOPPED", r) : i > Len(w.events) + 1
      BY <1>1, <1>5 DEF ActiveAtFailure
    <2>3. w.role[r].startedAt # None
      BY <1>3, <2>1, <2>2 DEF Told, OneAt
    <2>4. w.role[r].stoppedAt # None /\ w.role[r].stoppedAt \in 1..Len(w.events)
      BY <2>1, <2>3, BoundRoleIs DEF Lived, Inside
    <2>5. w.role[r].stoppedAt \in AtRole(x.events, "ROLE_EXECUTION_STOPPED", r)
      BY <1>3, <2>1, <2>4 DEF Told, OneAt
    <2> QED
      BY <1>1, <2>2, <2>4, <2>5
  <1>6. Before(At(x.events, "ROLE_CGROUP_BOUND") \cup At(x.events, "ROLE_EXECUTION_STARTED"),
               At(x.events, "FAILURE_OBSERVED"))
    BY <1>1, <1>4 DEF Before
  <1> QED
    BY <1>5, <1>6

\* What the evidence e of a failure says of x, the session after its containment.
EvidenceSays(e, x, unfinished, code, a, complete) ==
  /\ e.outcome = IF ~complete THEN "CONTAINMENT_INCOMPLETE"
                 ELSE IF code = "CPU_BUDGET_EXCEEDED" THEN "OBSERVED_OVER_BUDGET_CONTAINED"
                 ELSE "LINUX_CONTROLLER_FAILURE"
  /\ e.code = code
  /\ e.executionStarted = (At(x.events, "ROLE_EXECUTION_STARTED") # {})
  /\ e.aggregate = Aggregate(x)
  /\ e.overage = IF code = "CPU_BUDGET_EXCEEDED" THEN Aggregate(x) - Budget ELSE 0
  /\ e.events = x.events
  /\ e.containment.status = IF ~complete THEN "INCOMPLETE"
                            ELSE IF unfinished = {} THEN "NOT_REQUIRED" ELSE "SUCCEEDED"
  /\ e.containment.trigger = Trigger(code)
  /\ e.containment.freeze = IF unfinished = {} THEN "NOT_ATTEMPTED" ELSE Result(a.freeze)
  /\ e.containment.kill = IF unfinished = {} THEN "NOT_ATTEMPTED" ELSE Result(a.kill)
  /\ e.containment.reap = IF unfinished = {} THEN "NOT_ATTEMPTED" ELSE Result(a.reap)
  /\ e.controllerStopped = a.stops /\ e.remaining = a.left

\* Everything has been contained.
IsComplete(x, code, a) ==
  /\ code \notin CleanupCodes /\ a.freeze /\ a.kill /\ a.reap /\ a.left = 0 /\ a.stops
  /\ \A r \in DOMAIN x.role : x.role[r].state = "RELEASED"

LEMMA EvidenceIs ==
  ASSUME NEW x, SoundWork(x), NEW unfinished, NEW code, NEW a,
         NEW e, e = FailureEvidence(x, unfinished, code, a)
  PROVE  EvidenceSays(e, x, unfinished, code, a, IsComplete(x, code, a)) /\ ObservedFrom(x, e)
  <1>1. ContainmentComplete(x, code, a) <=> IsComplete(x, code, a)
    BY DEF ContainmentComplete, IsComplete, Unfinished
  <1>2. e.observed = [i \in DOMAIN InOrder(DOMAIN x.role) |->
                        Observed(x.role[InOrder(DOMAIN x.role)[i]])]
    BY DEF FailureEvidence
  <1>3. ObservedFrom(x, e)
    BY <1>2, ObservedAre
  <1>4. EvidenceSays(e, x, unfinished, code, a, ContainmentComplete(x, code, a))
    BY DEF FailureEvidence, EvidenceSays
  <1> QED
    BY <1>1, <1>3, <1>4 DEF EvidenceSays

LEMMA LinksFailure ==
  ASSUME NEW w, SoundWork(w), NEW code, NEW a, IsAnswer(a, Unfinished(w)),
         NEW x, FailedFrom(w, x, code, a),
         NEW e, NEW complete \in BOOLEAN,
         EvidenceSays(e, x, Unfinished(w), code, a, complete), ObservedFrom(x, e)
  PROVE  LinksFailureEvents(e)
  <1>1. e.events = x.events /\ e.code = code
    BY DEF EvidenceSays
  <1>2. /\ At(x.events, "FAILURE_OBSERVED") = {Len(w.events) + 1}
        /\ x.events[Len(w.events) + 1].code = code
        /\ SoundWork(x) /\ AllRead(x) /\ Len(w.events) \in Nat
    BY DEF FailedFrom, LeftBy, Harmed
  <1>3. /\ Cardinality(At(e.events, "FAILURE_OBSERVED")) = 1
        /\ \A f \in At(e.events, "FAILURE_OBSERVED") : e.events[f].code = e.code
    BY <1>1, <1>2, FS_Singleton
  <1>4. At(e.events, "CONTROLLER_STARTED") = {1}
    BY <1>1, <1>2 DEF SoundWork
  <1>5. Before(At(e.events, "ROLE_CGROUP_BOUND") \cup At(e.events, "ROLE_EXECUTION_STARTED"),
               At(e.events, "FAILURE_OBSERVED"))
    BY <1>1, FailureIsLate
  <1>6. \A r \in Roles \ ObservedRoles(e), i \in DOMAIN e.events :
          "role" \in DOMAIN e.events[i] => e.events[i].role # r
    BY <1>1, <1>2 DEF SoundWork, ObservedFrom
  <1>7. \A r \in ObservedRoles(e) : LinksObservedRole(e.events, r, ObservedOf(e, r))
    <2> TAKE r \in ObservedRoles(e)
    <2>1. r \in DOMAIN x.role /\ ObservedOf(e, r) = Observed(x.role[r])
      BY DEF ObservedFrom
    <2>2. /\ x.events \in Seq(Event) /\ r \in Roles /\ x.role[r] \in RoleRecord
          /\ Told(x.events, r, x.role[r]) /\ Ascend(x.role[r]) /\ Lived(x.role[r])
          /\ Inside(x.events, x.role[r])
      BY <1>2, <2>1, BoundRoleIs
    <2>3. x.role[r].samples # <<>>
      BY <1>2, <2>1 DEF AllRead
    <2>4. LinksObservedRole(x.events, r, Observed(x.role[r]))
      BY <2>2, <2>3, LinksObserved
    <2> QED
      BY <1>1, <2>1, <2>4
  <1>8. LinksContainment(e.events, e.containment)
    <2>1. Harmed(x.events, Len(w.events), code, a, Unfinished(w) # {})
      BY DEF FailedFrom, LeftBy
    <2>2. PICK c : c = e.containment
      OBVIOUS
    <2>3. /\ c.freeze = (IF Unfinished(w) = {} THEN "NOT_ATTEMPTED" ELSE Result(a.freeze))
          /\ c.kill = (IF Unfinished(w) = {} THEN "NOT_ATTEMPTED" ELSE Result(a.kill))
          /\ c.reap = (IF Unfinished(w) = {} THEN "NOT_ATTEMPTED" ELSE Result(a.reap))
      BY <2>2 DEF EvidenceSays
    <2>4. LinksContainment(x.events, c)
      BY <1>2, <2>1, <2>3, LinksContained
    <2> QED
      BY <1>1, <2>2, <2>4
  <1>9. At(e.events, "CONTROLLER_STOPPED") = IF e.controllerStopped THEN {Len(e.events)} ELSE {}
    BY <1>1 DEF EvidenceSays, FailedFrom, LeftBy
  <1>10. (\E r \in ObservedRoles(e) : ActiveAtFailure(e.events, r))
           => e.containment.status # "NOT_REQUIRED"
    <2> SUFFICES ASSUME NEW r \in ObservedRoles(e), ActiveAtFailure(e.events, r),
                        e.containment.status = "NOT_REQUIRED"
                 PROVE  FALSE
      OBVIOUS
    <2>1. Unfinished(w) = {}
      BY DEF EvidenceSays
    <2>2. r \in DOMAIN x.role /\ ActiveAtFailure(x.events, r)
      BY <1>1 DEF ObservedFrom
    <2> QED
      BY <2>1, <2>2, FailureIsLate
  <1>11. e.executionStarted = (At(e.events, "ROLE_EXECUTION_STARTED") # {})
    BY <1>1 DEF EvidenceSays
  <1> QED
    BY <1>3, <1>4, <1>5, <1>6, <1>7, <1>8, <1>9, <1>10, <1>11 DEF LinksFailureEvents

\* What a failure claims about the budget and about its actions.
Claims(w, code, a) ==
  /\ code = "CPU_BUDGET_EXCEEDED" => Aggregate(w) > Budget /\ Unfinished(w) # {}
  /\ code # "CPU_BUDGET_EXCEEDED" => Aggregate(w) <= Budget
  /\ code = "CONTAINMENT_ACTION_FAILED" => ~a.freeze \/ ~a.kill \/ ~a.reap

LEMMA FailureFits ==
  ASSUME NEW w, NEW code \in Codes, NEW a, IsAnswer(a, Unfinished(w)),
         NEW x, FailedFrom(w, x, code, a), Claims(w, code, a),
         NEW e, EvidenceSays(e, x, Unfinished(w), code, a, IsComplete(x, code, a)),
         ObservedFrom(x, e)
  PROVE  /\ ParsesContainment(e.containment)
         /\ e.code = "CONTAINMENT_ACTION_FAILED" => ActionFailed(e.containment)
         /\ e.containment.trigger = Trigger(e.code)
         /\ OutcomeFits(e)
  <1>1. PICK c : c = e.containment
    OBVIOUS
  <1>2. PICK complete \in BOOLEAN : complete <=> IsComplete(x, code, a)
    OBVIOUS
  <1>3. /\ e.outcome = IF ~complete THEN "CONTAINMENT_INCOMPLETE"
                       ELSE IF code = "CPU_BUDGET_EXCEEDED" THEN "OBSERVED_OVER_BUDGET_CONTAINED"
                       ELSE "LINUX_CONTROLLER_FAILURE"
        /\ e.code = code /\ e.aggregate = Aggregate(x)
        /\ e.overage = IF code = "CPU_BUDGET_EXCEEDED" THEN Aggregate(x) - Budget ELSE 0
        /\ c.status = IF ~complete THEN "INCOMPLETE"
                      ELSE IF Unfinished(w) = {} THEN "NOT_REQUIRED" ELSE "SUCCEEDED"
        /\ c.trigger = Trigger(code)
        /\ c.freeze = IF Unfinished(w) = {} THEN "NOT_ATTEMPTED" ELSE Result(a.freeze)
        /\ c.kill = IF Unfinished(w) = {} THEN "NOT_ATTEMPTED" ELSE Result(a.kill)
        /\ c.reap = IF Unfinished(w) = {} THEN "NOT_ATTEMPTED" ELSE Result(a.reap)
        /\ e.controllerStopped = a.stops /\ e.remaining = a.left
    BY <1>1, <1>2 DEF EvidenceSays
  <1>4. /\ a.freeze \in BOOLEAN /\ a.kill \in BOOLEAN /\ a.reap \in BOOLEAN /\ a.stops \in BOOLEAN
        /\ Unfinished(w) = {} => a.freeze /\ a.kill /\ a.reap /\ a.left = 0
    BY DEF IsAnswer
  <1>5. ParsesContainment(c)
    BY <1>2, <1>3, <1>4 DEF ParsesContainment, IsComplete, Result
  <1>6. ActionFailed(c) <=> ~a.freeze \/ ~a.kill \/ ~a.reap
    BY <1>3, <1>4 DEF ActionFailed, Result
  <1>7. OverageFits(e)
    BY <1>3 DEF OverageFits, Claims, FailedFrom
  <1>8. AllReleased(e) <=> \A r \in DOMAIN x.role : x.role[r].state = "RELEASED"
    <2>1. \A p : Observed(p).released = (p.state = "RELEASED")
      BY DEF Observed
    <2>2. ASSUME AllReleased(e), NEW r \in DOMAIN x.role PROVE x.role[r].state = "RELEASED"
      BY <2>1, <2>2 DEF AllReleased, ObservedFrom, ObservedOf
    <2>3. ASSUME \A r \in DOMAIN x.role : x.role[r].state = "RELEASED" PROVE AllReleased(e)
      <3> SUFFICES ASSUME NEW i \in DOMAIN e.observed PROVE e.observed[i].released
        BY DEF AllReleased
      <3>1. PICK r \in DOMAIN x.role : e.observed[i] = Observed(x.role[r])
        BY DEF ObservedFrom
      <3>2. x.role[r].state = "RELEASED"
        BY <2>3
      <3> QED
        BY <2>1, <3>1, <3>2
    <2> QED
      BY <2>2, <2>3
  <1>9. complete => QuietEnd(e)
    BY <1>2, <1>3, <1>8 DEF QuietEnd, IsComplete
  <1>10. ~complete => ~QuietEnd(e) \/ CleanupFailureSeen(e)
    BY <1>1, <1>2, <1>3, <1>6, <1>8 DEF QuietEnd, IsComplete, CleanupFailureSeen
  <1>11. OutcomeFits(e)
    <2>1. CASE ~complete
      BY <1>1, <1>3, <1>7, <1>10, <2>1 DEF OutcomeFits
    <2>2. CASE complete /\ code = "CPU_BUDGET_EXCEEDED"
      BY <1>1, <1>3, <1>7, <1>9, <2>2 DEF OutcomeFits, Claims
    <2>3. CASE complete /\ code # "CPU_BUDGET_EXCEEDED"
      BY <1>1, <1>3, <1>7, <1>9, <2>3 DEF OutcomeFits
    <2> QED
      BY <2>1, <2>2, <2>3
  <1>12. e.code = "CONTAINMENT_ACTION_FAILED" => ActionFailed(c)
    BY <1>3, <1>6 DEF Claims
  <1> QED
    BY <1>1, <1>3, <1>5, <1>11, <1>12

LEMMA FailureParses ==
  ASSUME NEW w, SoundWork(w), NEW code \in Codes, NEW a, IsAnswer(a, Unfinished(w)),
         NEW x, FailedFrom(w, x, code, a), Claims(w, code, a),
         Len(x.events) <= MaxEvents,
         \A r \in DOMAIN x.role : Len(x.role[r].samples) <= MaxSamples,
         NEW e, EvidenceSays(e, x, Unfinished(w), code, a, IsComplete(x, code, a)),
         ObservedFrom(x, e)
  PROVE  Parses(e)
  <1>1. /\ SoundWork(x) /\ AllRead(x) /\ x.events \in Seq(Event) /\ e.events = x.events
        /\ Len(x.events) \in Nat /\ e.aggregate = Aggregate(x)
    BY DEF FailedFrom, LeftBy, EvidenceSays
  <1>2. \A i \in DOMAIN e.observed : ParsesObservedRole(e.observed[i])
    <2> TAKE i \in DOMAIN e.observed
    <2>1. PICK r \in DOMAIN x.role : e.observed[i] = Observed(x.role[r])
      BY DEF ObservedFrom
    <2>2. x.role[r] \in RoleRecord /\ x.role[r].samples # <<>> /\ Ascend(x.role[r])
      BY <1>1, ReadRoleIs
    <2>3. Len(x.role[r].samples) <= MaxSamples
      OBVIOUS
    <2>4. PICK p : p = x.role[r]
      OBVIOUS
    <2>5. /\ Observed(p).baseline = p.samples[1] /\ Observed(p).last = p.samples[Len(p.samples)]
          /\ Observed(p).delta = Delta(p)
          /\ Delta(p) = p.samples[Len(p.samples)] - p.samples[1]
          /\ Observed(p).count = Len(p.samples) /\ Len(p.samples) \in Nat \ {0}
          /\ p.samples[1] <= p.samples[Len(p.samples)]
      BY <2>2, <2>4, ObservedIs
    <2>6. Observed(p).count \in 0..MaxSamples
      BY <2>3, <2>4, <2>5, EvidenceAssumption
    <2>7. Observed(p).last >= Observed(p).baseline
      BY <2>2, <2>4, <2>5, ObservedIs
    <2> QED
      BY <2>1, <2>4, <2>5, <2>6, <2>7 DEF ParsesObservedRole
  <1>3. e.aggregate = SumOf([r \in ObservedRoles(e) |-> ObservedOf(e, r).delta])
    <2>1. ObservedRoles(e) = DOMAIN x.role
      BY DEF ObservedFrom
    <2>2. \A r \in DOMAIN x.role : ObservedOf(e, r).delta = Delta(x.role[r])
      BY DEF ObservedFrom, Observed
    <2>3. [r \in ObservedRoles(e) |-> ObservedOf(e, r).delta]
            = [r \in DOMAIN x.role |-> Delta(x.role[r])]
      BY <2>1, <2>2
    <2> QED
      BY <1>1, <2>3 DEF Aggregate
  <1>4. ParsesEvents(e.events) /\ Head(e.events).type = "CONTROLLER_STARTED"
    <2>1. 1 \in DOMAIN x.events /\ x.events[1].type = "CONTROLLER_STARTED"
      BY <1>1 DEF SoundWork, At
    <2>2. Len(w.events) + 1 \in At(x.events, "FAILURE_OBSERVED") /\ Len(w.events) \in Nat
      BY DEF FailedFrom, LeftBy, Harmed
    <2>3. Len(w.events) + 1 \in DOMAIN x.events /\ Len(w.events) + 1 # 1
      BY <2>1, <2>2 DEF At
    <2>4. Len(x.events) >= 2
      BY <1>1, <2>2, <2>3
    <2>5. Head(x.events) = x.events[1]
      BY <1>1, <2>4
    <2> QED
      BY <1>1, <2>1, <2>4, <2>5, EvidenceAssumption DEF ParsesEvents
  <1>5. LinksFailureEvents(e)
    <2>1. IsComplete(x, code, a) \in BOOLEAN
      BY DEF IsComplete
    <2> QED
      BY <2>1, LinksFailure
  <1>6. /\ ParsesContainment(e.containment)
        /\ e.code = "CONTAINMENT_ACTION_FAILED" => ActionFailed(e.containment)
        /\ e.containment.trigger = Trigger(e.code)
        /\ OutcomeFits(e)
    BY FailureFits
  <1>7. ParsesObservedFailure(e)
    BY <1>2, <1>3, <1>4, <1>5, <1>6 DEF ParsesObservedFailure
  <1>8. ~RanToTheEnd(e)
    BY DEF RanToTheEnd, EvidenceSays
  <1> QED
    BY <1>7, <1>8 DEF Parses

(***************************************************************************)
(* A session that a failure ends                                           *)
(***************************************************************************)

Latest(w) == [r \in DOMAIN w.role |-> Last(w.role[r].samples)]
First(w) == [r \in DOMAIN w.role |-> Head(w.role[r].samples)]
Gone(w) == {r \in DOMAIN w.role : w.role[r].state = "RELEASED"}

\* The port has been asked what w knows, but for its last readings.
PortKnows(w) ==
  port = [first |-> First(w), latest |-> port.latest, released |-> Gone(w),
          stopped |-> FALSE, failed |-> {}]

\* A session can fail in w.
MayFail(w) == SoundWork(w) /\ AllRead(w) /\ Unharmed(w.events) /\ PortKnows(w)

\* What was used of the CPU according to the port.
Used(first, latest) == SumOf([r \in DOMAIN first |-> latest[r] - first[r]])

LEMMA UsedIs ==
  ASSUME NEW w
  PROVE  Used(First(w), Latest(w)) = Aggregate(w)
  <1>1. DOMAIN First(w) = DOMAIN w.role
    BY DEF First
  <1>2. \A r \in DOMAIN w.role : Latest(w)[r] - First(w)[r] = Delta(w.role[r])
    BY DEF First, Latest, Delta
  <1>3. [r \in DOMAIN First(w) |-> Latest(w)[r] - First(w)[r]]
          = [r \in DOMAIN w.role |-> Delta(w.role[r])]
    BY <1>1, <1>2
  <1> QED
    BY <1>3 DEF Used, Aggregate

\* The session has failed: w was contained, with the answers a, to x.
FailsAs(w, code, reported, latest, a, x, e) ==
  /\ IsAnswer(a, Unfinished(w))
  /\ FailedFrom(w, x, code, a)
  /\ EvidenceSays(e, x, Unfinished(w), code, a, IsComplete(x, code, a))
  /\ ObservedFrom(x, e)
  /\ Len(x.events) <= MaxEvents
  /\ \A r \in DOMAIN x.role : Len(x.role[r].samples) <= MaxSamples
  /\ role' = x.role /\ events' = x.events
  /\ ended' = [how |-> IF Parses(e) THEN "candidate" ELSE "refused",
               evidence |-> e, reported |-> reported]
  /\ port'.first = First(w) /\ port'.latest = latest
  /\ port'.released = Gone(w) \cup a.released /\ port'.stopped = a.stops
  /\ port'.failed = {f \in {"freeze", "kill", "reap", "left"} :
                       IF f = "left" THEN a.left > 0 ELSE ~a[f]}

LEMMA ContainIs ==
  ASSUME NEW w, MayFail(w), NEW code \in Codes, NEW reported, NEW latest,
         Contain(w, code, reported, latest)
  PROVE  \E a, x, e : FailsAs(w, code, reported, latest, a, x, e)
  <1>1. PICK a \in Answers(Unfinished(w)) :
          LET over == Contained(w, code, a)
          IN /\ Finish(over, FailureEvidence(over, Unfinished(w), code, a), reported)
             /\ port' = [port EXCEPT !.latest = latest,
                                     !.released = @ \cup a.released,
                                     !.stopped = @ \/ a.stops,
                                     !.failed = {x \in {"freeze", "kill", "reap", "left"} :
                                                   IF x = "left" THEN a.left > 0 ELSE ~a[x]}]
    BY DEF Contain
  <1>2. PICK x : x = Contained(w, code, a)
    OBVIOUS
  <1>3. PICK e : e = FailureEvidence(x, Unfinished(w), code, a)
    OBVIOUS
  <1>4. Unfinished(w) \subseteq Roles
    BY DEF Unfinished, MayFail, SoundWork, IsWork
  <1>5. IsAnswer(a, Unfinished(w))
    BY <1>4, AnswersAre
  <1>6. FailedFrom(w, x, code, a)
    BY <1>2, <1>5, ContainedFails DEF MayFail
  <1>7. EvidenceSays(e, x, Unfinished(w), code, a, IsComplete(x, code, a)) /\ ObservedFrom(x, e)
    BY <1>3, <1>6, EvidenceIs DEF FailedFrom, LeftBy
  <1>8. Finish(x, e, reported)
    BY <1>1, <1>2, <1>3
  <1>9. /\ Len(x.events) <= MaxEvents
        /\ \A r \in DOMAIN x.role : Len(x.role[r].samples) <= MaxSamples
        /\ role' = x.role /\ events' = x.events
        /\ ended' = [how |-> IF Parses(e) THEN "candidate" ELSE "refused",
                     evidence |-> e, reported |-> reported]
    BY <1>8 DEF Finish, Record
  <1>10. PICK failed : failed = {f \in {"freeze", "kill", "reap", "left"} :
                                   IF f = "left" THEN a.left > 0 ELSE ~a[f]}
    OBVIOUS
  <1>11. port' = [port EXCEPT !.latest = latest, !.released = @ \cup a.released,
                              !.stopped = @ \/ a.stops, !.failed = failed]
    BY <1>1, <1>10
  <1>12. /\ port'.first = First(w) /\ port'.latest = latest
         /\ port'.released = Gone(w) \cup a.released /\ port'.stopped = a.stops
         /\ port'.failed = failed
    BY <1>5, <1>11 DEF MayFail, PortKnows, IsAnswer
  <1>13. FailsAs(w, code, reported, latest, a, x, e)
    BY <1>5, <1>6, <1>7, <1>9, <1>10, <1>12 DEF FailsAs
  <1> QED
    BY <1>13

\* A failure that claims nothing wrong, or that the caller reports.
CodeFits(w, code, reported) ==
  \/ reported /\ Aggregate(w) <= Budget
  \/ /\ ~reported /\ code # "CONTAINMENT_ACTION_FAILED"
     /\ code = "CPU_BUDGET_EXCEEDED" => Aggregate(w) > Budget /\ Unfinished(w) # {}
     /\ code # "CPU_BUDGET_EXCEEDED" => Aggregate(w) <= Budget

LEMMA ContainKeeps ==
  ASSUME NEW w, MayFail(w), NEW code \in Codes, NEW reported \in BOOLEAN,
         CodeFits(w, code, reported),
         NEW latest, latest = Latest(w), Contain(w, code, reported, latest)
  PROVE  SessionInv'
  <1>1. PICK a, x, e : FailsAs(w, code, reported, latest, a, x, e)
    BY ContainIs
  <1>2. /\ ended' = [how |-> IF Parses(e) THEN "candidate" ELSE "refused",
                     evidence |-> e, reported |-> reported]
        /\ role' = x.role /\ DOMAIN x.role = DOMAIN w.role
        /\ port'.first = First(w) /\ port'.latest = latest
        /\ port'.released = Gone(w) \cup a.released /\ port'.stopped = a.stops
        /\ e.code = code /\ e.aggregate = Aggregate(w) /\ ~RanToTheEnd(e)
        /\ e.outcome # "CONTAINMENT_INCOMPLETE" <=> IsComplete(x, code, a)
    BY <1>1 DEF FailsAs, FailedFrom, LeftBy, EvidenceSays, RanToTheEnd
  <1>3. /\ ended'.how \in {"candidate", "refused"} /\ ended'.evidence = e
        /\ ended'.reported = reported /\ (ended'.how = "refused" <=> ~Parses(e))
        /\ ended' = [how |-> ended'.how, evidence |-> ended'.evidence, reported |-> ended'.reported]
    BY <1>2
  <1>4. ~Mutable'
    BY <1>3 DEF Mutable
  <1>5. /\ a.freeze \in BOOLEAN /\ a.kill \in BOOLEAN /\ a.reap \in BOOLEAN /\ a.stops \in BOOLEAN
        /\ a.left \in {0, 1}
        /\ a = [freeze |-> a.freeze, kill |-> a.kill, reap |-> a.reap, left |-> a.left,
                stops |-> a.stops, released |-> a.released]
    BY <1>1 DEF FailsAs, IsAnswer
  <1>6. /\ "freeze" \in port'.failed <=> ~a.freeze
        /\ "kill" \in port'.failed <=> ~a.kill
        /\ "reap" \in port'.failed <=> ~a.reap
        /\ "left" \in port'.failed <=> a.left # 0
        /\ port'.failed \subseteq {"freeze", "kill", "reap", "left"}
    BY <1>1, <1>5 DEF FailsAs
  <1>7. ReaderAcceptsProducer'
    <2> SUFFICES ASSUME ~Parses(e)
                 PROVE  /\ reported
                        /\ \/ code = "CPU_BUDGET_EXCEEDED" /\ Aggregate(w) <= Budget
                           \/ /\ code = "CONTAINMENT_ACTION_FAILED"
                              /\ port'.failed \subseteq {"left"}
      BY <1>2, <1>3 DEF ReaderAcceptsProducer
    <2>1. ~Claims(w, code, a)
      <3>1. CASE Claims(w, code, a)
        <4>1. SoundWork(w)
          BY DEF MayFail
        <4>2. Parses(e)
          BY <1>1, <3>1, <4>1, FailureParses DEF FailsAs
        <4> QED
          BY <4>2
      <3> QED
        BY <3>1
    <2>2. Aggregate(w) \in Nat
      BY AggregateIsNat DEF MayFail
    <2>3. CASE code = "CONTAINMENT_ACTION_FAILED"
      <3>1. reported /\ Aggregate(w) <= Budget
        BY <2>3 DEF CodeFits
      <3>2. a.freeze /\ a.kill /\ a.reap
        BY <2>1, <2>3, <3>1 DEF Claims
      <3> QED
        BY <1>6, <2>3, <3>1, <3>2
    <2>4. CASE code # "CONTAINMENT_ACTION_FAILED"
      BY <2>1, <2>2, <2>4, EvidenceAssumption DEF Claims, CodeFits
    <2> QED
      BY <2>3, <2>4
  <1>8. QuietExactlyWhenClaimed'
    <2>1. IsComplete(x, code, a) <=>
            /\ code \notin CleanupCodes /\ a.freeze /\ a.kill /\ a.reap /\ a.left = 0 /\ a.stops
            /\ \A r \in DOMAIN w.role : w.role[r].state = "RELEASED" \/ r \in a.released
      BY <1>1 DEF IsComplete, FailsAs, FailedFrom, LeftBy
    <2>2. DOMAIN role' \subseteq port'.released
            <=> \A r \in DOMAIN w.role : w.role[r].state = "RELEASED" \/ r \in a.released
      BY <1>2 DEF Gone
    <2>3. port'.failed = {} <=> a.freeze /\ a.kill /\ a.reap /\ a.left = 0
      BY <1>6
    <2> QED
      BY <1>2, <1>3, <2>1, <2>2, <2>3 DEF QuietExactlyWhenClaimed, Candidate
  <1>9. UsageIsAccounted'
    <2>1. Used(port'.first, port'.latest) = Aggregate(w)
      BY <1>2, UsedIs
    <2>2. SumOf([r \in DOMAIN port'.first |-> port'.latest[r] - port'.first[r]]) = Aggregate(w)
      BY <2>1 DEF Used
    <2> QED
      BY <1>2, <1>3, <1>4, <2>2 DEF UsageIsAccounted
  <1> QED
    BY <1>3, <1>4, <1>7, <1>8, <1>9 DEF SessionInv

(***************************************************************************)
(* A session that ends well                                                *)
(***************************************************************************)

\* The life of a role that ran and was released.
FullLife(transcript, r, p) ==
  /\ p \in RoleRecord /\ Told(transcript, r, p) /\ Ascend(p) /\ Lived(p)
  /\ Inside(transcript, p) /\ Bracketed(p) /\ p.state = "RELEASED"

LEMMA FullLifeIs ==
  ASSUME NEW transcript \in Seq(Event), NEW r, NEW p, FullLife(transcript, r, p)
  PROVE  /\ p.startedAt # None /\ p.stoppedAt # None /\ p.releasedAt # None
         /\ p.samples \in Seq(Nat) /\ p.sampleAt \in Seq(Nat)
         /\ Len(p.samples) \in Nat /\ Len(p.samples) >= 2 /\ Len(p.sampleAt) = Len(p.samples)
         /\ p.boundAt \in Nat /\ p.startedAt \in Nat /\ p.stoppedAt \in Nat
         /\ p.releasedAt \in Nat
         /\ p.boundAt < p.startedAt /\ p.startedAt < p.stoppedAt
         /\ p.stoppedAt < p.releasedAt
         /\ \A k \in 1..Len(p.samples) : p.sampleAt[k] \in Nat /\ p.samples[k] \in Nat
  <1>1. p.startedAt # None /\ p.stoppedAt # None /\ p.releasedAt # None /\ Len(p.samples) >= 2
    BY DEF FullLife, Bracketed, Lived
  <1>2. /\ p.samples \in Seq(Nat) /\ p.sampleAt \in Seq(Nat)
        /\ Len(p.samples) \in Nat /\ Len(p.sampleAt) = Len(p.samples)
    BY DEF FullLife, RoleRecord, Ascend
  <1>3. /\ p.boundAt \in Nat /\ p.startedAt \in Nat /\ p.stoppedAt \in Nat
        /\ p.releasedAt \in Nat
    BY <1>1 DEF FullLife, RoleRecord, Moment
  <1>4. p.boundAt < p.startedAt /\ p.startedAt < p.stoppedAt /\ p.stoppedAt < p.releasedAt
    BY <1>1 DEF FullLife, Lived
  <1>5. \A k \in 1..Len(p.samples) : p.sampleAt[k] \in Nat /\ p.samples[k] \in Nat
    BY SMTT(30), <1>2
  <1> QED
    BY <1>1, <1>2, <1>3, <1>4, <1>5

\* f says what a proof of the role p says.
Proves(f, p) ==
  /\ f.samples = p.samples /\ f.sampleAt = p.sampleAt
  /\ f.baseline = Head(p.samples) /\ f.final = Last(p.samples) /\ f.delta = Delta(p)
  /\ f.boundAt = p.boundAt /\ f.startedAt = p.startedAt /\ f.stoppedAt = p.stoppedAt
  /\ f.releasedAt = p.releasedAt

LEMMA RoleProofIs ==
  ASSUME NEW p
  PROVE  Proves(RoleProof(p), p)
  BY DEF RoleProof, Proves

LEMMA ProofParses ==
  ASSUME NEW transcript \in Seq(Event), NEW r, NEW p, FullLife(transcript, r, p),
         Len(p.samples) <= MaxSamples, NEW f, Proves(f, p)
  PROVE  ParsesRoleProof(f)
  <1>1. /\ p.samples \in Seq(Nat) /\ p.sampleAt \in Seq(Nat)
        /\ Len(p.samples) \in Nat /\ Len(p.samples) >= 2 /\ Len(p.sampleAt) = Len(p.samples)
    BY FullLifeIs
  <1>2. Len(p.samples) \in 2..MaxSamples
    BY <1>1, EvidenceAssumption
  <1>3. \A k \in 2..Len(p.samples) :
          /\ k - 1 \in 1..Len(p.samples) /\ k \in 1..Len(p.samples) /\ k - 1 < k
    BY <1>1
  <1>4. NeverFalls(p.samples)
    BY <1>3 DEF NeverFalls, FullLife, Ascend
  <1>5. \A k \in 2..Len(p.sampleAt) : p.sampleAt[k - 1] < p.sampleAt[k]
    BY <1>1, <1>3 DEF FullLife, Ascend
  <1>6. f.samples = p.samples /\ f.sampleAt = p.sampleAt
    BY DEF Proves
  <1>7. Len(f.samples) \in 2..MaxSamples /\ NeverFalls(f.samples)
    BY <1>2, <1>4, <1>6
  <1>8. /\ Len(f.sampleAt) = Len(f.samples)
        /\ \A k \in 2..Len(f.sampleAt) : f.sampleAt[k - 1] < f.sampleAt[k]
    BY <1>1, <1>5, <1>6
  <1>9. /\ f.baseline = Head(f.samples) /\ f.final = Last(f.samples)
        /\ f.delta = f.final - f.baseline
    BY DEF Proves, Delta
  <1> QED
    BY <1>7, <1>8, <1>9 DEF ParsesRoleProof

LEMMA ProofLinks ==
  ASSUME NEW transcript \in Seq(Event), NEW r, NEW p, FullLife(transcript, r, p),
         NEW f, Proves(f, p)
  PROVE  LinksRoleEvents(transcript, r, f)
  <1>1. /\ p.startedAt # None /\ p.stoppedAt # None /\ p.releasedAt # None
        /\ p.sampleAt \in Seq(Nat)
        /\ Len(p.samples) \in Nat /\ Len(p.samples) >= 2 /\ Len(p.sampleAt) = Len(p.samples)
        /\ p.boundAt \in Nat /\ p.startedAt \in Nat /\ p.stoppedAt \in Nat
        /\ p.releasedAt \in Nat
        /\ p.boundAt < p.startedAt /\ p.startedAt < p.stoppedAt
        /\ p.stoppedAt < p.releasedAt
        /\ \A k \in 1..Len(p.samples) : p.sampleAt[k] \in Nat
    BY FullLifeIs
  <1>2. DOMAIN transcript = 1..Len(transcript) /\ DOMAIN p.sampleAt = 1..Len(p.samples)
    BY <1>1
  <1>3. \A i \in {p.boundAt, p.startedAt, p.stoppedAt, p.releasedAt} : i \in DOMAIN transcript
    BY <1>1, <1>2 DEF FullLife, Inside
  <1>4. /\ p.boundAt \in AtRole(transcript, "ROLE_CGROUP_BOUND", r)
        /\ p.startedAt \in AtRole(transcript, "ROLE_EXECUTION_STARTED", r)
        /\ p.stoppedAt \in AtRole(transcript, "ROLE_EXECUTION_STOPPED", r)
        /\ p.releasedAt \in AtRole(transcript, "ROLE_CGROUP_RELEASED", r)
    BY <1>1 DEF FullLife, Told, OneAt
  <1>5. \A k \in DOMAIN p.sampleAt :
          /\ p.sampleAt[k] \in AtRole(transcript, "ROLE_CPU_SAMPLE", r)
          /\ transcript[p.sampleAt[k]].index = k - 1
          /\ transcript[p.sampleAt[k]].usage = p.samples[k]
    BY <1>2 DEF FullLife, Told
  <1>6. /\ 1 \in 1..Len(p.samples) /\ Len(p.samples) \in 1..Len(p.samples)
        /\ Head(p.sampleAt) = p.sampleAt[1] /\ Last(p.sampleAt) = p.sampleAt[Len(p.samples)]
    BY <1>1 DEF Last
  <1>7. Head(p.sampleAt) \in p.boundAt + 1 .. p.startedAt - 1
    <2>1. p.boundAt < p.sampleAt[1] /\ p.sampleAt[1] < p.startedAt
      BY <1>6 DEF FullLife, Ascend, Bracketed
    <2> QED
      BY <1>1, <1>6, <2>1
  <1>8. Last(p.sampleAt) \in p.stoppedAt + 1 .. p.releasedAt - 1
    <2>1. /\ p.stoppedAt < p.sampleAt[Len(p.samples)]
          /\ p.sampleAt[Len(p.samples)] < p.releasedAt
      BY <1>1, <1>6 DEF FullLife, Lived, Bracketed
    <2> QED
      BY SMTT(30), <1>1, <1>6, <2>1
  <1>9. \A k \in 2 .. Len(p.sampleAt) - 1 : p.sampleAt[k] \in p.startedAt + 1 .. p.stoppedAt - 1
    <2> TAKE k \in 2 .. Len(p.sampleAt) - 1
    <2>1. k \in 2..Len(p.samples) /\ k \in 2 .. Len(p.samples) - 1 /\ k \in 1..Len(p.samples)
      BY <1>1
    <2>2. p.startedAt < p.sampleAt[k] /\ p.sampleAt[k] < p.stoppedAt
      BY <2>1 DEF FullLife, Bracketed
    <2>3. p.sampleAt[k] \in Nat
      BY <1>1, <2>1
    <2> QED
      BY SMTT(30), <1>1, <2>2, <2>3
  <1>10. /\ f.sampleAt = p.sampleAt /\ f.samples = p.samples /\ f.boundAt = p.boundAt
         /\ f.startedAt = p.startedAt /\ f.stoppedAt = p.stoppedAt
         /\ f.releasedAt = p.releasedAt
    BY DEF Proves
  <1>11. /\ \A i \in {f.boundAt, f.startedAt, f.stoppedAt, f.releasedAt} : i \in DOMAIN transcript
         /\ f.boundAt \in AtRole(transcript, "ROLE_CGROUP_BOUND", r)
         /\ f.startedAt \in AtRole(transcript, "ROLE_EXECUTION_STARTED", r)
         /\ f.stoppedAt \in AtRole(transcript, "ROLE_EXECUTION_STOPPED", r)
         /\ f.releasedAt \in AtRole(transcript, "ROLE_CGROUP_RELEASED", r)
         /\ f.boundAt < f.startedAt /\ f.startedAt < f.stoppedAt /\ f.stoppedAt < f.releasedAt
    BY <1>1, <1>3, <1>4, <1>10
  <1>12. \A k \in DOMAIN f.sampleAt :
           /\ f.sampleAt[k] \in AtRole(transcript, "ROLE_CPU_SAMPLE", r)
           /\ transcript[f.sampleAt[k]].index = k - 1
           /\ transcript[f.sampleAt[k]].usage = f.samples[k]
    BY <1>5, <1>10
  <1>13. /\ Head(f.sampleAt) \in f.boundAt + 1 .. f.startedAt - 1
         /\ Last(f.sampleAt) \in f.stoppedAt + 1 .. f.releasedAt - 1
         /\ \A k \in 2 .. Len(f.sampleAt) - 1 : f.sampleAt[k] \in f.startedAt + 1 .. f.stoppedAt - 1
    BY <1>7, <1>8, <1>9, <1>10
  <1> QED
    BY <1>11, <1>12, <1>13 DEF LinksRoleEvents

\* A session whose roles have run, in their order, without a failure.
RanWell(w) ==
  /\ SoundWork(w) /\ AllRead(w) /\ Unharmed(w.events) /\ InTurn(w.role)
  /\ \A r \in DOMAIN w.role : Bracketed(w.role[r])
  /\ DOMAIN w.role = Roles /\ \A r \in Roles : w.role[r].state = "RELEASED"

LEMMA StoppedWell ==
  ASSUME NEW w, RanWell(w), NEW x, x = Appended(w, StopEvent)
  PROVE  /\ SoundWork(x) /\ x.role = w.role /\ x.events \in Seq(Event)
         /\ \A r \in Roles : FullLife(x.events, r, x.role[r])
         /\ At(x.events, "CONTROLLER_STOPPED") = {Len(x.events)}
         /\ At(x.events, "FAILURE_OBSERVED") = {} /\ At(x.events, "CONTAINMENT_ACTION") = {}
         /\ Len(x.events) \in Nat /\ Len(x.events) >= 2
         /\ x.events[Len(x.events)].type = "CONTROLLER_STOPPED"
         /\ x.events[1].type = "CONTROLLER_STARTED"
  <1>1. PICK e : e = StopEvent
    OBVIOUS
  <1>2. e \in Event /\ e.type = "CONTROLLER_STOPPED"
    BY <1>1 DEF StopEvent, Event
  <1>3. e.type \notin RoleTypes /\ e.type # "CONTROLLER_STARTED"
    BY <1>2 DEF RoleTypes, RoleEvents
  <1>4. w.events \in Seq(Event) /\ Len(w.events) \in Nat
    BY AtIsInside DEF RanWell, SoundWork, IsWork
  <1>5. SoundWork(x) /\ x.role = w.role /\ x.events = Append(w.events, e)
    BY <1>1, <1>2, <1>3, PlainStep DEF RanWell
  <1>6. /\ x.events \in Seq(Event) /\ Len(x.events) = Len(w.events) + 1
        /\ x.events[Len(w.events) + 1] = e /\ DOMAIN x.events = 1..Len(x.events)
    BY <1>2, <1>4, <1>5, AppendGrows
  <1>7. \A r \in Roles : FullLife(x.events, r, x.role[r])
    BY <1>5, BoundRoleIs DEF RanWell, FullLife
  <1>8. At(x.events, "CONTROLLER_STOPPED") = {Len(x.events)}
    <2>1. At(Append(w.events, e), "CONTROLLER_STOPPED")
            = At(w.events, "CONTROLLER_STOPPED") \cup {Len(w.events) + 1}
      BY <1>2, <1>4, AppendAt
    <2>2. \A i : i \notin At(w.events, "CONTROLLER_STOPPED")
      BY DEF RanWell, Unharmed
    <2> QED
      BY <1>5, <1>6, <2>1, <2>2
  <1>9. At(x.events, "FAILURE_OBSERVED") = {} /\ At(x.events, "CONTAINMENT_ACTION") = {}
    <2>1. /\ At(Append(w.events, e), "FAILURE_OBSERVED") = At(w.events, "FAILURE_OBSERVED")
          /\ At(Append(w.events, e), "CONTAINMENT_ACTION") = At(w.events, "CONTAINMENT_ACTION")
      BY <1>2, <1>4, AppendAt
    <2> QED
      BY <1>5, <2>1 DEF RanWell, Unharmed
  <1>10. 1 \in DOMAIN x.events /\ x.events[1].type = "CONTROLLER_STARTED"
    BY <1>5 DEF SoundWork, At
  <1>11. x.events[Len(x.events)].type = "CONTROLLER_STOPPED" /\ Len(x.events) >= 2
    BY <1>2, <1>4, <1>6, <1>10
  <1> QED
    BY <1>5, <1>6, <1>7, <1>8, <1>9, <1>10, <1>11, <1>4

\* Every event is one of the session's ends or belongs to a role.
LEMMA AllLinked ==
  ASSUME NEW w, RanWell(w), NEW x, x = Appended(w, StopEvent), NEW f,
         \A r \in Roles : f[r] = RoleProof(x.role[r])
  PROVE  {1, Len(x.events)} \cup UNION {Linked(f[r]) : r \in Roles} = DOMAIN x.events
  <1>1. /\ SoundWork(x) /\ x.role = w.role /\ x.events \in Seq(Event)
        /\ \A r \in Roles : FullLife(x.events, r, x.role[r])
        /\ At(x.events, "CONTROLLER_STOPPED") = {Len(x.events)}
        /\ At(x.events, "FAILURE_OBSERVED") = {} /\ At(x.events, "CONTAINMENT_ACTION") = {}
        /\ Len(x.events) \in Nat /\ Len(x.events) >= 2
    BY StoppedWell
  <1>2. \A r \in Roles : /\ f[r].sampleAt = x.role[r].sampleAt
                         /\ f[r].boundAt = x.role[r].boundAt
                         /\ f[r].startedAt = x.role[r].startedAt
                         /\ f[r].stoppedAt = x.role[r].stoppedAt
                         /\ f[r].releasedAt = x.role[r].releasedAt
                         /\ Proves(f[r], x.role[r])
    BY RoleProofIs DEF Proves
  <1>3. DOMAIN x.role = Roles
    BY <1>1 DEF RanWell
  <1>4. ASSUME NEW r \in Roles, NEW i \in Linked(f[r]) PROVE i \in DOMAIN x.events
    <2>1. LinksRoleEvents(x.events, r, f[r])
      BY <1>1, <1>2, ProofLinks
    <2>2. CASE i \in {f[r].boundAt, f[r].startedAt, f[r].stoppedAt, f[r].releasedAt}
      BY <2>1, <2>2 DEF LinksRoleEvents
    <2>3. CASE i \in Range(f[r].sampleAt)
      BY <2>1, <2>3 DEF LinksRoleEvents, Range, AtRole, At
    <2> QED
      BY <1>4, <2>2, <2>3 DEF Linked
  <1>5. ASSUME NEW i \in DOMAIN x.events, i # 1, i # Len(x.events)
        PROVE  \E r \in Roles : i \in Linked(f[r])
    <2>1. x.events[i] \in Event
      BY <1>1
    <2>2. PICK t : t = x.events[i].type
      OBVIOUS
    <2>3. i \in At(x.events, t)
      BY <2>2 DEF At
    <2>4. t \in RoleTypes
      <3>1. t # "CONTROLLER_STARTED"
        BY <1>1, <1>5, <2>3 DEF SoundWork
      <3>2. t # "CONTROLLER_STOPPED" /\ t # "FAILURE_OBSERVED" /\ t # "CONTAINMENT_ACTION"
        BY <1>1, <1>5, <2>3
      <3> QED
        BY <2>1, <2>2, <3>1, <3>2, EventIs DEF RoleTypes
    <2>5. PICK r \in Roles : r = x.events[i].role
      BY <2>1, <2>2, <2>4, EventIs DEF RoleTypes
    <2>6. i \in AtRole(x.events, t, r)
      BY <2>3, <2>5 DEF AtRole
    <2>7. PICK p : p = x.role[r]
      OBVIOUS
    <2>8. /\ FullLife(x.events, r, p) /\ Told(x.events, r, p)
          /\ Len(p.sampleAt) = Len(p.samples) /\ p.sampleAt \in Seq(Nat)
      BY <1>1, <2>7, FullLifeIs DEF FullLife
    <2>9. \/ i \in {p.boundAt} \cup OneAt(p.startedAt) \cup OneAt(p.stoppedAt) \cup OneAt(p.releasedAt)
          \/ \E k \in 1..Len(p.samples) : i = p.sampleAt[k]
      BY <2>4, <2>6, <2>8 DEF Told, RoleTypes, RoleEvents
    <2>10. CASE i \in {p.boundAt} \cup OneAt(p.startedAt) \cup OneAt(p.stoppedAt) \cup OneAt(p.releasedAt)
      BY <1>2, <2>7, <2>10 DEF OneAt, Linked
    <2>11. CASE \E k \in 1..Len(p.samples) : i = p.sampleAt[k]
      <3>1. PICK k \in 1..Len(p.samples) : i = p.sampleAt[k]
        BY <2>11
      <3>2. k \in DOMAIN p.sampleAt
        BY <2>8
      <3>3. i \in Range(p.sampleAt)
        BY <3>1, <3>2 DEF Range
      <3> QED
        BY <1>2, <2>7, <3>3 DEF Linked
    <2> QED
      BY <2>9, <2>10, <2>11
  <1>6. 1 \in DOMAIN x.events /\ Len(x.events) \in DOMAIN x.events
    BY <1>1
  <1> QED
    BY <1>4, <1>5, <1>6

LEMMA SuccessParses ==
  ASSUME NEW w, RanWell(w), EgressSeenDuringWorker(w.role), Aggregate(w) <= Budget,
         NEW x, x = Appended(w, StopEvent), Len(x.events) <= MaxEvents,
         \A r \in DOMAIN x.role : Len(x.role[r].samples) <= MaxSamples,
         NEW outcome \in {"OBSERVED_WITHIN_BUDGET", "EXECUTION_NON_CPU_FAILURE"},
         NEW e, e = SuccessEvidence(x, outcome)
  PROVE  Parses(e) /\ RanToTheEnd(e) /\ e.aggregate = Aggregate(w) /\ e.outcome = outcome
  <1>1. /\ SoundWork(x) /\ x.role = w.role /\ x.events \in Seq(Event)
        /\ \A r \in Roles : FullLife(x.events, r, x.role[r])
        /\ Len(x.events) \in Nat /\ Len(x.events) >= 2
        /\ x.events[Len(x.events)].type = "CONTROLLER_STOPPED"
        /\ x.events[1].type = "CONTROLLER_STARTED"
    BY StoppedWell
  <1>2. /\ e.outcome = outcome /\ e.aggregate = Aggregate(x) /\ e.events = x.events
        /\ e.roles = [r \in Roles |-> RoleProof(x.role[r])]
    BY DEF SuccessEvidence
  <1>3. PICK f : f = e.roles
    OBVIOUS
  <1>4. \A r \in Roles : f[r] = RoleProof(x.role[r])
    BY <1>2, <1>3
  <1>5. \A r \in Roles :
          /\ f[r].sampleAt = x.role[r].sampleAt /\ f[r].boundAt = x.role[r].boundAt
          /\ f[r].startedAt = x.role[r].startedAt /\ f[r].stoppedAt = x.role[r].stoppedAt
          /\ f[r].delta = Delta(x.role[r]) /\ Proves(f[r], x.role[r])
    BY <1>4, RoleProofIs DEF Proves
  <1>6. DOMAIN x.role = Roles
    BY <1>1 DEF RanWell
  <1>7. Aggregate(x) = Aggregate(w)
    BY <1>1 DEF Aggregate
  <1>8. ParsesEvents(e.events)
    BY <1>1, <1>2, EvidenceAssumption DEF ParsesEvents
  <1>9. Head(e.events).type = "CONTROLLER_STARTED" /\ Last(e.events).type = "CONTROLLER_STOPPED"
    <2>1. Head(x.events) = x.events[1] /\ Last(x.events) = x.events[Len(x.events)]
      BY <1>1 DEF Last
    <2> QED
      BY <1>1, <1>2, <2>1
  <1>10. \A r \in Roles : ParsesRoleProof(f[r]) /\ LinksRoleEvents(e.events, r, f[r])
    <2> TAKE r \in Roles
    <2>1. FullLife(x.events, r, x.role[r]) /\ Len(x.role[r].samples) <= MaxSamples
      BY <1>1, <1>6
    <2>2. ParsesRoleProof(f[r])
      BY <1>1, <1>5, <2>1, ProofParses
    <2>3. LinksRoleEvents(x.events, r, f[r])
      BY <1>1, <1>5, <2>1, ProofLinks
    <2> QED
      BY <1>2, <2>2, <2>3
  <1>11. {1, Len(e.events)} \cup UNION {Linked(f[r]) : r \in Roles} = DOMAIN e.events
    BY <1>2, <1>4, AllLinked
  <1>12. RunsInOrder(f)
    <2>1. "egress" \in Roles /\ "worker" \in Roles /\ "verifier" \in Roles
      BY RolesAre
    <2>2. /\ InTurn(x.role) /\ \A r \in Roles : x.role[r].state = "RELEASED"
      BY <1>1 DEF RanWell
    <2>3. \A r \in Roles :
            /\ x.role[r].boundAt \in Nat /\ x.role[r].startedAt \in Nat /\ x.role[r].stoppedAt \in Nat
            /\ x.role[r].boundAt < x.role[r].startedAt
      BY <1>1, FullLifeIs
    <2>4. /\ x.role["egress"].startedAt < x.role["worker"].boundAt
          /\ x.role["worker"].stoppedAt < x.role["egress"].stoppedAt
          /\ x.role["egress"].stoppedAt < x.role["verifier"].boundAt
      BY <1>6, <2>1, <2>2 DEF InTurn
    <2>5. /\ x.role["egress"].startedAt < x.role["worker"].startedAt
          /\ x.role["egress"].stoppedAt < x.role["verifier"].startedAt
      BY <2>1, <2>3, <2>4
    <2> QED
      BY <1>5, <2>1, <2>4, <2>5 DEF RunsInOrder
  <1>13. EgressSeenDuringWorker(f)
    BY <1>1, <1>5, RolesAre DEF EgressSeenDuringWorker
  <1>14. e.aggregate = SumOf([r \in Roles |-> f[r].delta])
    <2>1. [r \in Roles |-> f[r].delta] = [r \in DOMAIN x.role |-> Delta(x.role[r])]
      BY <1>5, <1>6
    <2> QED
      BY <1>2, <2>1 DEF Aggregate
  <1>15. ParsesObservedSuccess(e)
    BY <1>2, <1>3, <1>7, <1>8, <1>9, <1>10, <1>11, <1>12, <1>13, <1>14 DEF ParsesObservedSuccess
  <1>16. RanToTheEnd(e)
    BY <1>2 DEF RanToTheEnd
  <1> QED
    BY <1>2, <1>7, <1>15, <1>16 DEF Parses

(***************************************************************************)
(* Sessions that go on, and those that end well                            *)
(***************************************************************************)

\* What the port has answered about w, while nothing has failed.
Agreeing(w) == [first |-> First(w), latest |-> Latest(w), released |-> Gone(w),
                stopped |-> FALSE, failed |-> {}]

\* A session that is open in w.
OpenIn(w) ==
  /\ SoundWork(w) /\ AllRead(w) /\ Unharmed(w.events)
  /\ \A r \in DOMAIN w.role : Bracketed(w.role[r])
  /\ InTurn(w.role)
  /\ Aggregate(w) <= Budget

LEMMA OpenInvIs ==
  OpenInv <=> OpenIn(Work) /\ port = Agreeing(Work)
  <1>1. Work.role = role /\ Work.events = events
    BY DEF Work
  <1>2. PICK w : w = Work
    OBVIOUS
  <1>3. Agreeing(w) = [first |-> [r \in DOMAIN role |-> Head(role[r].samples)],
                       latest |-> [r \in DOMAIN role |-> Last(role[r].samples)],
                       released |-> {r \in DOMAIN role : role[r].state = "RELEASED"},
                       stopped |-> FALSE, failed |-> {}]
    BY <1>1, <1>2 DEF Agreeing, First, Latest, Gone
  <1>4. PortAgrees <=> port = Agreeing(w)
    BY <1>3 DEF PortAgrees
  <1>5. OpenInv <=> /\ SoundWork(w) /\ AllRead(w) /\ Unharmed(w.events)
                    /\ \A r \in DOMAIN w.role : Bracketed(w.role[r])
                    /\ InTurn(w.role) /\ PortAgrees /\ Aggregate(w) <= Budget
    BY <1>1, <1>2 DEF OpenInv
  <1>6. OpenInv <=> OpenIn(w) /\ PortAgrees
    BY <1>5 DEF OpenIn
  <1> QED
    BY <1>2, <1>4, <1>6

\* An open session can fail.
LEMMA OpenMayFail ==
  ASSUME NEW w, OpenIn(w), port = Agreeing(w)
  PROVE  MayFail(w) /\ port.latest = Latest(w)
  <1>1. port.latest = Latest(w)
    BY DEF Agreeing
  <1>2. PortKnows(w)
    BY <1>1 DEF PortKnows, Agreeing
  <1> QED
    BY <1>1, <1>2 DEF OpenIn, MayFail

\* A session goes on to x.
LEMMA GoesOn ==
  ASSUME SessionInv, Mutable, NEW x, OpenIn(x), port' = Agreeing(x), Continue(x)
  PROVE  SessionInv'
  <1>1. /\ role' = x.role /\ events' = x.events /\ ended' = ended
    BY DEF Continue, Record
  <1>2. x = [role |-> x.role, events |-> x.events]
    BY DEF OpenIn, SoundWork, IsWork
  <1>3. Work' = x
    BY <1>1, <1>2 DEF Work
  <1>4. OpenInv'
    <2>1. OpenIn(Work') /\ port' = Agreeing(Work')
      BY <1>3
    <2>2. PICK u, v, p : u = role' /\ v = events' /\ p = port'
      OBVIOUS
    <2>3. Agreeing(x) = [first |-> [r \in DOMAIN u |-> Head(u[r].samples)],
                         latest |-> [r \in DOMAIN u |-> Last(u[r].samples)],
                         released |-> {r \in DOMAIN u : u[r].state = "RELEASED"},
                         stopped |-> FALSE, failed |-> {}]
      BY <1>1, <2>2 DEF Agreeing, First, Latest, Gone
    <2>4. PortAgrees'
      BY <2>2, <2>3 DEF PortAgrees
    <2>5. /\ SoundWork(x) /\ AllRead(x) /\ Unharmed(events')
          /\ \A r \in DOMAIN role' : Bracketed(role'[r])
          /\ InTurn(role') /\ Aggregate(x) <= Budget
      BY <1>1 DEF OpenIn
    <2> QED
      BY <1>3, <2>4, <2>5 DEF OpenInv
  <1>5. ended'.how = "open"
    BY <1>1 DEF Mutable
  <1>6. ended' = [how |-> ended'.how, evidence |-> ended'.evidence, reported |-> ended'.reported]
    BY <1>1 DEF SessionInv
  <1>7. ReaderAcceptsProducer' /\ QuietExactlyWhenClaimed'
    BY <1>5 DEF ReaderAcceptsProducer, QuietExactlyWhenClaimed, Candidate
  <1>8. UsageIsAccounted'
    <2>1. Used(port'.first, port'.latest) = Aggregate(x)
      <3>1. port'.first = First(x) /\ port'.latest = Latest(x)
        BY DEF Agreeing
      <3> QED
        BY <3>1, UsedIs
    <2>2. SumOf([r \in DOMAIN port'.first |-> port'.latest[r] - port'.first[r]]) = Aggregate(x)
      BY <2>1 DEF Used
    <2>3. Aggregate(x) <= Budget
      BY DEF OpenIn
    <2> QED
      BY <1>5, <2>2, <2>3 DEF UsageIsAccounted, Candidate
  <1> QED
    BY <1>4, <1>6, <1>7, <1>8 DEF SessionInv

\* The last reading of a role that ran follows its execution.
LEMMA LastReadingFollows ==
  ASSUME NEW transcript \in Seq(Event), NEW r \in Roles, NEW p, FullLife(transcript, r, p),
         NEW i \in DOMAIN transcript,
         transcript[i] = RoleEvent("ROLE_EXECUTION_STOPPED", r)
  PROVE  \E j \in i + 1 .. Len(transcript) :
           /\ transcript[j].type = "ROLE_CPU_SAMPLE" /\ transcript[j].role = r
           /\ transcript[j].usage = Last(p.samples)
  <1>1. /\ p.stoppedAt # None /\ p.stoppedAt \in Nat
        /\ Len(p.samples) \in Nat /\ Len(p.samples) >= 2 /\ p.samples \in Seq(Nat)
        /\ Told(transcript, r, p) /\ Bracketed(p) /\ Inside(transcript, p)
        /\ p.state = "RELEASED" /\ Len(transcript) \in Nat
    BY FullLifeIs DEF FullLife
  <1>2. i \in AtRole(transcript, "ROLE_EXECUTION_STOPPED", r)
    BY DEF AtRole, At, RoleEvent
  <1>3. i = p.stoppedAt
    BY <1>1, <1>2 DEF Told, OneAt
  <1>4. PICK n : n = Len(p.samples)
    OBVIOUS
  <1>5. n \in 1..Len(p.samples) /\ Last(p.samples) = p.samples[n]
    BY <1>1, <1>4 DEF Last
  <1>6. PICK j : j = p.sampleAt[n]
    OBVIOUS
  <1>7. j \in 1..Len(transcript)
    BY <1>1, <1>5, <1>6 DEF Inside
  <1>8. p.stoppedAt < j
    BY <1>1, <1>4, <1>6 DEF Bracketed
  <1>9. j \in i + 1 .. Len(transcript)
    BY <1>1, <1>3, <1>7, <1>8
  <1>10. transcript[j].usage = Last(p.samples)
    BY <1>1, <1>5, <1>6 DEF Told
  <1>11. j \in AtRole(transcript, "ROLE_CPU_SAMPLE", r)
    BY <1>1, <1>5, <1>6 DEF Told
  <1>12. transcript[j].type = "ROLE_CPU_SAMPLE" /\ transcript[j].role = r
    BY <1>11 DEF AtRole, At
  <1> QED
    BY <1>9, <1>10, <1>12

LEMMA SuccessKeeps ==
  ASSUME NEW w, RanWell(w), port = Agreeing(w), Aggregate(w) <= Budget,
         EgressSeenDuringWorker(w.role),
         NEW outcome \in {"OBSERVED_WITHIN_BUDGET", "EXECUTION_NON_CPU_FAILURE"},
         NEW x, x = Appended(w, StopEvent),
         Finish(x, SuccessEvidence(x, outcome), FALSE),
         port' = [port EXCEPT !.stopped = TRUE]
  PROVE  SessionInv'
  <1>1. PICK e : e = SuccessEvidence(x, outcome)
    OBVIOUS
  <1>2. /\ Len(x.events) <= MaxEvents
        /\ \A r \in DOMAIN x.role : Len(x.role[r].samples) <= MaxSamples
        /\ role' = x.role /\ events' = x.events
        /\ ended' = [how |-> IF Parses(e) THEN "candidate" ELSE "refused",
                     evidence |-> e, reported |-> FALSE]
    BY <1>1 DEF Finish, Record
  <1>3. Parses(e) /\ RanToTheEnd(e) /\ e.aggregate = Aggregate(w) /\ e.outcome = outcome
    BY <1>1, <1>2, SuccessParses
  <1>4. ended' = [how |-> "candidate", evidence |-> e, reported |-> FALSE]
    BY <1>2, <1>3
  <1>5. ended'.how = "candidate" /\ ended'.evidence = e
    BY <1>4
  <1>6. port' = [first |-> First(w), latest |-> Latest(w), released |-> Gone(w),
                 stopped |-> TRUE, failed |-> {}]
    BY DEF Agreeing
  <1>7. /\ port'.first = First(w) /\ port'.latest = Latest(w) /\ port'.released = Gone(w)
        /\ port'.stopped /\ port'.failed = {}
    BY <1>6
  <1>8. /\ x.role = w.role /\ x.events \in Seq(Event)
        /\ \A r \in Roles : FullLife(x.events, r, x.role[r])
    BY StoppedWell
  <1>9. QuietExactlyWhenClaimed'
    <2>1. e.outcome # "CONTAINMENT_INCOMPLETE"
      BY <1>3
    <2>2. DOMAIN role' \subseteq port'.released
      BY <1>2, <1>7, <1>8 DEF RanWell, Gone
    <2> QED
      BY <1>3, <1>5, <1>7, <2>1, <2>2 DEF QuietExactlyWhenClaimed, Candidate
  <1>10. SumOf([r \in DOMAIN port'.first |-> port'.latest[r] - port'.first[r]]) = Aggregate(w)
    BY <1>7, UsedIs DEF Used
  <1>11. ASSUME NEW r \in Roles, NEW i \in DOMAIN events',
                events'[i] = RoleEvent("ROLE_EXECUTION_STOPPED", r)
         PROVE  \E j \in i + 1 .. Len(events') :
                  /\ events'[j].type = "ROLE_CPU_SAMPLE" /\ events'[j].role = r
                  /\ events'[j].usage = port'.latest[r]
    <2>1. \E j \in i + 1 .. Len(x.events) :
            /\ x.events[j].type = "ROLE_CPU_SAMPLE" /\ x.events[j].role = r
            /\ x.events[j].usage = Last(x.role[r].samples)
      BY <1>2, <1>8, <1>11, LastReadingFollows
    <2>2. Last(x.role[r].samples) = port'.latest[r]
      BY <1>7, <1>8 DEF RanWell, Latest
    <2> QED
      BY <1>2, <2>1, <2>2
  <1>12. UsageIsAccounted'
    BY <1>3, <1>5, <1>10, <1>11 DEF UsageIsAccounted, Mutable, Candidate
  <1>13. ~Mutable' /\ ReaderAcceptsProducer'
    BY <1>5 DEF Mutable, ReaderAcceptsProducer
  <1>14. ended' = [how |-> ended'.how, evidence |-> ended'.evidence, reported |-> ended'.reported]
    BY <1>4
  <1> QED
    BY <1>9, <1>12, <1>13, <1>14 DEF SessionInv

(***************************************************************************)
(* A reading is taken in                                                   *)
(***************************************************************************)

\* A reading of r can be taken in w.
CanRead(w, r) ==
  /\ MayFail(w) /\ port.latest = Latest(w) /\ Aggregate(w) <= Budget
  /\ r \in DOMAIN w.role /\ w.role[r].state \in {"RUNNING", "STOPPED"}

\* x is w after the sample `usage` of r.
SampledTo(w, r, usage, x) ==
  /\ SoundWork(x) /\ AllRead(x) /\ Unharmed(x.events)
  /\ DOMAIN x.role = DOMAIN w.role
  /\ x.role[r] = SampledRecord(w.role[r], Len(w.events) + 1, usage)
  /\ \A q \in DOMAIN w.role \ {r} : x.role[q] = w.role[q]
  /\ First(x) = First(w) /\ Gone(x) = Gone(w)
  /\ Latest(x) = [Latest(w) EXCEPT ![r] = usage]

\* A sample, or a stop, is nothing that harms a session.
LEMMA UnharmedStays ==
  ASSUME NEW transcript \in Seq(Event), NEW e \in Event, e.type \in RoleTypes,
         Unharmed(transcript)
  PROVE  Unharmed(Append(transcript, e))
  <1>1. e.type \notin {"FAILURE_OBSERVED", "CONTAINMENT_ACTION", "CONTROLLER_STOPPED"}
    BY DEF RoleTypes, RoleEvents
  <1>2. \A t \in {"FAILURE_OBSERVED", "CONTAINMENT_ACTION", "CONTROLLER_STOPPED"} :
          At(Append(transcript, e), t) = At(transcript, t)
    BY <1>1, AppendAt
  <1> QED
    BY <1>2 DEF Unharmed

\* The first and the last sample of a role after one more.
LEMMA SampledEnds ==
  ASSUME NEW p \in RoleRecord, p.samples # <<>>, Len(p.sampleAt) = Len(p.samples),
         NEW at \in Nat, NEW usage \in Nat, NEW n, n = SampledRecord(p, at, usage)
  PROVE  /\ Head(n.samples) = Head(p.samples) /\ Last(n.samples) = usage
         /\ n.samples # <<>> /\ n.state = p.state
  <1>1. p.samples \in Seq(Nat) /\ Len(p.samples) \in Nat /\ Len(p.samples) >= 1
    BY DEF RoleRecord
  <1>2. /\ n \in RoleRecord /\ n.state = p.state
        /\ Len(n.samples) = Len(p.samples) + 1
        /\ \A k \in 1..Len(p.samples) : n.samples[k] = p.samples[k]
        /\ n.samples[Len(p.samples) + 1] = usage
    <2>1. MoreSampled(p, at, usage, n)
      BY <1>1, SampledRecordIs
    <2> QED
      BY <2>1 DEF MoreSampled
  <1>3. n.samples \in Seq(Nat) /\ n.samples # <<>>
    BY <1>1, <1>2 DEF RoleRecord
  <1>4. Head(n.samples) = n.samples[1] /\ Head(p.samples) = p.samples[1]
    BY <1>1, <1>3
  <1>5. n.samples[1] = p.samples[1]
    BY <1>1, <1>2
  <1>6. Last(n.samples) = usage
    BY <1>2 DEF Last
  <1> QED
    BY <1>2, <1>3, <1>4, <1>5, <1>6

LEMMA SampledIs ==
  ASSUME NEW w, SoundWork(w), AllRead(w), Unharmed(w.events), NEW r \in DOMAIN w.role,
         w.role[r].state # "RELEASED", NEW usage \in Nat, Last(w.role[r].samples) <= usage,
         NEW x, x = Sampled(w, r, usage)
  PROVE  SampledTo(w, r, usage, x)
  <1>1. PICK p : p = w.role[r]
    OBVIOUS
  <1>2. /\ p \in RoleRecord /\ r \in Roles /\ Ascend(p)
        /\ w.events \in Seq(Event) /\ Len(w.events) \in Nat
        /\ Len(p.samples) \in Nat /\ Len(p.sampleAt) = Len(p.samples)
    BY <1>1, BoundRoleIs
  <1>3. p.samples # <<>>
    BY <1>1 DEF AllRead
  <1>4. p.samples[Len(p.samples)] <= usage
    BY <1>1 DEF Last
  <1>5. PICK e : e = SampleEvent(p, r, usage)
    OBVIOUS
  <1>6. PICK n : n = SampledRecord(p, Len(w.events) + 1, usage)
    OBVIOUS
  <1>7. /\ SoundWork(x) /\ DOMAIN x.role = DOMAIN w.role /\ x.role[r] = n
        /\ \A q \in DOMAIN w.role \ {r} : x.role[q] = w.role[q]
        /\ x.events = Append(w.events, e) /\ e \in Event
    <2>1. NotedTo(w, r, SampledRecord(w.role[r], Len(w.events) + 1, usage),
                  SampleEvent(w.role[r], r, usage), Sampled(w, r, usage))
      BY <1>1, <1>4, SampledSound
    <2>2. NotedTo(w, r, n, e, x)
      BY <1>1, <1>5, <1>6, <2>1
    <2> QED
      BY <2>2 DEF NotedTo
  <1>8. e.type \in RoleTypes
    BY <1>5 DEF SampleEvent, RoleTypes
  <1>9. Unharmed(x.events)
    BY <1>2, <1>7, <1>8, UnharmedStays
  <1>10. /\ Head(n.samples) = Head(p.samples) /\ Last(n.samples) = usage
         /\ n.samples # <<>> /\ n.state = p.state
    BY <1>2, <1>3, <1>6, SampledEnds
  <1>11. AllRead(x)
    BY <1>7, <1>10 DEF AllRead
  <1>12. First(x) = First(w)
    BY <1>1, <1>7, <1>10 DEF First
  <1>13. Gone(x) = Gone(w)
    BY <1>1, <1>7, <1>10 DEF Gone
  <1>14. Latest(x) = [Latest(w) EXCEPT ![r] = usage]
    BY <1>7, <1>10 DEF Latest
  <1> QED
    BY <1>1, <1>6, <1>7, <1>9, <1>11, <1>12, <1>13, <1>14 DEF SampledTo

\* What comes of a reading: the session fails, or goes on with the sample.
LEMMA TakeReadingDoes ==
  ASSUME NEW w, NEW r, CanRead(w, r), NEW reading \in Readings, TakeReading(w, r, reading)
  PROVE  \/ SessionInv'
         \/ \E usage \in Nat : \E x :
              /\ SampledTo(w, r, usage, x) /\ Continue(x) /\ Aggregate(x) <= Budget
              /\ port' = [port EXCEPT !.latest = [port.latest EXCEPT ![r] = usage]]
  <1>1. /\ MayFail(w) /\ port.latest = Latest(w) /\ Aggregate(w) <= Budget
        /\ r \in DOMAIN w.role /\ w.role[r].state # "RELEASED"
        /\ SoundWork(w) /\ AllRead(w) /\ Unharmed(w.events) /\ PortKnows(w)
    BY DEF CanRead, MayFail
  <1>2. PICK failure : failure = ReadingFailure(w, r, reading)
    OBVIOUS
  <1>3. CASE failure # None
    <2>1. failure \in {"CPU_STAT_READ_FAILED", "ROLE_IDENTITY_DRIFT", "CPU_COUNTER_REGRESSION"}
      BY <1>2, <1>3 DEF ReadingFailure, Readings
    <2>2. failure \in Codes /\ CodeFits(w, failure, FALSE)
      BY <1>1, <2>1 DEF Codes, CodeFits
    <2>3. Contain(w, failure, FALSE, port.latest)
      BY <1>2, <1>3 DEF TakeReading
    <2> QED
      BY <1>1, <2>2, <2>3, ContainKeeps
  <1>4. CASE failure = None
    <2>1. /\ reading.kind = "usage" /\ reading.usage \in Nat
          /\ ~(reading.usage < Last(w.role[r].samples))
      BY <1>2, <1>4, ProducerAssumption DEF ReadingFailure, Readings, Usages, Codes
    <2>2. Last(w.role[r].samples) \in Nat
      BY <1>1, ReadRoleIs DEF RoleRecord, Last
    <2>3. PICK usage \in Nat : usage = reading.usage
      BY <2>1
    <2>4. PICK x : x = Sampled(w, r, usage)
      OBVIOUS
    <2>5. SampledTo(w, r, usage, x)
      BY <1>1, <2>1, <2>2, <2>3, <2>4, SampledIs
    <2>6. PICK latest : latest = [port.latest EXCEPT ![r] = usage]
      OBVIOUS
    <2>7. latest = Latest(x)
      BY <1>1, <2>5, <2>6 DEF SampledTo
    <2>8. IF Aggregate(x) > Budget
          THEN Contain(x, "CPU_BUDGET_EXCEEDED", FALSE, latest)
          ELSE Continue(x) /\ port' = [port EXCEPT !.latest = latest]
      BY <1>2, <1>4, <2>3, <2>4, <2>6 DEF TakeReading
    <2>9. MayFail(x)
      BY <1>1, <2>5 DEF SampledTo, MayFail, PortKnows
    <2>10. Aggregate(x) \in Nat
      BY <2>9, AggregateIsNat DEF MayFail
    <2>11. CASE Aggregate(x) > Budget
      <3>1. r \in Unfinished(x)
        BY <1>1, <2>5 DEF SampledTo, Unfinished, Gone
      <3>2. CodeFits(x, "CPU_BUDGET_EXCEEDED", FALSE)
        BY <2>11, <3>1 DEF CodeFits
      <3>3. "CPU_BUDGET_EXCEEDED" \in Codes
        BY DEF Codes
      <3> QED
        BY <2>7, <2>8, <2>9, <2>11, <3>2, <3>3, ContainKeeps
    <2>12. CASE Aggregate(x) <= Budget
      <3>1. ~(Aggregate(x) > Budget)
        BY <2>10, <2>12, EvidenceAssumption
      <3>2. Continue(x) /\ port' = [port EXCEPT !.latest = latest]
        BY <2>8, <3>1
      <3>3. port' = [port EXCEPT !.latest = [port.latest EXCEPT ![r] = usage]]
        BY <2>6, <3>2
      <3> QED
        BY <2>5, <2>12, <3>2, <3>3
    <2> QED
      BY <2>10, <2>11, <2>12, EvidenceAssumption
  <1> QED
    BY <1>3, <1>4

(***************************************************************************)
(* The calls keep the invariant                                            *)
(***************************************************************************)

\* What the invariant says of an open session.
LEMMA OpenSession ==
  ASSUME SessionInv, Mutable, NEW w, w = Work
  PROVE  /\ OpenIn(w) /\ port = Agreeing(w) /\ MayFail(w) /\ port.latest = Latest(w)
         /\ w.role = role /\ w.events = events
         /\ SoundWork(w) /\ AllRead(w) /\ Unharmed(w.events) /\ InTurn(w.role)
         /\ Aggregate(w) <= Budget /\ Admitted(DOMAIN w.role)
         /\ w.events \in Seq(Event) /\ Len(w.events) \in Nat
         /\ \A r \in DOMAIN w.role : Bracketed(w.role[r])
  <1>1. OpenIn(w) /\ port = Agreeing(w)
    BY OpenInvIs DEF SessionInv
  <1>2. MayFail(w) /\ port.latest = Latest(w)
    BY <1>1, OpenMayFail
  <1>3. w.role = role /\ w.events = events
    BY DEF Work
  <1>4. /\ SoundWork(w) /\ AllRead(w) /\ Unharmed(w.events) /\ InTurn(w.role)
        /\ Aggregate(w) <= Budget /\ \A r \in DOMAIN w.role : Bracketed(w.role[r])
    BY <1>1 DEF OpenIn
  <1>5. Admitted(DOMAIN w.role) /\ w.events \in Seq(Event) /\ Len(w.events) \in Nat
    BY <1>4 DEF SoundWork, IsWork
  <1> QED
    BY <1>1, <1>2, <1>3, <1>4, <1>5

LEMMA RecordControllerFailureKeeps ==
  ASSUME SessionInv, NEW code \in Codes, RecordControllerFailure(code)
  PROVE  SessionInv'
  <1>1. PICK w : w = Work
    OBVIOUS
  <1>2. Mutable /\ Contain(w, code, TRUE, port.latest)
    BY <1>1 DEF RecordControllerFailure
  <1>3. MayFail(w) /\ port.latest = Latest(w) /\ Aggregate(w) <= Budget
    BY <1>1, <1>2, OpenSession
  <1>4. CodeFits(w, code, TRUE)
    BY <1>3 DEF CodeFits
  <1> QED
    BY <1>2, <1>3, <1>4, ContainKeeps

LEMMA FinalizeKeeps ==
  ASSUME SessionInv, NEW outcome \in {"OBSERVED_WITHIN_BUDGET", "EXECUTION_NON_CPU_FAILURE"},
         Finalize(outcome)
  PROVE  SessionInv'
  <1>1. PICK w : w = Work
    OBVIOUS
  <1>2. Mutable /\ RanInFull
    BY DEF Finalize
  <1>3. /\ OpenIn(w) /\ port = Agreeing(w) /\ MayFail(w) /\ port.latest = Latest(w)
        /\ w.role = role /\ SoundWork(w) /\ AllRead(w) /\ Unharmed(w.events) /\ InTurn(w.role)
        /\ Aggregate(w) <= Budget /\ \A r \in DOMAIN w.role : Bracketed(w.role[r])
    BY <1>1, <1>2, OpenSession
  <1>4. RanWell(w)
    <2>1. \A r \in Roles : r \in DOMAIN w.role /\ w.role[r].state = "RELEASED"
      BY <1>2, <1>3 DEF RanInFull, RoleIs
    <2>2. DOMAIN w.role = Roles
      BY <1>3, <2>1 DEF SoundWork, IsWork
    <2> QED
      BY <1>3, <2>1, <2>2 DEF RanWell
  <1>5. PICK x : x = Appended(w, StopEvent)
    OBVIOUS
  <1>6. /\ ~EgressSeenDuringWorker(role) => Contain(w, "CPU_STAT_READ_FAILED", FALSE, port.latest)
        /\ EgressSeenDuringWorker(role) =>
             \/ Aggregate(w) > Budget
             \/ Contain(w, "CONTROLLER_STOP_FAILED", FALSE, port.latest)
             \/ /\ Finish(x, SuccessEvidence(x, outcome), FALSE)
                /\ port' = [port EXCEPT !.stopped = TRUE]
    BY <1>1, <1>5 DEF Finalize, StopEvent
  <1>7. ~(Aggregate(w) > Budget)
    <2>1. Aggregate(w) \in Nat
      BY <1>3, AggregateIsNat
    <2> QED
      BY <1>3, <2>1, EvidenceAssumption
  <1>8. CASE \E code \in {"CPU_STAT_READ_FAILED", "CONTROLLER_STOP_FAILED"} :
               Contain(w, code, FALSE, port.latest)
    <2>1. PICK code \in {"CPU_STAT_READ_FAILED", "CONTROLLER_STOP_FAILED"} :
            Contain(w, code, FALSE, port.latest)
      BY <1>8
    <2>2. code \in Codes /\ CodeFits(w, code, FALSE)
      BY <1>3 DEF Codes, CodeFits
    <2> QED
      BY <1>3, <2>1, <2>2, ContainKeeps
  <1>9. CASE /\ EgressSeenDuringWorker(role) /\ Finish(x, SuccessEvidence(x, outcome), FALSE)
             /\ port' = [port EXCEPT !.stopped = TRUE]
    <2>1. EgressSeenDuringWorker(w.role)
      BY <1>3, <1>9
    <2> QED
      BY <1>3, <1>4, <1>5, <1>9, <2>1, SuccessKeeps
  <1> QED
    BY <1>6, <1>7, <1>8, <1>9

LEMMA UnrecordableKeeps ==
  ASSUME SessionInv, Unrecordable
  PROVE  SessionInv'
  <1>1. ended' = [ended EXCEPT !.how = "poisoned"] /\ Mutable
    BY DEF Unrecordable
  <1>2. ended' = [how |-> "poisoned", evidence |-> ended.evidence, reported |-> ended.reported]
    BY <1>1 DEF SessionInv
  <1>3. ended'.how = "poisoned"
    BY <1>2
  <1>4. ended' = [how |-> ended'.how, evidence |-> ended'.evidence, reported |-> ended'.reported]
    BY <1>2
  <1>5. ~Mutable' /\ ~Candidate' /\ ReaderAcceptsProducer'
    BY <1>3 DEF Mutable, Candidate, ReaderAcceptsProducer
  <1> QED
    BY <1>4, <1>5 DEF SessionInv, QuietExactlyWhenClaimed, UsageIsAccounted

LEMMA StutteringKeeps ==
  ASSUME SessionInv, UNCHANGED sessionVars
  PROVE  SessionInv'
  BY DEF SessionInv, sessionVars, Mutable, Candidate, OpenInv, Work, PortAgrees,
         ReaderAcceptsProducer, QuietExactlyWhenClaimed, UsageIsAccounted

\* The turn of the roles depends on their moments only.
LEMMA SameTurn ==
  ASSUME NEW f, InTurn(f), NEW g, DOMAIN g = DOMAIN f, Admitted(DOMAIN f),
         \A q \in DOMAIN f : /\ g[q].state = f[q].state /\ g[q].boundAt = f[q].boundAt
                             /\ g[q].startedAt = f[q].startedAt
                             /\ g[q].stoppedAt = f[q].stoppedAt
  PROVE  InTurn(g)
  BY DEF InTurn, Admitted

\* The port agrees after a sample.
LEMMA SampleAgrees ==
  ASSUME NEW w, NEW x, port = Agreeing(w), First(x) = First(w), Gone(x) = Gone(w),
         NEW latest, latest = Latest(x), port' = [port EXCEPT !.latest = latest]
  PROVE  port' = Agreeing(x)
  <1>1. PICK a, b, c : a = First(w) /\ b = Gone(w) /\ c = Latest(w)
    OBVIOUS
  <1>2. port = [first |-> a, latest |-> c, released |-> b, stopped |-> FALSE, failed |-> {}]
    BY <1>1 DEF Agreeing
  <1>3. PICK u, v : u = port /\ v = port'
    OBVIOUS
  <1>4. v = [u EXCEPT !.latest = latest]
    BY <1>3
  <1>5. v = [first |-> a, latest |-> latest, released |-> b, stopped |-> FALSE, failed |-> {}]
    <2>1. u = [first |-> a, latest |-> c, released |-> b, stopped |-> FALSE, failed |-> {}]
      BY <1>2, <1>3
    <2> QED
      BY <2>1, <1>4
  <1> QED
    BY <1>1, <1>3, <1>5 DEF Agreeing

\* The moments of a bound role precede the next place of the transcript.
LEMMA PastMoments ==
  ASSUME NEW w, SoundWork(w), NEW r \in DOMAIN w.role, NEW p, p = w.role[r],
         NEW at, at = Len(w.events) + 1
  PROVE  /\ p \in RoleRecord /\ Lived(p) /\ Ascend(p) /\ at \in Nat /\ at # None
         /\ p.boundAt \in Nat /\ p.boundAt < at
         /\ p.startedAt # None => p.startedAt \in Nat /\ p.startedAt < at
         /\ p.stoppedAt # None => p.stoppedAt \in Nat /\ p.stoppedAt < at
         /\ Len(p.samples) \in Nat /\ Len(p.sampleAt) = Len(p.samples)
         /\ \A k \in 1..Len(p.samples) : p.sampleAt[k] \in Nat /\ p.sampleAt[k] < at
  <1>1. /\ p \in RoleRecord /\ Lived(p) /\ Ascend(p) /\ Inside(w.events, p)
        /\ Len(w.events) \in Nat /\ Len(p.samples) \in Nat /\ Len(p.sampleAt) = Len(p.samples)
    BY BoundRoleIs
  <1>2. at \in Nat /\ at # None
    BY <1>1, ProducerAssumption
  <1>3. \A i \in 1..Len(w.events) : i \in Nat /\ i < at
    BY <1>1
  <1> QED
    BY <1>1, <1>2, <1>3 DEF Inside

\* A sample of a running role brackets its execution.
LEMMA RunningBracketed ==
  ASSUME NEW p \in RoleRecord, Bracketed(p), p.state = "RUNNING", p.samples # <<>>,
         Len(p.sampleAt) = Len(p.samples), NEW at \in Nat,
         p.startedAt \in Nat, p.startedAt < at, NEW usage \in Nat,
         NEW n, n = SampledRecord(p, at, usage)
  PROVE  Bracketed(n)
  <1>1. p.samples \in Seq(Nat) /\ Len(p.samples) \in Nat /\ Len(p.samples) >= 1
    BY DEF RoleRecord
  <1>2. /\ n.boundAt = p.boundAt /\ n.state = "RUNNING" /\ n.startedAt = p.startedAt
        /\ Len(n.samples) = Len(p.samples) + 1
        /\ \A k \in 1..Len(p.samples) : n.sampleAt[k] = p.sampleAt[k]
        /\ n.sampleAt[Len(p.samples) + 1] = at
    <2>1. MoreSampled(p, at, usage, n)
      BY <1>1, SampledRecordIs
    <2> QED
      BY <2>1 DEF MoreSampled
  <1>3. n.startedAt # None /\ n.sampleAt[1] < n.startedAt
    BY <1>1, <1>2 DEF Bracketed
  <1>4. \A k \in 2..Len(n.samples) : n.startedAt < n.sampleAt[k]
    <2> TAKE k \in 2..Len(n.samples)
    <2>1. k \in 2..Len(p.samples) \/ k = Len(p.samples) + 1
      BY <1>1, <1>2
    <2>2. CASE k \in 2..Len(p.samples)
      <3>1. k \in 1..Len(p.samples)
        BY <1>1, <2>2
      <3> QED
        BY <1>2, <2>2, <3>1 DEF Bracketed
    <2>3. CASE k = Len(p.samples) + 1
      BY <1>2, <2>3
    <2> QED
      BY <2>1, <2>2, <2>3
  <1> QED
    BY <1>2, <1>3, <1>4 DEF Bracketed

LEMMA SampleRoleKeeps ==
  ASSUME SessionInv, NEW r \in Roles, NEW reading \in Readings, SampleRole(r, reading)
  PROVE  SessionInv'
  <1>1. PICK w : w = Work
    OBVIOUS
  <1>2. Mutable /\ RoleIs(r, "RUNNING") /\ TakeReading(w, r, reading)
    BY <1>1 DEF SampleRole
  <1>3. /\ OpenIn(w) /\ port = Agreeing(w) /\ MayFail(w) /\ port.latest = Latest(w)
        /\ w.role = role /\ SoundWork(w) /\ AllRead(w) /\ Unharmed(w.events) /\ InTurn(w.role)
        /\ Aggregate(w) <= Budget /\ Admitted(DOMAIN w.role)
        /\ \A q \in DOMAIN w.role : Bracketed(w.role[q])
    BY <1>1, <1>2, OpenSession
  <1>4. r \in DOMAIN w.role /\ w.role[r].state = "RUNNING"
    BY <1>2, <1>3 DEF RoleIs
  <1>5. CanRead(w, r)
    BY <1>3, <1>4 DEF CanRead
  <1>6. SUFFICES ASSUME NEW usage \in Nat, NEW x, SampledTo(w, r, usage, x), Continue(x),
                        Aggregate(x) <= Budget,
                        port' = [port EXCEPT !.latest = [port.latest EXCEPT ![r] = usage]]
                 PROVE  SessionInv'
    BY <1>2, <1>5, TakeReadingDoes
  <1>7. PICK p, at, n : /\ p = w.role[r] /\ at = Len(w.events) + 1
                        /\ n = SampledRecord(p, at, usage)
    OBVIOUS
  <1>8. /\ SoundWork(x) /\ AllRead(x) /\ Unharmed(x.events) /\ DOMAIN x.role = DOMAIN w.role
        /\ x.role[r] = n /\ \A q \in DOMAIN w.role \ {r} : x.role[q] = w.role[q]
        /\ First(x) = First(w) /\ Gone(x) = Gone(w)
        /\ Latest(x) = [port.latest EXCEPT ![r] = usage]
    BY <1>3, <1>6, <1>7 DEF SampledTo
  <1>9. /\ p \in RoleRecord /\ Lived(p) /\ at \in Nat /\ p.samples # <<>> /\ Bracketed(p)
        /\ p.state = "RUNNING" /\ Len(p.sampleAt) = Len(p.samples)
        /\ p.startedAt \in Nat /\ p.startedAt < at
    <2>1. p.startedAt # None
      BY <1>3, <1>4, <1>7 DEF Bracketed
    <2> QED
      BY <1>3, <1>4, <1>7, <2>1, PastMoments DEF AllRead
  <1>10. Bracketed(n)
    BY <1>7, <1>9, RunningBracketed
  <1>11. InTurn(x.role)
    <2>1. /\ n.state = p.state /\ n.boundAt = p.boundAt /\ n.startedAt = p.startedAt
          /\ n.stoppedAt = p.stoppedAt
      <3>1. MoreSampled(p, at, usage, n)
        BY <1>7, <1>9, SampledRecordIs
      <3> QED
        BY <3>1 DEF MoreSampled
    <2> QED
      BY <1>3, <1>7, <1>8, <2>1, SameTurn
  <1>12. OpenIn(x)
    BY <1>3, <1>6, <1>8, <1>10, <1>11 DEF OpenIn
  <1>13. port' = Agreeing(x)
    BY <1>3, <1>6, <1>8, SampleAgrees
  <1> QED
    BY <1>2, <1>6, <1>12, <1>13, GoesOn

\* A role that is stopped and read brackets its execution.
LEMMA StoppedBracketed ==
  ASSUME NEW p \in RoleRecord, Bracketed(p), p.state = "RUNNING", p.samples # <<>>,
         Len(p.sampleAt) = Len(p.samples), NEW at \in Nat, at # None,
         p.startedAt \in Nat, p.startedAt < at,
         \A k \in 1..Len(p.samples) : p.sampleAt[k] < at,
         NEW usage \in Nat, NEW s, s = StoppedRecord(p, at), s \in RoleRecord,
         NEW n, n = SampledRecord(s, at + 1, usage)
  PROVE  Bracketed(n) /\ n.state = "STOPPED" /\ n.boundAt = p.boundAt
         /\ n.startedAt = p.startedAt /\ n.stoppedAt = at
  <1>1. p.samples \in Seq(Nat) /\ Len(p.samples) \in Nat /\ Len(p.samples) >= 1
    BY DEF RoleRecord
  <1>2. /\ s.samples = p.samples /\ s.sampleAt = p.sampleAt /\ s.state = "STOPPED"
        /\ s.startedAt = p.startedAt /\ s.boundAt = p.boundAt /\ s.stoppedAt = at
    BY DEF StoppedRecord, RoleRecord
  <1>3. /\ n.boundAt = s.boundAt /\ n.state = s.state /\ n.startedAt = s.startedAt
        /\ n.stoppedAt = s.stoppedAt
        /\ Len(n.samples) = Len(s.samples) + 1
        /\ \A k \in 1..Len(s.samples) : n.sampleAt[k] = s.sampleAt[k]
        /\ n.sampleAt[Len(s.samples) + 1] = at + 1
    <2>1. at + 1 \in Nat
      OBVIOUS
    <2>2. Len(s.sampleAt) = Len(s.samples)
      BY <1>2
    <2>3. PICK next \in Nat : next = at + 1
      BY <2>1
    <2>4. n = SampledRecord(s, next, usage)
      BY <2>3
    <2>5. MoreSampled(s, next, usage, n)
      BY <2>2, <2>4, SampledRecordIs
    <2> QED
      BY <2>3, <2>5 DEF MoreSampled
  <1>4. /\ n.state = "STOPPED" /\ n.startedAt = p.startedAt /\ n.stoppedAt = at
        /\ Len(n.samples) = Len(p.samples) + 1 /\ n.boundAt = p.boundAt
        /\ \A k \in 1..Len(p.samples) : n.sampleAt[k] = p.sampleAt[k]
        /\ n.sampleAt[Len(p.samples) + 1] = at + 1
    BY <1>2, <1>3
  <1>5. n.startedAt # None /\ n.sampleAt[1] < n.startedAt
    BY SMTT(30), <1>1, <1>4 DEF Bracketed
  <1>6. \A k \in 2..Len(n.samples) : n.startedAt < n.sampleAt[k]
    <2> TAKE k \in 2..Len(n.samples)
    <2>1. k \in 2..Len(p.samples) \/ k = Len(p.samples) + 1
      BY <1>1, <1>4
    <2>2. CASE k \in 2..Len(p.samples)
      <3>1. k \in 1..Len(p.samples)
        BY <1>1, <2>2
      <3> QED
        BY <1>4, <2>2, <3>1 DEF Bracketed
    <2>3. CASE k = Len(p.samples) + 1
      BY <1>4, <2>3
    <2> QED
      BY <2>1, <2>2, <2>3
  <1>7. /\ n.stoppedAt # None /\ Len(n.samples) >= 2
        /\ n.stoppedAt < n.sampleAt[Len(n.samples)]
    BY <1>1, <1>4
  <1>8. \A k \in 2 .. Len(n.samples) - 1 : n.sampleAt[k] < n.stoppedAt
    <2> TAKE k \in 2 .. Len(n.samples) - 1
    <2>1. k \in 1..Len(p.samples)
      BY <1>1, <1>4
    <2> QED
      BY <1>4, <2>1
  <1>9. Bracketed(n)
    BY <1>4, <1>5, <1>6, <1>7, <1>8 DEF Bracketed
  <1> QED
    BY <1>4, <1>9

\* What a stop leaves: the samples, and who is gone.
LEMMA StoppedIs ==
  ASSUME NEW w, SoundWork(w), AllRead(w), Unharmed(w.events), NEW r \in DOMAIN w.role,
         w.role[r].state = "RUNNING", NEW x, x = Stopped(w, r)
  PROVE  /\ SoundWork(x) /\ AllRead(x) /\ Unharmed(x.events) /\ DOMAIN x.role = DOMAIN w.role
         /\ x.role[r] = StoppedRecord(w.role[r], Len(w.events) + 1)
         /\ \A q \in DOMAIN w.role \ {r} : x.role[q] = w.role[q]
         /\ First(x) = First(w) /\ Gone(x) = Gone(w) /\ Latest(x) = Latest(w)
         /\ Aggregate(x) = Aggregate(w) /\ Len(x.events) = Len(w.events) + 1
         /\ x.role[r].state = "STOPPED"
  <1>1. PICK e : e = RoleEvent("ROLE_EXECUTION_STOPPED", r)
    OBVIOUS
  <1>2. /\ SoundWork(x) /\ DOMAIN x.role = DOMAIN w.role
        /\ x.role[r] = StoppedRecord(w.role[r], Len(w.events) + 1)
        /\ \A q \in DOMAIN w.role \ {r} : x.role[q] = w.role[q]
        /\ x.events = Append(w.events, e) /\ e \in Event
    BY <1>1, StoppedSound
  <1>3. w.role[r] \in RoleRecord /\ w.events \in Seq(Event)
    BY BoundRoleIs
  <1>4. x.role[r].samples = w.role[r].samples /\ x.role[r].state = "STOPPED"
    BY <1>2, <1>3 DEF StoppedRecord, RoleRecord
  <1>5. \A q \in DOMAIN w.role : x.role[q].samples = w.role[q].samples
    BY <1>2, <1>4
  <1>6. AllRead(x)
    BY <1>2, <1>5 DEF AllRead
  <1>7. First(x) = First(w) /\ Latest(x) = Latest(w)
    BY <1>2, <1>5 DEF First, Latest
  <1>8. Gone(x) = Gone(w)
    BY <1>2, <1>4 DEF Gone
  <1>9. Aggregate(x) = Aggregate(w)
    BY <1>2, <1>5, SameSamplesSameAggregate
  <1>10. Unharmed(x.events)
    <2>1. e.type \in RoleTypes
      BY <1>1 DEF RoleEvent, RoleTypes, RoleEvents
    <2> QED
      BY <1>2, <1>3, <2>1, UnharmedStays
  <1>11. Len(x.events) = Len(w.events) + 1
    BY <1>2, <1>3, AppendGrows
  <1> QED
    BY <1>2, <1>4, <1>6, <1>7, <1>8, <1>9, <1>10, <1>11

\* The turn of the roles when one stops.
LEMMA StoppedTurn ==
  ASSUME NEW f, InTurn(f), Admitted(DOMAIN f), NEW r \in DOMAIN f, f[r].state = "RUNNING",
         NEW at \in Nat,
         r = "egress" => /\ "worker" \in DOMAIN f /\ f["worker"].state = "RELEASED"
                         /\ f["worker"].stoppedAt < at,
         NEW g, DOMAIN g = DOMAIN f, \A q \in DOMAIN f \ {r} : g[q] = f[q],
         g[r].state = "STOPPED", g[r].boundAt = f[r].boundAt,
         g[r].startedAt = f[r].startedAt, g[r].stoppedAt = at
  PROVE  InTurn(g)
  <1>1. r \in {"egress", "worker", "verifier"} /\ DOMAIN f \subseteq {"egress", "worker", "verifier"}
    BY DEF Admitted, Roles
  <1>2. CASE r = "egress"
    <2>1. "verifier" \notin DOMAIN f
      BY <1>2 DEF InTurn
    <2>2. g["worker"] = f["worker"]
      BY <1>2
    <2> QED
      BY <1>2, <2>1, <2>2 DEF InTurn
  <1>3. CASE r = "worker"
    <2>1. "verifier" \notin DOMAIN f
      BY <1>3 DEF InTurn
    <2>2. "egress" \in DOMAIN f /\ f["egress"].state \notin {"STOPPED", "RELEASED"}
      BY <1>3 DEF InTurn, Admitted
    <2>3. g["egress"] = f["egress"]
      BY <1>3, <2>2
    <2> QED
      BY <1>3, <2>1, <2>2, <2>3 DEF InTurn
  <1>4. CASE r = "verifier"
    <2>1. /\ "egress" \in DOMAIN f /\ "worker" \in DOMAIN f
          /\ g["egress"] = f["egress"] /\ g["worker"] = f["worker"]
      BY <1>4 DEF Admitted
    <2> QED
      BY <1>4, <2>1 DEF InTurn
  <1> QED
    BY <1>1, <1>2, <1>3, <1>4

LEMMA MarkExecutionStoppedKeeps ==
  ASSUME SessionInv, NEW r \in Roles, NEW reading \in Readings,
         MarkExecutionStopped(r, reading)
  PROVE  SessionInv'
  <1>1. PICK w : w = Work
    OBVIOUS
  <1>2. PICK m : m = Stopped(w, r)
    OBVIOUS
  <1>3. /\ Mutable /\ RoleIs(r, "RUNNING") /\ TakeReading(m, r, reading)
        /\ r = "egress" => RoleIs("worker", "RELEASED")
    BY <1>1, <1>2 DEF MarkExecutionStopped
  <1>4. /\ OpenIn(w) /\ port = Agreeing(w) /\ MayFail(w) /\ port.latest = Latest(w)
        /\ w.role = role /\ SoundWork(w) /\ AllRead(w) /\ Unharmed(w.events) /\ InTurn(w.role)
        /\ Aggregate(w) <= Budget /\ Admitted(DOMAIN w.role)
        /\ \A q \in DOMAIN w.role : Bracketed(w.role[q])
    BY <1>1, <1>3, OpenSession
  <1>5. r \in DOMAIN w.role /\ w.role[r].state = "RUNNING"
    BY <1>3, <1>4 DEF RoleIs
  <1>6. /\ SoundWork(m) /\ AllRead(m) /\ Unharmed(m.events) /\ DOMAIN m.role = DOMAIN w.role
        /\ m.role[r] = StoppedRecord(w.role[r], Len(w.events) + 1)
        /\ \A q \in DOMAIN w.role \ {r} : m.role[q] = w.role[q]
        /\ First(m) = First(w) /\ Gone(m) = Gone(w) /\ Latest(m) = Latest(w)
        /\ Aggregate(m) = Aggregate(w) /\ Len(m.events) = Len(w.events) + 1
        /\ m.role[r].state = "STOPPED"
    BY <1>2, <1>4, <1>5, StoppedIs
  <1>7. MayFail(m)
    BY <1>4, <1>6 DEF MayFail, PortKnows
  <1>8. CanRead(m, r)
    BY <1>4, <1>5, <1>6, <1>7 DEF CanRead
  <1>9. SUFFICES ASSUME NEW usage \in Nat, NEW x, SampledTo(m, r, usage, x), Continue(x),
                        Aggregate(x) <= Budget,
                        port' = [port EXCEPT !.latest = [port.latest EXCEPT ![r] = usage]]
                 PROVE  SessionInv'
    BY <1>3, <1>8, TakeReadingDoes
  <1>10. PICK p, at, s, n : /\ p = w.role[r] /\ at = Len(w.events) + 1
                            /\ s = m.role[r] /\ n = x.role[r]
    OBVIOUS
  <1>11. /\ SoundWork(x) /\ AllRead(x) /\ Unharmed(x.events) /\ DOMAIN x.role = DOMAIN w.role
         /\ n = SampledRecord(s, at + 1, usage) /\ s = StoppedRecord(p, at)
         /\ \A q \in DOMAIN w.role \ {r} : x.role[q] = w.role[q]
         /\ First(x) = First(w) /\ Gone(x) = Gone(w)
         /\ Latest(x) = [port.latest EXCEPT ![r] = usage]
    BY <1>4, <1>6, <1>9, <1>10 DEF SampledTo
  <1>12. /\ p \in RoleRecord /\ at \in Nat /\ at # None /\ p.samples # <<>> /\ Bracketed(p)
         /\ p.state = "RUNNING" /\ Len(p.sampleAt) = Len(p.samples)
         /\ p.startedAt \in Nat /\ p.startedAt < at
         /\ \A k \in 1..Len(p.samples) : p.sampleAt[k] < at
    <2>1. p.startedAt # None
      BY <1>4, <1>5, <1>10 DEF Bracketed
    <2> QED
      BY <1>4, <1>5, <1>10, <2>1, PastMoments DEF AllRead
  <1>13. s \in RoleRecord
    BY <1>5, <1>6, <1>10, BoundRoleIs
  <1>14. Bracketed(n) /\ n.state = "STOPPED" /\ n.boundAt = p.boundAt
         /\ n.startedAt = p.startedAt /\ n.stoppedAt = at
    BY <1>11, <1>12, <1>13, StoppedBracketed
  <1>15. InTurn(x.role)
    <2>1. r = "egress" => /\ "worker" \in DOMAIN w.role /\ w.role["worker"].state = "RELEASED"
                          /\ w.role["worker"].stoppedAt < at
      <3> SUFFICES ASSUME r = "egress"
                   PROVE  /\ "worker" \in DOMAIN w.role /\ w.role["worker"].state = "RELEASED"
                          /\ w.role["worker"].stoppedAt < at
        OBVIOUS
      <3>1. "worker" \in DOMAIN w.role /\ w.role["worker"].state = "RELEASED"
        BY <1>3, <1>4 DEF RoleIs
      <3>2. w.role["worker"].stoppedAt # None
        BY <1>4, <3>1 DEF Bracketed
      <3> QED
        BY <1>4, <1>10, <3>1, <3>2, PastMoments
    <2>2. /\ w.role[r].state = "RUNNING" /\ x.role[r].state = "STOPPED"
          /\ x.role[r].boundAt = w.role[r].boundAt /\ x.role[r].startedAt = w.role[r].startedAt
          /\ x.role[r].stoppedAt = at
      BY <1>10, <1>12, <1>14
    <2>3. PICK f, g : f = w.role /\ g = x.role
      OBVIOUS
    <2>4. /\ InTurn(f) /\ Admitted(DOMAIN f) /\ r \in DOMAIN f /\ f[r].state = "RUNNING"
          /\ at \in Nat /\ DOMAIN g = DOMAIN f
          /\ \A q \in DOMAIN f \ {r} : g[q] = f[q]
      BY <1>4, <1>5, <1>11, <1>12, <2>3
    <2>5. /\ g[r].state = "STOPPED" /\ g[r].boundAt = f[r].boundAt
          /\ g[r].startedAt = f[r].startedAt /\ g[r].stoppedAt = at
      BY <2>2, <2>3
    <2>6. InTurn(g)
      BY SMTT(30), <2>1, <2>3, <2>4, <2>5, StoppedTurn
    <2> QED
      BY <2>3, <2>6
  <1>16. OpenIn(x)
    BY <1>4, <1>9, <1>10, <1>11, <1>14, <1>15 DEF OpenIn
  <1>17. port' = Agreeing(x)
    BY <1>4, <1>9, <1>11, SampleAgrees
  <1> QED
    BY <1>3, <1>9, <1>16, <1>17, GoesOn

\* The turn of the roles when one starts, or is released after its stop.
LEMMA StartedTurn ==
  ASSUME NEW f, InTurn(f), Admitted(DOMAIN f), NEW r \in DOMAIN f, f[r].state = "BOUND",
         f[r].startedAt = None,
         NEW g, DOMAIN g = DOMAIN f, \A q \in DOMAIN f \ {r} : g[q] = f[q],
         g[r].state = "RUNNING", g[r].boundAt = f[r].boundAt
  PROVE  InTurn(g)
  <1>1. r \in {"egress", "worker", "verifier"}
    BY DEF Admitted, Roles
  <1>2. CASE r = "egress"
    <2>1. "worker" \notin DOMAIN f /\ "verifier" \notin DOMAIN f
      BY <1>2 DEF InTurn, Admitted
    <2> QED
      BY <1>2, <2>1 DEF InTurn
  <1>3. CASE r = "worker"
    <2>1. "verifier" \notin DOMAIN f
      BY <1>3 DEF InTurn
    <2>2. "egress" \in DOMAIN f /\ f["egress"].state \notin {"STOPPED", "RELEASED"}
      BY <1>3 DEF InTurn, Admitted
    <2>3. g["egress"] = f["egress"]
      BY <1>3, <2>2
    <2> QED
      BY <1>3, <2>1, <2>2, <2>3 DEF InTurn
  <1>4. CASE r = "verifier"
    <2>1. /\ "egress" \in DOMAIN f /\ "worker" \in DOMAIN f
          /\ g["egress"] = f["egress"] /\ g["worker"] = f["worker"]
      BY <1>4 DEF Admitted
    <2> QED
      BY <1>4, <2>1 DEF InTurn
  <1> QED
    BY <1>1, <1>2, <1>3, <1>4

LEMMA MarkExecutionStartedKeeps ==
  ASSUME SessionInv, NEW r \in Roles, MarkExecutionStarted(r)
  PROVE  SessionInv'
  <1>1. PICK w : w = Work
    OBVIOUS
  <1>2. PICK x : x = Started(w, r)
    OBVIOUS
  <1>3. Mutable /\ RoleIs(r, "BOUND") /\ Continue(x) /\ port' = port
    BY <1>1, <1>2 DEF MarkExecutionStarted
  <1>4. /\ OpenIn(w) /\ port = Agreeing(w)
        /\ w.role = role /\ SoundWork(w) /\ AllRead(w) /\ Unharmed(w.events) /\ InTurn(w.role)
        /\ Aggregate(w) <= Budget /\ Admitted(DOMAIN w.role)
        /\ \A q \in DOMAIN w.role : Bracketed(w.role[q])
    BY <1>1, <1>3, OpenSession
  <1>5. r \in DOMAIN w.role /\ w.role[r].state = "BOUND"
    BY <1>3, <1>4 DEF RoleIs
  <1>6. PICK e, at, p, n : /\ e = RoleEvent("ROLE_EXECUTION_STARTED", r)
                           /\ at = Len(w.events) + 1 /\ p = w.role[r] /\ n = x.role[r]
    OBVIOUS
  <1>7. /\ SoundWork(x) /\ DOMAIN x.role = DOMAIN w.role /\ n = StartedRecord(p, at)
        /\ \A q \in DOMAIN w.role \ {r} : x.role[q] = w.role[q]
        /\ x.events = Append(w.events, e) /\ e \in Event
    BY <1>2, <1>4, <1>5, <1>6, StartedSound
  <1>8. /\ p \in RoleRecord /\ Lived(p) /\ at \in Nat /\ at # None /\ w.events \in Seq(Event)
        /\ Len(p.samples) \in Nat
        /\ \A k \in 1..Len(p.samples) : p.sampleAt[k] \in Nat /\ p.sampleAt[k] < at
    BY <1>4, <1>5, <1>6, PastMoments, BoundRoleIs
  <1>9. /\ n.samples = p.samples /\ n.sampleAt = p.sampleAt /\ n.state = "RUNNING"
        /\ n.startedAt = at /\ n.boundAt = p.boundAt
    BY <1>7, <1>8 DEF StartedRecord, RoleRecord
  <1>10. Bracketed(n)
    <2>1. Len(p.samples) = 1
      BY <1>4, <1>5, <1>6 DEF Bracketed
    <2>2. 1 \in 1..Len(p.samples)
      BY <2>1
    <2>3. p.sampleAt[1] < at
      BY <1>8, <2>2
    <2> QED
      BY <1>8, <1>9, <2>1, <2>3 DEF Bracketed
  <1>11. \A q \in DOMAIN w.role : x.role[q].samples = w.role[q].samples
    BY <1>6, <1>7, <1>9
  <1>12. AllRead(x) /\ First(x) = First(w) /\ Latest(x) = Latest(w)
    BY <1>4, <1>7, <1>11 DEF AllRead, First, Latest
  <1>13. Gone(x) = Gone(w)
    BY <1>5, <1>6, <1>7, <1>9 DEF Gone
  <1>14. Aggregate(x) = Aggregate(w)
    BY <1>7, <1>11, SameSamplesSameAggregate
  <1>15. Unharmed(x.events)
    <2>1. e.type \in RoleTypes
      BY <1>6 DEF RoleEvent, RoleTypes, RoleEvents
    <2> QED
      BY <1>4, <1>7, <1>8, <2>1, UnharmedStays
  <1>16. InTurn(x.role)
    <2>1. /\ w.role[r].startedAt = None /\ x.role[r].state = "RUNNING"
          /\ x.role[r].boundAt = w.role[r].boundAt
      BY <1>5, <1>6, <1>8, <1>9 DEF Lived
    <2> QED
      BY <1>4, <1>5, <1>7, <2>1, StartedTurn
  <1>17. OpenIn(x)
    BY <1>4, <1>6, <1>7, <1>10, <1>12, <1>14, <1>15, <1>16 DEF OpenIn
  <1>18. port' = Agreeing(x)
    BY <1>3, <1>4, <1>12, <1>13 DEF Agreeing
  <1> QED
    BY <1>3, <1>17, <1>18, GoesOn

LEMMA ReleasedTurn ==
  ASSUME NEW f, InTurn(f), Admitted(DOMAIN f), NEW r \in DOMAIN f, f[r].state = "STOPPED",
         NEW g, DOMAIN g = DOMAIN f, \A q \in DOMAIN f \ {r} : g[q] = f[q],
         g[r].state = "RELEASED", g[r].boundAt = f[r].boundAt,
         g[r].startedAt = f[r].startedAt, g[r].stoppedAt = f[r].stoppedAt
  PROVE  InTurn(g)
  <1>1. r \in {"egress", "worker", "verifier"}
    BY DEF Admitted, Roles
  <1>2. CASE r = "egress"
    <2>1. /\ "verifier" \notin DOMAIN f /\ "worker" \in DOMAIN f
          /\ g["worker"] = f["worker"]
      BY <1>2 DEF InTurn
    <2> QED
      BY <1>2, <2>1 DEF InTurn
  <1>3. CASE r = "worker"
    <2>1. "verifier" \notin DOMAIN f
      BY <1>3 DEF InTurn
    <2>2. "egress" \in DOMAIN f /\ f["egress"].state \notin {"STOPPED", "RELEASED"}
      BY <1>3 DEF InTurn, Admitted
    <2>3. g["egress"] = f["egress"]
      BY <1>3, <2>2
    <2> QED
      BY <1>3, <2>1, <2>2, <2>3 DEF InTurn
  <1>4. CASE r = "verifier"
    <2>1. /\ "egress" \in DOMAIN f /\ "worker" \in DOMAIN f
          /\ g["egress"] = f["egress"] /\ g["worker"] = f["worker"]
      BY <1>4 DEF Admitted
    <2> QED
      BY <1>4, <2>1 DEF InTurn
  <1> QED
    BY <1>1, <1>2, <1>3, <1>4

LEMMA PortReleased ==
  ASSUME NEW a, NEW b, NEW c, NEW d, NEW u, NEW v,
         u = [first |-> a, latest |-> c, released |-> b, stopped |-> FALSE, failed |-> {}],
         v = [u EXCEPT !.released = d]
  PROVE  v = [first |-> a, latest |-> c, released |-> d, stopped |-> FALSE, failed |-> {}]
  OBVIOUS

LEMMA MarkRoleReleasedKeeps ==
  ASSUME SessionInv, NEW r \in Roles, NEW released \in BOOLEAN, MarkRoleReleased(r, released)
  PROVE  SessionInv'
  <1>1. PICK w : w = Work
    OBVIOUS
  <1>2. PICK x : x = Released(w, r)
    OBVIOUS
  <1>3. /\ Mutable /\ RoleIs(r, "STOPPED")
        /\ released => Continue(x) /\ port' = [port EXCEPT !.released = @ \cup {r}]
        /\ ~released => Contain(w, "CGROUP_RELEASE_FAILED", FALSE, port.latest)
    BY <1>1, <1>2 DEF MarkRoleReleased
  <1>4. /\ OpenIn(w) /\ port = Agreeing(w) /\ MayFail(w) /\ port.latest = Latest(w)
        /\ w.role = role /\ SoundWork(w) /\ AllRead(w) /\ Unharmed(w.events) /\ InTurn(w.role)
        /\ Aggregate(w) <= Budget /\ Admitted(DOMAIN w.role)
        /\ \A q \in DOMAIN w.role : Bracketed(w.role[q])
    BY <1>1, <1>3, OpenSession
  <1>5. CASE ~released
    <2>1. "CGROUP_RELEASE_FAILED" \in Codes /\ CodeFits(w, "CGROUP_RELEASE_FAILED", FALSE)
      BY <1>4 DEF Codes, CodeFits
    <2> QED
      BY <1>3, <1>4, <1>5, <2>1, ContainKeeps
  <1>6. CASE released
    <2>1. r \in DOMAIN w.role /\ w.role[r].state = "STOPPED"
      BY <1>3, <1>4 DEF RoleIs
    <2>2. PICK e, at, p, n : /\ e = RoleEvent("ROLE_CGROUP_RELEASED", r)
                             /\ at = Len(w.events) + 1 /\ p = w.role[r] /\ n = x.role[r]
      OBVIOUS
    <2>3. /\ SoundWork(x) /\ DOMAIN x.role = DOMAIN w.role /\ n = ReleasedRecord(p, at)
          /\ \A q \in DOMAIN w.role \ {r} : x.role[q] = w.role[q]
          /\ x.events = Append(w.events, e) /\ e \in Event
      BY <1>2, <1>4, <2>1, <2>2, ReleasedSound
    <2>4. p \in RoleRecord /\ w.events \in Seq(Event)
      BY <1>4, <2>1, <2>2, BoundRoleIs
    <2>5. /\ n.samples = p.samples /\ n.sampleAt = p.sampleAt /\ n.state = "RELEASED"
          /\ n.startedAt = p.startedAt /\ n.stoppedAt = p.stoppedAt /\ n.boundAt = p.boundAt
      BY <2>3, <2>4 DEF ReleasedRecord, RoleRecord
    <2>6. Bracketed(n)
      BY <1>4, <2>1, <2>2, <2>5 DEF Bracketed
    <2>7. \A q \in DOMAIN w.role : x.role[q].samples = w.role[q].samples
      BY <2>2, <2>3, <2>5
    <2>8. AllRead(x) /\ First(x) = First(w) /\ Latest(x) = Latest(w)
      BY <1>4, <2>3, <2>7 DEF AllRead, First, Latest
    <2>9. Gone(x) = Gone(w) \cup {r}
      BY <2>1, <2>2, <2>3, <2>5 DEF Gone
    <2>10. Aggregate(x) = Aggregate(w)
      BY <2>3, <2>7, SameSamplesSameAggregate
    <2>11. Unharmed(x.events)
      <3>1. e.type \in RoleTypes
        BY <2>2 DEF RoleEvent, RoleTypes, RoleEvents
      <3> QED
        BY <1>4, <2>3, <2>4, <3>1, UnharmedStays
    <2>12. InTurn(x.role)
      <3>1. /\ x.role[r].state = "RELEASED" /\ x.role[r].boundAt = w.role[r].boundAt
            /\ x.role[r].startedAt = w.role[r].startedAt
            /\ x.role[r].stoppedAt = w.role[r].stoppedAt
        BY <2>2, <2>5
      <3> QED
        BY <1>4, <2>1, <2>3, <3>1, ReleasedTurn
    <2>13. OpenIn(x)
      BY <1>4, <2>2, <2>3, <2>6, <2>8, <2>10, <2>11, <2>12 DEF OpenIn
    <2>14. port' = Agreeing(x)
      <3>1. PICK a, b, c, d : /\ a = First(w) /\ b = Gone(w) /\ c = Latest(w)
                              /\ d = Gone(w) \cup {r}
        OBVIOUS
      <3>2. port = [first |-> a, latest |-> c, released |-> b, stopped |-> FALSE, failed |-> {}]
        BY <1>4, <3>1 DEF Agreeing
      <3>3. port' = [port EXCEPT !.released = d]
        BY <1>3, <1>6, <3>1, <3>2
      <3>4. port' = [first |-> a, latest |-> c, released |-> d, stopped |-> FALSE, failed |-> {}]
        BY <3>2, <3>3, PortReleased
      <3> QED
        BY <2>8, <2>9, <3>1, <3>4 DEF Agreeing
    <2> QED
      BY <1>3, <1>6, <2>13, <2>14, GoesOn
  <1> QED
    BY <1>5, <1>6

(***************************************************************************)
(* A role is admitted to an open session                                   *)
(***************************************************************************)

\* Roles are admitted one after the other.
LEMMA NextRole ==
  ASSUME Admitted(DOMAIN role), NEW r \in Roles, CanBind(r)
  PROVE  r \notin DOMAIN role /\ Admitted(DOMAIN role \cup {r})
  <1>1. PICK S : S = DOMAIN role
    OBVIOUS
  <1>2. Cardinality(S) < 3 /\ r = RoleOrder[Cardinality(S) + 1]
    BY <1>1 DEF CanBind, RoleOrder
  <1>3. \/ S = {} \/ S = {"egress"} \/ S = {"egress", "worker"}
        \/ S = {"egress", "worker", "verifier"}
    BY <1>1 DEF Admitted, Roles
  <1>4. /\ Cardinality({}) = 0 /\ Cardinality({"egress"}) = 1
        /\ Cardinality({"egress", "worker"}) = 2
        /\ Cardinality({"egress", "worker", "verifier"}) = 3
    <2>1. Cardinality({}) = 0 /\ IsFiniteSet({})
      BY FS_EmptySet
    <2>2. Cardinality({"egress"}) = 1 /\ IsFiniteSet({"egress"})
      BY FS_Singleton
    <2>3. Cardinality({"egress"} \cup {"worker"}) = 2 /\ IsFiniteSet({"egress"} \cup {"worker"})
      BY <2>2, FS_AddElement
    <2>4. Cardinality({"egress"} \cup {"worker"} \cup {"verifier"}) = 3
      BY <2>3, FS_AddElement
    <2>5. /\ {"egress"} \cup {"worker"} = {"egress", "worker"}
          /\ {"egress"} \cup {"worker"} \cup {"verifier"} = {"egress", "worker", "verifier"}
      OBVIOUS
    <2> QED
      BY <2>1, <2>2, <2>3, <2>4, <2>5
  <1>5. CASE S = {}
    <2>1. r = "egress"
      BY <1>2, <1>4, <1>5 DEF RoleOrder
    <2> QED
      BY <1>1, <1>5, <2>1 DEF Admitted, Roles
  <1>6. CASE S = {"egress"}
    <2>1. r = "worker"
      BY <1>2, <1>4, <1>6 DEF RoleOrder
    <2> QED
      BY <1>1, <1>6, <2>1 DEF Admitted, Roles
  <1>7. CASE S = {"egress", "worker"}
    <2>1. r = "verifier"
      BY <1>2, <1>4, <1>7 DEF RoleOrder
    <2> QED
      BY <1>1, <1>7, <2>1 DEF Admitted, Roles
  <1>8. CASE S = {"egress", "worker", "verifier"}
    BY <1>2, <1>4, <1>8
  <1> QED
    BY <1>3, <1>5, <1>6, <1>7, <1>8

\* The first sample of a role.
LEMMA FirstSampleIs ==
  ASSUME NEW p \in RoleRecord, p.samples = <<>>, Len(p.sampleAt) = Len(p.samples),
         p.state = "BOUND", NEW at \in Nat, NEW usage \in Nat,
         NEW n, n = SampledRecord(p, at, usage)
  PROVE  /\ Head(n.samples) = usage /\ Last(n.samples) = usage /\ n.samples # <<>>
         /\ Delta(n) = 0 /\ Bracketed(n) /\ n.state = "BOUND" /\ n.boundAt = p.boundAt
  <1>1. Len(p.samples) = 0
    OBVIOUS
  <1>2. /\ n \in RoleRecord /\ n.state = "BOUND" /\ n.boundAt = p.boundAt
        /\ Len(n.samples) = Len(p.samples) + 1
        /\ n.samples[Len(p.samples) + 1] = usage
    <2>1. MoreSampled(p, at, usage, n)
      BY SampledRecordIs
    <2> QED
      BY <2>1 DEF MoreSampled
  <1>3. n.samples \in Seq(Nat) /\ Len(n.samples) = 1 /\ n.samples[1] = usage
    BY <1>1, <1>2 DEF RoleRecord
  <1>4. Head(n.samples) = usage /\ n.samples # <<>>
    BY <1>3
  <1>5. Last(n.samples) = usage
    BY <1>3 DEF Last
  <1>6. Delta(n) = 0
    BY <1>4, <1>5 DEF Delta
  <1>7. Bracketed(n)
    BY <1>2, <1>3 DEF Bracketed
  <1> QED
    BY <1>2, <1>4, <1>5, <1>6, <1>7

\* The turn of the roles when one is admitted.
LEMMA BoundTurn ==
  ASSUME NEW f, InTurn(f), Admitted(DOMAIN f), NEW r \in Roles \ DOMAIN f,
         Admitted(DOMAIN f \cup {r}), NEW at \in Nat,
         r = "worker" => /\ f["egress"].state = "RUNNING" /\ f["egress"].startedAt # None
                         /\ f["egress"].startedAt < at,
         r = "verifier" => /\ f["egress"].state = "RELEASED" /\ f["worker"].state = "RELEASED"
                           /\ f["egress"].stoppedAt < at,
         NEW g, DOMAIN g = DOMAIN f \cup {r}, \A q \in DOMAIN f : g[q] = f[q],
         g[r].state = "BOUND", g[r].boundAt = at
  PROVE  InTurn(g)
  <1>1. r \in {"egress", "worker", "verifier"}
    BY DEF Roles
  <1>2. CASE r = "egress"
    <2>1. DOMAIN g = {"egress"}
      BY <1>2 DEF Admitted, Roles
    <2> QED
      BY <1>2, <2>1 DEF InTurn
  <1>3. CASE r = "worker"
    <2>1. "verifier" \notin DOMAIN g /\ "egress" \in DOMAIN f /\ g["egress"] = f["egress"]
      BY <1>3 DEF Admitted
    <2> QED
      BY <1>3, <2>1 DEF InTurn
  <1>4. CASE r = "verifier"
    <2>1. /\ "egress" \in DOMAIN f /\ "worker" \in DOMAIN f
          /\ g["egress"] = f["egress"] /\ g["worker"] = f["worker"]
      BY <1>4 DEF Admitted
    <2> QED
      BY <1>4, <2>1 DEF InTurn
  <1> QED
    BY <1>1, <1>2, <1>3, <1>4

\* A sum does not change with one more term that is zero.
LEMMA SumWithZero ==
  ASSUME NEW f, NEW g, NEW r, r \notin DOMAIN f, DOMAIN g = DOMAIN f \cup {r},
         \A q \in DOMAIN f : g[q] = f[q], g[r] = 0
  PROVE  SumOf(g) = SumOf(f)
  <1>1. \A q : (IF q \in DOMAIN g THEN g[q] ELSE 0) = (IF q \in DOMAIN f THEN f[q] ELSE 0)
    OBVIOUS
  <1> QED
    BY <1>1 DEF SumOf

LEMMA PortBound ==
  ASSUME NEW a, NEW b, NEW c, NEW d, NEW h, NEW u, NEW v,
         u = [first |-> a, latest |-> c, released |-> b, stopped |-> FALSE, failed |-> {}],
         v = [u EXCEPT !.first = d, !.latest = h]
  PROVE  v = [first |-> d, latest |-> h, released |-> b, stopped |-> FALSE, failed |-> {}]
  OBVIOUS

LEMMA BindRoleKeeps ==
  ASSUME SessionInv, NEW r \in Roles, NEW usage \in Usages, BindRole(r, usage)
  PROVE  SessionInv'
  <1>1. PICK w : w = Work
    OBVIOUS
  <1>2. PICK at, e : at = Len(w.events) + 1 /\ e = RoleEvent("ROLE_CGROUP_BOUND", r)
    OBVIOUS
  <1>3. PICK m : m = BoundRecord(at)
    OBVIOUS
  <1>4. PICK b : b = [role |-> Including(w.role, r, m), events |-> Append(w.events, e)]
    OBVIOUS
  <1>5. PICK x : x = Sampled(b, r, usage)
    OBVIOUS
  <1>6. Mutable /\ CanBind(r)
    BY DEF BindRole
  <1>7. /\ OpenIn(w) /\ port = Agreeing(w)
        /\ w.role = role /\ w.events = events /\ SoundWork(w) /\ AllRead(w) /\ Unharmed(w.events)
        /\ InTurn(w.role) /\ Aggregate(w) <= Budget /\ Admitted(DOMAIN w.role)
        /\ \A q \in DOMAIN w.role : Bracketed(w.role[q])
        /\ w.events \in Seq(Event) /\ Len(w.events) \in Nat
    BY <1>1, <1>6, OpenSession
  <1>8. Continue(x)
    BY <1>2, <1>3, <1>4, <1>5, <1>7 DEF BindRole, BoundRecord
  <1>9. port' = [port EXCEPT !.first = Including(@, r, usage), !.latest = Including(@, r, usage)]
    BY DEF BindRole
  <1>10. r \in Roles \ DOMAIN w.role /\ Admitted(DOMAIN w.role \cup {r})
    BY <1>6, <1>7, NextRole
  <1>11. /\ SoundWork(b) /\ DOMAIN b.role = DOMAIN w.role \cup {r}
         /\ b.role[r] = m /\ \A q \in DOMAIN w.role : b.role[q] = w.role[q]
         /\ b.events = Append(w.events, e) /\ e \in Event /\ e.type = "ROLE_CGROUP_BOUND"
    <2>1. m = BoundRecord(Len(w.events) + 1) /\ e = RoleEvent("ROLE_CGROUP_BOUND", r)
      BY <1>2, <1>3
    <2>2. SoundWork(w)
      BY <1>7
    <2>3. BoundTo(w, r, m, e, b)
      BY <1>4, <1>10, <2>1, <2>2, BoundSound
    <2> QED
      BY <2>3 DEF BoundTo
  <1>12. /\ m \in RoleRecord /\ Ascend(m) /\ m.samples = <<>> /\ m.state = "BOUND"
         /\ m.boundAt = at /\ at \in Nat /\ Len(m.sampleAt) = Len(m.samples)
    <2>1. at \in Nat
      BY <1>2, <1>7
    <2> QED
      BY <1>3, <2>1, BoundRecordIs DEF Ascend
  <1>13. usage \in Nat
    BY ProducerAssumption DEF Usages
  <1>14. PICK n, s : n = x.role[r] /\ s = SampleEvent(m, r, usage)
    OBVIOUS
  <1>15. /\ SoundWork(x) /\ DOMAIN x.role = DOMAIN w.role \cup {r}
         /\ n = SampledRecord(m, Len(b.events) + 1, usage)
         /\ \A q \in DOMAIN w.role : x.role[q] = w.role[q]
         /\ x.events = Append(b.events, s) /\ s \in Event
    <2>1. r \in DOMAIN b.role /\ b.role[r].state # "RELEASED" /\ b.role[r].samples = <<>>
      BY <1>11, <1>12
    <2>2. SoundWork(b)
      BY <1>11
    <2>3. NotedTo(b, r, SampledRecord(b.role[r], Len(b.events) + 1, usage),
                  SampleEvent(b.role[r], r, usage), Sampled(b, r, usage))
      BY <1>13, <2>1, <2>2, SampledSound
    <2>4. NotedTo(b, r, SampledRecord(m, Len(b.events) + 1, usage), s, x)
      BY <1>5, <1>11, <1>14, <2>3
    <2> QED
      BY <1>10, <1>11, <1>14, <2>4 DEF NotedTo
  <1>16. /\ Head(n.samples) = usage /\ Last(n.samples) = usage /\ n.samples # <<>>
         /\ Delta(n) = 0 /\ Bracketed(n) /\ n.state = "BOUND" /\ n.boundAt = at
    <2>1. PICK next \in Nat : next = Len(b.events) + 1
      BY <1>11, BoundRoleIs
    <2>2. n = SampledRecord(m, next, usage)
      BY <1>15, <2>1
    <2> QED
      BY <1>12, <1>13, <2>2, FirstSampleIs
  <1>17. AllRead(x)
    BY <1>7, <1>14, <1>15, <1>16 DEF AllRead
  <1>18. Unharmed(x.events)
    <2>1. e.type \in RoleTypes /\ s.type \in RoleTypes
      BY <1>11, <1>14 DEF SampleEvent, RoleTypes, RoleEvents
    <2>2. b.events \in Seq(Event) /\ Unharmed(b.events)
      BY <1>7, <1>11, <2>1, UnharmedStays, AppendGrows
    <2> QED
      BY <1>15, <2>1, <2>2, UnharmedStays
  <1>19. InTurn(x.role)
    <2>1. r = "worker" => /\ w.role["egress"].state = "RUNNING"
                          /\ w.role["egress"].startedAt # None /\ w.role["egress"].startedAt < at
      <3> SUFFICES ASSUME r = "worker"
                   PROVE  /\ w.role["egress"].state = "RUNNING"
                          /\ w.role["egress"].startedAt # None /\ w.role["egress"].startedAt < at
        OBVIOUS
      <3>1. "egress" \in DOMAIN w.role /\ w.role["egress"].state = "RUNNING"
        BY <1>6, <1>7 DEF CanBind, RoleIs
      <3>2. w.role["egress"].startedAt # None
        BY <1>7, <3>1 DEF Bracketed
      <3> QED
        BY <1>2, <1>7, <3>1, <3>2, PastMoments
    <2>2. r = "verifier" => /\ w.role["egress"].state = "RELEASED"
                            /\ w.role["worker"].state = "RELEASED"
                            /\ w.role["egress"].stoppedAt < at
      <3> SUFFICES ASSUME r = "verifier"
                   PROVE  /\ w.role["egress"].state = "RELEASED"
                          /\ w.role["worker"].state = "RELEASED"
                          /\ w.role["egress"].stoppedAt < at
        OBVIOUS
      <3>1. /\ "egress" \in DOMAIN w.role /\ w.role["egress"].state = "RELEASED"
            /\ w.role["worker"].state = "RELEASED"
        BY <1>6, <1>7 DEF CanBind, RoleIs
      <3>2. w.role["egress"].stoppedAt # None
        BY <1>7, <3>1 DEF Bracketed
      <3> QED
        BY <1>2, <1>7, <3>1, <3>2, PastMoments
    <2>3. x.role[r].state = "BOUND" /\ x.role[r].boundAt = at
      BY <1>14, <1>16
    <2> QED
      BY <1>7, <1>10, <1>12, <1>15, <2>1, <2>2, <2>3, BoundTurn
  <1>20. Aggregate(x) = Aggregate(w)
    <2>1. PICK f, g : /\ f = [q \in DOMAIN w.role |-> Delta(w.role[q])]
                      /\ g = [q \in DOMAIN x.role |-> Delta(x.role[q])]
      OBVIOUS
    <2>2. /\ DOMAIN g = DOMAIN f \cup {r} /\ r \notin DOMAIN f
          /\ \A q \in DOMAIN f : g[q] = f[q] /\ g[r] = 0
      BY <1>10, <1>14, <1>15, <1>16, <2>1
    <2>3. g[r] = 0
      BY <1>14, <1>15, <1>16, <2>1
    <2>4. SumOf(g) = SumOf(f)
      BY <2>2, <2>3, SumWithZero
    <2> QED
      BY <2>1, <2>4 DEF Aggregate
  <1>21. OpenIn(x)
    BY <1>7, <1>14, <1>15, <1>16, <1>17, <1>18, <1>19, <1>20 DEF OpenIn
  <1>22. /\ First(x) = Including(First(w), r, usage)
         /\ Latest(x) = Including(Latest(w), r, usage) /\ Gone(x) = Gone(w)
    <2>1. First(x) = Including(First(w), r, usage)
      BY <1>10, <1>14, <1>15, <1>16 DEF First, Including
    <2>2. Latest(x) = Including(Latest(w), r, usage)
      BY <1>10, <1>14, <1>15, <1>16 DEF Latest, Including
    <2>3. Gone(x) = Gone(w)
      BY <1>10, <1>14, <1>15, <1>16 DEF Gone
    <2> QED
      BY <2>1, <2>2, <2>3
  <1>23. port' = Agreeing(x)
    <2>1. PICK a, g, c, d, h : /\ a = First(w) /\ g = Gone(w) /\ c = Latest(w)
                               /\ d = Including(a, r, usage) /\ h = Including(c, r, usage)
      OBVIOUS
    <2>2. port = [first |-> a, latest |-> c, released |-> g, stopped |-> FALSE, failed |-> {}]
      BY <1>7, <2>1 DEF Agreeing
    <2>3. port.first = a /\ port.latest = c
      BY <2>2
    <2>4. port' = [port EXCEPT !.first = d, !.latest = h]
      BY <1>9, <2>1, <2>3
    <2>5. port' = [first |-> d, latest |-> h, released |-> g, stopped |-> FALSE, failed |-> {}]
      BY <2>2, <2>4, PortBound
    <2> QED
      BY <1>22, <2>1, <2>5 DEF Agreeing
  <1> QED
    BY <1>6, <1>8, <1>21, <1>23, GoesOn

(***************************************************************************)
(* The theorems                                                            *)
(***************************************************************************)

\* A session starts sound, and nothing has been read.
LEMMA SessionStarts ==
  ASSUME SessionInit
  PROVE  SessionInv
  <1>1. PICK e : e = [type |-> "CONTROLLER_STARTED"]
    OBVIOUS
  <1>2. e \in Event /\ e.type = "CONTROLLER_STARTED" /\ "role" \notin DOMAIN e
    BY <1>1 DEF Event
  <1>3. /\ role = <<>> /\ events = <<e>>
        /\ ended = [how |-> "open", evidence |-> None, reported |-> FALSE]
        /\ port = [first |-> <<>>, latest |-> <<>>, released |-> {}, stopped |-> FALSE,
                   failed |-> {}]
    BY <1>1 DEF SessionInit
  <1>4. /\ events \in Seq(Event) /\ DOMAIN events = {1} /\ events[1] = e
    BY <1>2, <1>3
  <1>5. DOMAIN role = {}
    BY <1>3
  <1>6. \A t : At(events, t) = IF t = "CONTROLLER_STARTED" THEN {1} ELSE {}
    BY <1>2, <1>4 DEF At
  <1>7. Work.role = role /\ Work.events = events /\ Work = [role |-> Work.role, events |-> Work.events]
    BY DEF Work
  <1>8. SoundWork(Work)
    <2>1. IsWork(Work)
      <3>1. role \in [DOMAIN role -> RoleRecord]
        BY <1>3, <1>5
      <3> QED
        BY <1>4, <1>5, <1>7, <3>1 DEF IsWork
    <2>2. Admitted(DOMAIN Work.role)
      BY <1>5, <1>7 DEF Admitted
    <2>3. \A i \in DOMAIN Work.events : "role" \notin DOMAIN Work.events[i]
      BY <1>2, <1>4, <1>7
    <2>4. At(Work.events, "CONTROLLER_STARTED") = {1}
      BY <1>6, <1>7
    <2> QED
      BY <1>5, <1>7, <2>1, <2>2, <2>3, <2>4 DEF SoundWork
  <1>9. Unharmed(events)
    BY <1>6 DEF Unharmed
  <1>10. InTurn(role) /\ AllRead(Work) /\ \A r \in DOMAIN role : Bracketed(role[r])
    BY <1>5, <1>7 DEF InTurn, AllRead
  <1>11. PortAgrees
    <2>1. /\ [r \in DOMAIN role |-> Head(role[r].samples)] = <<>>
          /\ [r \in DOMAIN role |-> Last(role[r].samples)] = <<>>
      BY <1>5
    <2>2. {r \in DOMAIN role : role[r].state = "RELEASED"} = {}
      BY <1>5
    <2> QED
      BY <1>3, <2>1, <2>2 DEF PortAgrees
  <1>12. Aggregate(Work) = 0
    BY <1>5, <1>7 DEF Aggregate, SumOf
  <1>13. OpenInv
    BY <1>8, <1>9, <1>10, <1>11, <1>12, EvidenceAssumption DEF OpenInv
  <1>14. /\ ended.how = "open"
         /\ ended = [how |-> ended.how, evidence |-> ended.evidence,
                     reported |-> ended.reported]
    BY <1>3
  <1>15. UsageIsAccounted
    <2>1. SumOf([r \in DOMAIN port.first |-> port.latest[r] - port.first[r]]) = 0
      BY <1>3 DEF SumOf
    <2> QED
      BY <1>14, <2>1, EvidenceAssumption DEF UsageIsAccounted, Candidate
  <1>16. ReaderAcceptsProducer /\ QuietExactlyWhenClaimed
    BY <1>14 DEF ReaderAcceptsProducer, QuietExactlyWhenClaimed, Candidate
  <1> QED
    BY <1>13, <1>14, <1>15, <1>16 DEF SessionInv

LEMMA SessionStepKeeps ==
  ASSUME SessionInv, [SessionNext]_sessionVars
  PROVE  SessionInv'
  <1>1. CASE \E r \in Roles : \E usage \in Usages : BindRole(r, usage)
    BY <1>1, BindRoleKeeps
  <1>2. CASE \E r \in Roles : MarkExecutionStarted(r)
    BY <1>2, MarkExecutionStartedKeeps
  <1>3. CASE \E r \in Roles : \E reading \in Readings : SampleRole(r, reading)
    BY <1>3, SampleRoleKeeps
  <1>4. CASE \E r \in Roles : \E reading \in Readings : MarkExecutionStopped(r, reading)
    BY <1>4, MarkExecutionStoppedKeeps
  <1>5. CASE \E r \in Roles : \E released \in BOOLEAN : MarkRoleReleased(r, released)
    BY <1>5, MarkRoleReleasedKeeps
  <1>6. CASE \E code \in Codes : RecordControllerFailure(code)
    BY <1>6, RecordControllerFailureKeeps
  <1>7. CASE FinalizeSuccess
    BY <1>7, FinalizeKeeps DEF FinalizeSuccess
  <1>8. CASE FinalizeNonCpuFailure
    BY <1>8, FinalizeKeeps DEF FinalizeNonCpuFailure
  <1>9. CASE Unrecordable
    BY <1>9, UnrecordableKeeps
  <1>10. CASE UNCHANGED sessionVars
    BY <1>10, StutteringKeeps
  <1> QED
    BY <1>1, <1>2, <1>3, <1>4, <1>5, <1>6, <1>7, <1>8, <1>9, <1>10 DEF SessionNext

LEMMA SessionInvHolds == SessionSpec => []SessionInv
  <1>1. SessionInit => SessionInv
    BY SessionStarts
  <1>2. SessionInv /\ [SessionNext]_sessionVars => SessionInv'
    BY SessionStepKeeps
  <1> QED
    BY <1>1, <1>2, PTL DEF SessionSpec

\* The reader accepts the evidence of every session, of any length, with any
\* readings and failures of the port; the two exceptions are failures that the
\* caller reports and that did not happen (#finishCandidate of the producer,
\* parseLiveLinuxCgroupCpuEvidenceV2).
THEOREM ReaderAcceptsTheProducer == SessionSpec => []ReaderAcceptsProducer
  <1>1. SessionInv => ReaderAcceptsProducer
    BY DEF SessionInv
  <1> QED
    BY <1>1, SessionInvHolds, PTL

\* Evidence claims a quiet end exactly when the port had said, of every role
\* ever bound and of the controller, that it was gone, and no action of the
\* containment failed (#containFailure, validateObservedFailure).
THEOREM QuietIsClaimedTruly == SessionSpec => []QuietExactlyWhenClaimed
  <1>1. SessionInv => QuietExactlyWhenClaimed
    BY DEF SessionInv
  <1> QED
    BY <1>1, SessionInvHolds, PTL

\* Evidence adds up what the port read first and last of every role, an open
\* session has not exceeded its budget, and a session within the budget has
\* read each role after its execution (#aggregateUsageUsec, markExecutionStopped).
THEOREM NoUsageIsLost == SessionSpec => []UsageIsAccounted
  <1>1. SessionInv => UsageIsAccounted
    BY DEF SessionInv
  <1> QED
    BY <1>1, SessionInvHolds, PTL
=============================================================================
