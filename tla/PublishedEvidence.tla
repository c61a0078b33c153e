------------------------- MODULE PublishedEvidence -------------------------
(* The download of the packages of EvidencePublisher, under the check of   *)
(* LiveEvidence: what the parameters of EvidenceDownload stand for.  Whole *)
(* tables are definitions of their own, so that they are computed once.    *)
EXTENDS EvidencePublisher, EvidenceDownload

PieceFiles ==
    [artifacts |-> PolicyFiles \cup ResultFiles, reports |-> SummaryFiles \cup ProofFiles,
     manifest |-> {"manifest"}]

(* Pieces with the same content have the name of one package.              *)
Content(name, piece) == [f \in PieceFiles[piece] |-> Packages[name][f]]
Published == UNION {ToSet(s.published) : s \in Scenarios}
SameContent ==
    [piece \in ToSet(Pieces) |-> [name \in Published |->
        CHOOSE other \in Published : Content(other, piece) = Content(name, piece)]]

FilesOf(pieces) ==
    [f \in RequiredEvidenceFiles |->
        Packages[pieces[CHOOSE piece \in ToSet(Pieces) : f \in PieceFiles[piece]]][f]]

(* When the check of what may be read would accept it.                     *)
Readable == UNION {[ToSet(Pieces) -> ToSet(s.published)] : s \in Scenarios}
Validity ==
    [pieces \in {[piece \in ToSet(Pieces) |-> SameContent[piece][r[piece]]] : r \in Readable} |->
        ValidTimes(FilesOf(pieces), 0..MaxTime)]

PackagePieces(name) ==
    LET same(piece) == SameContent[piece][name] IN [piece \in ToSet(Pieces) |-> same(piece)]
AcceptsPackage(pieces, time) == LET times == Validity[pieces] IN time \in times
IsLivePackage(pieces) ==
    LET manifest == Packages[pieces["manifest"]].manifest
    IN manifest.evidenceMode = "LIVE_VERIFIED"
PackageExpiry(pieces) ==
    LET manifest == Packages[pieces["manifest"]].manifest
    IN manifest.attestation[1].issuedAt + MaxAge
=============================================================================
