----------------------- MODULE VerifierExchangeProofs -----------------------
(***************************************************************************)
(* One result for a request, and results that stand on admitted receipts,  *)
(* for any processes, requests, clock readings, capacity and lifetimes.    *)
(*                                                                         *)
(* At most one process carries a request, and while one does, or once the  *)
(* request has its result, the store remembers the first attempt or its    *)
(* mark is past the request's expiry (Remembered).  A new first challenge  *)
(* needs a time that is not behind the mark and before the expiry, so a    *)
(* remembered request gets none.  Every transaction keeps what is          *)
(* remembered (Keeps): that is what pruning by request expiry is for.      *)
(***************************************************************************)
EXTENDS VerifierExchange, TLAPS

Carried(p, r) == held[p][r].stage \in {"ISSUED", "DELIVERED", "REVIEW", "RETRY"}

Remembered(r) ==
  Forgotten(r) \/ \E row \in store.rows : row.request = r /\ row.attempt = 1

FirstFailed(r) ==
  \E row \in store.rows :
    /\ row.request = r /\ row.attempt = 1
    /\ row.state = "CONSUMED" /\ row.verdict = "FAIL"

\* What the checks before a transaction found is still so inside it.
CallFits(p) ==
  /\ call[p].op = "ISSUE" =>
       /\ Active(call[p].request, call[p].at)
       /\ call[p].attempt = 1 => held[p][call[p].request].stage = "NONE"
       /\ call[p].attempt = 2 => held[p][call[p].request].stage = "RETRY"
  /\ call[p].op = "CONSUME" => held[p][call[p].request].stage = "DELIVERED"

CallsFit == \A p \in Process : CallFits(p)

OneCarrier ==
  \A r \in Request : \A p, q \in Process : Carried(p, r) /\ Carried(q, r) => p = q

CarriedIsOpen ==
  \A p \in Process, r \in Request :
    Carried(p, r) => outcomes[r] = <<>> /\ Remembered(r)

ResultIsRemembered == \A r \in Request : outcomes[r] # <<>> => Remembered(r)

HeldHasReceipt(p, r) ==
  LET h == held[p][r] IN
  /\ h.stage = "REVIEW" => HasReceipt(r, h.attempt, h.serial, "PASS") \/ Forgotten(r)
  /\ h.stage = "RETRY" => FirstFailed(r) \/ Forgotten(r)

HeldHaveReceipts == \A p \in Process, r \in Request : HeldHasReceipt(p, r)

IInv ==
  /\ ExchangeTypeOK /\ CallsFit
  /\ OneCarrier /\ CarriedIsOpen /\ ResultIsRemembered
  /\ HeldHaveReceipts
  /\ OneOutcomePerRequest /\ EvidenceStands

-----------------------------------------------------------------------------
(* The store                                                               *)

\* What a transaction may do to the store: move the mark on, and drop or change
\* rows of expired requests and open rows only.
Keeps ==
  /\ store'.highWater >= store.highWater
  /\ \A row \in store.rows : Expiry[row.request] > store'.highWater =>
       /\ row.state = "CONSUMED" => row \in store'.rows
       /\ \E new \in store'.rows :
            new.request = row.request /\ new.attempt = row.attempt

LEMMA KeepsRemembered ==
  ASSUME ExchangeTypeOK, ExchangeTypeOK', Keeps, NEW r \in Request
  PROVE  /\ Forgotten(r) => Forgotten(r)'
         /\ Remembered(r) => Remembered(r)'
         /\ FirstFailed(r) \/ Forgotten(r) => (FirstFailed(r) \/ Forgotten(r))'
         /\ \A a, n, v : HasReceipt(r, a, n, v) \/ Forgotten(r)
                           => HasReceipt(r, a, n, v)' \/ Forgotten(r)'
<1>1. /\ store.highWater \in Nat /\ store'.highWater \in Nat /\ Expiry[r] \in Nat
      /\ store'.highWater >= store.highWater
  BY ExpiryAssumption DEF ExchangeTypeOK, Store, Keeps
<1>2. Forgotten(r) => Forgotten(r)'
  BY <1>1 DEF Forgotten
<1>3. ~Forgotten(r)' => Expiry[r] > store'.highWater
  BY <1>1 DEF Forgotten
<1> QED
  BY <1>2, <1>3 DEF Keeps, Remembered, FirstFailed, HasReceipt, IsRowOf

LEMMA SameStoreKeeps == ASSUME ExchangeTypeOK, UNCHANGED store PROVE Keeps
  BY DEF Keeps, ExchangeTypeOK, Store

LEMMA IssueKeeps ==
  ASSUME ExchangeTypeOK, NEW r \in Request, NEW a \in Attempt, NEW n \in Nat,
         NEW t \in Time, store' = AfterIssue(store, r, a, n, t)
  PROVE  Keeps /\ store' \in Store
<1>1. /\ t \in Nat /\ store.highWater \in Nat /\ store.rows \subseteq Row
      /\ store \in Store
  BY TimeAssumption DEF ExchangeTypeOK, Store
<1>2. CASE ~InTime(store, t)
  BY <1>1, <1>2, SameStoreKeeps DEF AfterIssue
<1>3. CASE InTime(store, t)
  <2>1. store'.highWater = t /\ Kept(store, t) \subseteq store'.rows
    BY <1>3 DEF AfterIssue
  <2>2. NewRow(r, a, n, t) \in Row
    <3>1. ChallengeExpiry(r, t) \in Nat
      BY <1>1, ExpiryAssumption, BoundsAssumption DEF ChallengeExpiry, EarlierOf
    <3> QED
      BY <3>1 DEF NewRow, Row
  <2>3. store' \in Store
    BY <1>1, <1>3, <2>2 DEF AfterIssue, Kept, Store
  <2> QED
    BY <1>1, <1>3, <2>1, <2>3 DEF Keeps, InTime, Kept
<1> QED
  BY <1>2, <1>3

LEMMA ConsumeKeeps ==
  ASSUME ExchangeTypeOK, NEW r \in Request, NEW a \in Attempt, NEW n \in Nat,
         NEW v \in Verdict, NEW t \in Time, InTime(store, t),
         store' = AfterConsume(store, r, a, n, v, t)
  PROVE  /\ Keeps /\ store' \in Store
         /\ \A row \in store'.rows : \E old \in store.rows :
              old.request = row.request /\ old.attempt = row.attempt
         /\ \A row \in store.rows : row.state = "CONSUMED" => row \in store'.rows
<1>1. t \in Nat /\ store.highWater \in Nat /\ store.rows \subseteq Row
  BY TimeAssumption DEF ExchangeTypeOK, Store
<1> DEFINE Same(row) == IsRowOf(row, r, a, n) /\ Consumable(row, t)
           New(row) == [row EXCEPT !.state = "CONSUMED", !.verdict = v]
           f(row) == IF Same(row) THEN New(row) ELSE row
<1>2. store'.highWater = t /\ store'.rows = {f(row) : row \in store.rows}
  BY DEF AfterConsume
<1>3. \A row \in store.rows :
        /\ f(row) \in Row
        /\ f(row).request = row.request /\ f(row).attempt = row.attempt
        /\ row.state = "CONSUMED" => f(row) = row
  BY <1>1 DEF Row, Consumable
<1> HIDE DEF f
<1>4. store' \in Store
  <2>1. store'.rows \subseteq Row
    BY <1>2, <1>3
  <2> QED
    BY <1>1, <2>1 DEF AfterConsume, Store
<1>5. /\ \A row \in store'.rows : \E old \in store.rows :
           old.request = row.request /\ old.attempt = row.attempt
      /\ \A row \in store.rows : row.state = "CONSUMED" => row \in store'.rows
      /\ \A row \in store.rows : \E new \in store'.rows :
           new.request = row.request /\ new.attempt = row.attempt
  BY <1>2, <1>3
<1> QED
  BY <1>1, <1>2, <1>4, <1>5 DEF Keeps, InTime

LEMMA PoisonKeeps ==
  ASSUME ExchangeTypeOK, NEW r \in Request, NEW a \in Attempt, NEW n \in Nat,
         store' = AfterPoison(store, r, a, n)
  PROVE  /\ Keeps /\ store' \in Store
         /\ \A row \in store'.rows : \E old \in store.rows :
              old.request = row.request /\ old.attempt = row.attempt
         /\ \A row \in store.rows : row.state = "CONSUMED" => row \in store'.rows
<1>1. store.highWater \in Nat /\ store.rows \subseteq Row
  BY DEF ExchangeTypeOK, Store
<1> DEFINE Same(row) == IsRowOf(row, r, a, n) /\ row.state = "ISSUED"
           f(row) == IF Same(row) THEN [row EXCEPT !.state = "POISONED"] ELSE row
<1>2. store' = [rows |-> {f(row) : row \in store.rows}, highWater |-> store.highWater]
  BY DEF AfterPoison, ExchangeTypeOK, Store
<1>3. \A row \in store.rows :
        /\ f(row) \in Row
        /\ f(row).request = row.request /\ f(row).attempt = row.attempt
        /\ row.state = "CONSUMED" => f(row) = row
  BY <1>1 DEF Row
<1> HIDE DEF f
<1>4. store' \in Store
  <2>1. store'.rows \subseteq Row
    BY <1>2, <1>3
  <2> QED
    BY <1>1, <1>2, <2>1 DEF Store
<1>5. /\ \A row \in store'.rows : \E old \in store.rows :
           old.request = row.request /\ old.attempt = row.attempt
      /\ \A row \in store.rows : row.state = "CONSUMED" => row \in store'.rows
      /\ \A row \in store.rows : \E new \in store'.rows :
           new.request = row.request /\ new.attempt = row.attempt
  BY <1>2, <1>3
<1> QED
  BY SMTT(30), <1>1, <1>2, <1>4, <1>5 DEF Keeps

\* An update in place never loses the failed first attempt of a second one.
LEMMA UpdateKeepsRetries ==
  ASSUME RetriesFollowFailure,
         \A row \in store'.rows : \E old \in store.rows :
           old.request = row.request /\ old.attempt = row.attempt,
         \A row \in store.rows : row.state = "CONSUMED" => row \in store'.rows
  PROVE  RetriesFollowFailure'
  BY DEF RetriesFollowFailure

LEMMA PruningKeepsRetries ==
  ASSUME RetriesFollowFailure, NEW r \in Request, NEW a \in Attempt, NEW n \in Nat,
         NEW t \in Time, ~MayIssue(store, r, a, t),
         store' = AfterIssue(store, r, a, n, t)
  PROVE  RetriesFollowFailure'
<1>1. store'.rows = store.rows \/ store'.rows = Kept(store, t)
  BY DEF AfterIssue
<1>2. CASE store'.rows = store.rows
  BY <1>2 DEF RetriesFollowFailure
<1>3. CASE store'.rows = Kept(store, t)
  BY <1>3 DEF RetriesFollowFailure, Kept
<1> QED
  BY <1>1, <1>2, <1>3

-----------------------------------------------------------------------------
(* The types                                                               *)

LEMMA StageOfHeld ==
  ASSUME ExchangeTypeOK, NEW p \in Process, NEW r \in Request
  PROVE  /\ held[p][r] \in Holding
         /\ held[p][r].stage \in Stage /\ held[p][r].attempt \in Attempt
         /\ held[p][r].serial \in Nat /\ held[p][r].tree \in Tree
  BY DEF ExchangeTypeOK, Holding

LEMMA SetHeld ==
  ASSUME ExchangeTypeOK, NEW p \in Process, NEW r \in Request, NEW h \in Holding,
         held' = [held EXCEPT ![p][r] = h]
  PROVE  /\ held' \in [Process -> [Request -> Holding]]
         /\ held'[p][r] = h
         /\ \A q \in Process, x \in Request :
              q # p \/ x # r => held'[q][x] = held[q][x]
  BY DEF ExchangeTypeOK

LEMMA MoveHeld ==
  ASSUME ExchangeTypeOK, NEW p \in Process, NEW r \in Request, NEW stage \in Stage,
         Move(p, r, stage)
  PROVE  /\ held' \in [Process -> [Request -> Holding]]
         /\ held'[p][r] = [held[p][r] EXCEPT !.stage = stage]
         /\ \A q \in Process, x \in Request :
              q # p \/ x # r => held'[q][x] = held[q][x]
<1>1. [held[p][r] EXCEPT !.stage = stage] \in Holding
  BY StageOfHeld DEF Holding
<1>2. PICK h \in Holding : h = [held[p][r] EXCEPT !.stage = stage]
  BY <1>1
<1>3. held' = [held EXCEPT ![p][r] = h]
  BY <1>2 DEF Move
<1> QED
  BY ZenonT(40), <1>2, <1>3, SetHeld

LEMMA TreeHeld ==
  ASSUME ExchangeTypeOK, NEW p \in Process, NEW r \in Request, NEW tree \in Tree,
         SetTree(p, r, tree)
  PROVE  /\ held' \in [Process -> [Request -> Holding]]
         /\ held'[p][r] = [held[p][r] EXCEPT !.tree = tree]
         /\ \A q \in Process, x \in Request :
              q # p \/ x # r => held'[q][x] = held[q][x]
<1>1. [held[p][r] EXCEPT !.tree = tree] \in Holding
  BY StageOfHeld DEF Holding
<1>2. PICK h \in Holding : h = [held[p][r] EXCEPT !.tree = tree]
  BY <1>1
<1>3. held' = [held EXCEPT ![p][r] = h]
  BY <1>2 DEF SetTree
<1> QED
  BY ZenonT(40), <1>2, <1>3, SetHeld

LEMMA AskedCall ==
  ASSUME ExchangeTypeOK, NEW p \in Process, NEW c \in Call, Ask(p, c)
  PROVE  /\ call' \in [Process -> Call] /\ call'[p] = c
         /\ \A q \in Process \ {p} : call'[q] = call[q]
  BY DEF ExchangeTypeOK, Ask

LEMMA CallFields ==
  ASSUME ExchangeTypeOK, NEW p \in Process
  PROVE  /\ call[p] \in Call
         /\ call[p].op \in {"NONE", "ISSUE", "CONSUME", "POISON"}
         /\ call[p].op # "NONE" => call[p].request \in Request
         /\ call[p].op = "ISSUE" => call[p].attempt \in Attempt /\ call[p].at \in Time
         /\ call[p].op = "CONSUME" => call[p].verdict \in Verdict /\ call[p].at \in Time
         /\ call[p] = NoCall => call[p].op = "NONE"
<1>1. call[p] \in Call
  BY DEF ExchangeTypeOK
<1>2. CASE call[p] = NoCall
  BY <1>1, <1>2 DEF NoCall
<1>3. CASE call[p] \in [op: {"ISSUE"}, request: Request, attempt: Attempt, at: Time]
  BY <1>1, <1>3 DEF NoCall
<1>4. CASE call[p] \in [op: {"CONSUME"}, request: Request, verdict: Verdict, at: Time]
  BY <1>1, <1>4 DEF NoCall
<1>5. CASE call[p] \in [op: {"POISON"}, request: Request]
  BY <1>1, <1>5 DEF NoCall
<1> QED
  BY <1>1, <1>2, <1>3, <1>4, <1>5 DEF Call

LEMMA CallsAre ==
  /\ NoCall \in Call /\ NoCall.op = "NONE"
  /\ \A r \in Request, a \in Attempt, t \in Time :
       [op |-> "ISSUE", request |-> r, attempt |-> a, at |-> t] \in Call
  /\ \A r \in Request, v \in Verdict, t \in Time :
       [op |-> "CONSUME", request |-> r, verdict |-> v, at |-> t] \in Call
  /\ \A r \in Request : [op |-> "POISON", request |-> r] \in Call
  BY DEF Call, NoCall

-----------------------------------------------------------------------------
(* Steps that make no process carry more                                   *)

\* A bridge that carries a request no further than before, and holds the same
\* receipt if it holds one.
Fades(p, r) ==
  /\ Carried(p, r)' => Carried(p, r)
  /\ held'[p][r].stage \in {"REVIEW", "RETRY"} =>
       /\ held'[p][r].stage = held[p][r].stage
       /\ held'[p][r].attempt = held[p][r].attempt
       /\ held'[p][r].serial = held[p][r].serial

LEMMA FadingKeepsIInv ==
  ASSUME IInv, ExchangeTypeOK', Keeps, RetriesFollowFailure', CallsFit',
         outcomes' = outcomes, \A p \in Process, r \in Request : Fades(p, r)
  PROVE  IInv'
<1> USE DEF IInv
<1>1. OneCarrier'
  BY DEF OneCarrier, Fades
<1>2. CarriedIsOpen' /\ ResultIsRemembered'
  BY KeepsRemembered DEF CarriedIsOpen, ResultIsRemembered, Fades
<1>3. HeldHaveReceipts'
  <2> SUFFICES ASSUME NEW p \in Process, NEW r \in Request
               PROVE  HeldHasReceipt(p, r)'
    BY DEF HeldHaveReceipts
  <2>1. HeldHasReceipt(p, r) /\ Fades(p, r)
    BY DEF HeldHaveReceipts
  <2> QED
    BY <2>1, KeepsRemembered DEF HeldHasReceipt, Fades
<1>4. OneOutcomePerRequest'
  BY DEF OneOutcomePerRequest
<1>5. ResultsHaveReceipts'
  BY KeepsRemembered DEF EvidenceStands, ResultsHaveReceipts
<1> QED
  BY <1>1, <1>2, <1>3, <1>4, <1>5 DEF EvidenceStands

\* The same for steps that leave the store alone.
LEMMA FadingAlone ==
  ASSUME IInv, ExchangeTypeOK', CallsFit', UNCHANGED <<store, outcomes>>,
         \A p \in Process, r \in Request : Fades(p, r)
  PROVE  IInv'
<1>1. Keeps
  BY SameStoreKeeps DEF IInv
<1>2. RetriesFollowFailure'
  BY DEF IInv, EvidenceStands, RetriesFollowFailure
<1> QED
  BY <1>1, <1>2, FadingKeepsIInv

\* A call of one process, or a step of its bridge on one request, touches the
\* calls of no other.
LEMMA OthersFit ==
  ASSUME IInv, ExchangeTypeOK', NEW p \in Process, CallFits(p)',
         \A q \in Process \ {p} : call'[q] = call[q] /\ held'[q] = held[q]
  PROVE  CallsFit'
<1> SUFFICES ASSUME NEW q \in Process, q # p PROVE CallFits(q)'
  BY DEF CallsFit
<1>1. CallFits(q) /\ call'[q] = call[q] /\ held'[q] = held[q]
  BY DEF IInv, CallsFit
<1> QED
  BY <1>1 DEF CallFits, Active

LEMMA UntouchedFades ==
  ASSUME NEW p \in Process, NEW r \in Request, held'[p][r] = held[p][r]
  PROVE  Fades(p, r)
  BY DEF Fades, Carried

LEMMA SpentFades ==
  ASSUME ExchangeTypeOK, NEW p \in Process, NEW r \in Request, Spend(p, r)
  PROVE  /\ \A q \in Process, x \in Request : Fades(q, x)
         /\ held' \in [Process -> [Request -> Holding]]
         /\ held'[p][r].stage = "DEAD"
         /\ \A q \in Process \ {p} : held'[q] = held[q]
         /\ \A x \in Request \ {r} : held'[p][x] = held[p][x]
<1>1. "DEAD" \in Stage
  BY DEF Stage
<1>2. /\ held' \in [Process -> [Request -> Holding]]
      /\ held'[p][r] = [held[p][r] EXCEPT !.stage = "DEAD"]
      /\ \A q \in Process, x \in Request :
           q # p \/ x # r => held'[q][x] = held[q][x]
  BY <1>1, MoveHeld DEF Spend
<1>3. held'[p][r].stage = "DEAD"
  BY <1>2, StageOfHeld DEF Holding
<1>4. Fades(p, r)
  BY <1>3 DEF Fades, Carried
<1>5. \A q \in Process \ {p} : held'[q] = held[q]
  BY DEF Spend, Move, ExchangeTypeOK
<1> QED
  BY <1>2, <1>3, <1>4, <1>5, UntouchedFades

-----------------------------------------------------------------------------
(* Steps before and between the transactions                               *)

\* A call that begins leaves everything but call[p] alone.
LEMMA AskingKeeps ==
  ASSUME IInv, NEW p \in Process, NEW c \in Call, Ask(p, c), CallFits(p)',
         UNCHANGED <<store, issued, held, outcomes>>
  PROVE  IInv'
<1> USE DEF IInv
<1>1. /\ call' \in [Process -> Call]
      /\ \A q \in Process \ {p} : call'[q] = call[q]
  BY AskedCall
<1>2. ExchangeTypeOK'
  BY <1>1 DEF ExchangeTypeOK
<1>3. CallsFit'
  BY <1>1, <1>2, OthersFit
<1>4. \A q \in Process, x \in Request : Fades(q, x)
  BY UntouchedFades
<1> QED
  BY <1>2, <1>3, <1>4, FadingAlone

LEMMA BeginningKeeps ==
  ASSUME IInv, NEW p \in Process, NEW r \in Request, NEW t \in Time,
         \/ PrepareInitial(p, r, t) \/ PrepareRetry(p, r, t)
         \/ PresentReceipt(p, r, t)
  PROVE  IInv'
<1> USE DEF IInv
<1>1. CASE PrepareInitial(p, r, t)
  <2> DEFINE c == [op |-> "ISSUE", request |-> r, attempt |-> 1, at |-> t]
  <2>1. c \in Call /\ Ask(p, c) /\ call'[p] = c
    BY <1>1, CallsAre, AskedCall DEF PrepareInitial, Attempt
  <2>2. CallFits(p)'
    BY <1>1, <2>1 DEF PrepareInitial, CallFits, Active
  <2> QED
    BY <1>1, <2>1, <2>2, AskingKeeps DEF PrepareInitial
<1>2. CASE PrepareRetry(p, r, t)
  <2> DEFINE c == [op |-> "ISSUE", request |-> r, attempt |-> 2, at |-> t]
  <2>1. c \in Call /\ Ask(p, c) /\ call'[p] = c
    BY <1>2, CallsAre, AskedCall DEF PrepareRetry, Attempt
  <2>2. CallFits(p)'
    BY <1>2, <2>1 DEF PrepareRetry, MayRetry, CallFits, Active
  <2> QED
    BY <1>2, <2>1, <2>2, AskingKeeps DEF PrepareRetry
<1>3. CASE PresentReceipt(p, r, t)
  <2> DEFINE v == held[p][r].tree
             c == [op |-> "CONSUME", request |-> r, verdict |-> v, at |-> t]
  <2>1. c \in Call /\ Ask(p, c) /\ call'[p] = c
    BY <1>3, CallsAre, AskedCall DEF PresentReceipt
  <2>2. CallFits(p)'
    BY <1>3, <2>1 DEF PresentReceipt, CallFits
  <2> QED
    BY <1>3, <2>1, <2>2, AskingKeeps DEF PresentReceipt
<1> QED
  BY <1>1, <1>2, <1>3

\* A step that spends what p holds for a request.
LEMMA SpendingKeeps ==
  ASSUME IInv, NEW p \in Process, NEW r \in Request, NEW c \in Call,
         c.op \in {"NONE", "POISON"}, Spend(p, r), Ask(p, c),
         Keeps, store' \in Store, RetriesFollowFailure', UNCHANGED <<issued, outcomes>>
  PROVE  IInv'
<1> USE DEF IInv
<1>1. /\ call' \in [Process -> Call] /\ call'[p] = c
      /\ \A q \in Process \ {p} : call'[q] = call[q]
  BY AskedCall
<1>2. /\ held' \in [Process -> [Request -> Holding]]
      /\ \A q \in Process, x \in Request : Fades(q, x)
      /\ \A q \in Process \ {p} : held'[q] = held[q]
  BY SpentFades
<1>3. ExchangeTypeOK'
  BY <1>1, <1>2 DEF ExchangeTypeOK
<1>4. CallFits(p)'
  BY <1>1 DEF CallFits
<1>5. CallsFit'
  BY <1>1, <1>2, <1>3, <1>4, OthersFit
<1> QED
  BY <1>2, <1>3, <1>5, FadingKeepsIInv

LEMMA SpoilingKeeps ==
  ASSUME IInv, NEW p \in Process, NEW r \in Request,
         \/ SpoilRetry(p, r) \/ PresentEarly(p, r) \/ SpoilReview(p, r)
         \/ RejectReceipt(p, r)
  PROVE  IInv'
<1>1. Spend(p, r) /\ UNCHANGED <<store, issued, outcomes>> /\ Idle(p)
  BY DEF SpoilRetry, PresentEarly, SpoilReview, RejectReceipt
<1>2. Keeps /\ store' \in Store /\ RetriesFollowFailure'
  BY <1>1, SameStoreKeeps DEF IInv, ExchangeTypeOK, EvidenceStands, RetriesFollowFailure
<1>3. PICK c \in Call : c.op \in {"NONE", "POISON"} /\ Ask(p, c)
  <2>1. CASE RejectReceipt(p, r)
    BY <2>1, CallsAre DEF RejectReceipt
  <2>2. CASE UNCHANGED call
    BY <1>1, <2>2, CallsAre DEF Ask, Idle, IInv, ExchangeTypeOK
  <2> QED
    BY <2>1, <2>2 DEF SpoilRetry, PresentEarly, SpoilReview
<1> QED
  BY <1>1, <1>2, <1>3, SpendingKeeps

LEMMA CarryingOnKeeps ==
  ASSUME IInv, NEW p \in Process, NEW r \in Request,
         \/ TakeCapability(p, r) \/ ChangeTree(p, r)
         \/ \E v \in Verdict : RunVerifier(p, r, v)
  PROVE  IInv'
<1> USE DEF IInv
<1>1. UNCHANGED <<store, issued, call, outcomes>>
  BY DEF TakeCapability, ChangeTree, RunVerifier
<1>2. /\ held' \in [Process -> [Request -> Holding]]
      /\ \A q \in Process, x \in Request : q # p \/ x # r => held'[q][x] = held[q][x]
      /\ held'[p][r].attempt = held[p][r].attempt
      /\ held'[p][r].serial = held[p][r].serial
      /\ \/ held'[p][r].stage = held[p][r].stage
         \/ /\ held[p][r].stage = "ISSUED" /\ held'[p][r].stage = "DELIVERED"
            /\ Idle(p)
  <2>1. CASE TakeCapability(p, r)
    <3>1. "DELIVERED" \in Stage
      BY DEF Stage
    <3>2. /\ held' \in [Process -> [Request -> Holding]]
          /\ held'[p][r] = [held[p][r] EXCEPT !.stage = "DELIVERED"]
          /\ \A q \in Process, x \in Request :
               q # p \/ x # r => held'[q][x] = held[q][x]
      BY <2>1, <3>1, MoveHeld DEF TakeCapability
    <3>3. /\ held'[p][r].stage = "DELIVERED"
          /\ held'[p][r].attempt = held[p][r].attempt
          /\ held'[p][r].serial = held[p][r].serial
      BY <3>2, StageOfHeld DEF Holding
    <3> QED
      BY <2>1, <3>2, <3>3 DEF TakeCapability
  <2>2. CASE ChangeTree(p, r) \/ \E v \in Verdict : RunVerifier(p, r, v)
    <3>1. PICK tree \in Tree : SetTree(p, r, tree)
      BY <2>2 DEF ChangeTree, RunVerifier, Tree, Verdict
    <3>2. /\ held' \in [Process -> [Request -> Holding]]
          /\ held'[p][r] = [held[p][r] EXCEPT !.tree = tree]
          /\ \A q \in Process, x \in Request :
               q # p \/ x # r => held'[q][x] = held[q][x]
      BY <3>1, TreeHeld
    <3>3. /\ held'[p][r].stage = held[p][r].stage
          /\ held'[p][r].attempt = held[p][r].attempt
          /\ held'[p][r].serial = held[p][r].serial
      BY <3>2, StageOfHeld DEF Holding
    <3> QED
      BY <3>2, <3>3
  <2> QED
    BY <2>1, <2>2
<1>3. ExchangeTypeOK'
  BY <1>1, <1>2 DEF ExchangeTypeOK
<1>4. \A q \in Process, x \in Request : Fades(q, x)
  <2>1. Fades(p, r)
    BY <1>2 DEF Fades, Carried
  <2> QED
    BY <1>2, <2>1, UntouchedFades
<1>5. CallsFit'
  <2> SUFFICES ASSUME NEW q \in Process PROVE CallFits(q)'
    BY DEF CallsFit
  <2>1. CallFits(q) /\ call'[q] = call[q]
    BY <1>1 DEF CallsFit
  <2>2. call[q].op \in {"ISSUE", "CONSUME"} => call[q].request \in Request
    BY CallFields
  <2>3. call[q].op \in {"ISSUE", "CONSUME"} =>
          held'[q][call[q].request].stage = held[q][call[q].request].stage
    BY <1>2, <2>2, CallFields DEF Idle
  <2> QED
    BY <2>1, <2>3 DEF CallFits, Active
<1> QED
  BY <1>1, <1>3, <1>4, <1>5, FadingAlone

LEMMA CrashKeeps ==
  ASSUME IInv, NEW p \in Process, Crash(p)
  PROVE  IInv'
<1> USE DEF IInv
<1>1. /\ call' \in [Process -> Call] /\ call'[p] = NoCall
      /\ \A q \in Process \ {p} : call'[q] = call[q]
  BY CallsAre, AskedCall DEF Crash
<1>2. Nothing \in Holding /\ Nothing.stage = "NONE"
  BY DEF Nothing, Holding, Stage, Attempt, Tree
<1>3. /\ held' \in [Process -> [Request -> Holding]]
      /\ \A x \in Request : held'[p][x].stage = "NONE"
      /\ \A q \in Process \ {p} : held'[q] = held[q]
  BY <1>2 DEF Crash, ExchangeTypeOK
<1>4. ExchangeTypeOK'
  BY <1>1, <1>3 DEF ExchangeTypeOK, Crash
<1>5. \A q \in Process, x \in Request : Fades(q, x)
  BY <1>3 DEF Fades, Carried
<1>6. CallFits(p)'
  BY <1>1, CallsAre DEF CallFits
<1>7. CallsFit'
  BY <1>1, <1>3, <1>4, <1>6, OthersFit
<1> QED
  BY <1>4, <1>5, <1>7, FadingAlone DEF Crash

-----------------------------------------------------------------------------
(* Transactions that admit nothing                                         *)

\* A transaction after which the bridge goes on with what it held.
LEMMA ReturningKeeps ==
  ASSUME IInv, NEW p \in Process, Ask(p, NoCall), Keeps, store' \in Store,
         RetriesFollowFailure', UNCHANGED <<issued, held, outcomes>>
  PROVE  IInv'
<1> USE DEF IInv
<1>1. /\ call' \in [Process -> Call] /\ call'[p] = NoCall
      /\ \A q \in Process \ {p} : call'[q] = call[q]
  BY CallsAre, AskedCall
<1>2. ExchangeTypeOK'
  BY <1>1 DEF ExchangeTypeOK
<1>3. CallFits(p)'
  BY <1>1, CallsAre DEF CallFits
<1>4. CallsFit'
  BY <1>1, <1>2, <1>3, OthersFit
<1>5. \A q \in Process, x \in Request : Fades(q, x)
  BY UntouchedFades
<1> QED
  BY <1>2, <1>4, <1>5, FadingKeepsIInv

LEMMA FailedIssueKeeps ==
  ASSUME IInv, NEW p \in Process, call[p].op = "ISSUE", FailIssue(p), Ask(p, NoCall),
         Keeps, store' \in Store, RetriesFollowFailure', UNCHANGED <<issued, outcomes>>
  PROVE  IInv'
<1>1. call[p].request \in Request
  BY CallFields DEF IInv
<1>2. CASE call[p].attempt = 2
  BY <1>1, <1>2, CallsAre, SpendingKeeps DEF FailIssue
<1>3. CASE call[p].attempt # 2
  BY <1>3, ReturningKeeps DEF FailIssue
<1> QED
  BY <1>2, <1>3

LEMMA RefusalKeeps ==
  ASSUME IInv, NEW p \in Process,
         RefuseIssue(p) \/ RefuseConsume(p) \/ Poison(p) \/ StorageFails(p)
  PROVE  IInv'
<1> USE DEF IInv
<1>1. CASE RefuseIssue(p)
  <2>1. PICK c : c = call[p]
    OBVIOUS
  <2>2. /\ c.request \in Request /\ c.attempt \in Attempt /\ c.at \in Time
        /\ store' = AfterIssue(store, c.request, c.attempt, 0, c.at)
        /\ ~MayIssue(store, c.request, c.attempt, c.at)
    BY <1>1, <2>1, CallFields DEF RefuseIssue
  <2>3. Keeps /\ store' \in Store
    BY <2>2, IssueKeeps
  <2>4. RetriesFollowFailure'
    BY <2>2, PruningKeepsRetries DEF EvidenceStands
  <2> QED
    BY <1>1, <2>3, <2>4, FailedIssueKeeps DEF RefuseIssue
<1>2. CASE RefuseConsume(p)
  <2>1. call[p].request \in Request /\ call[p].at \in Time
    BY <1>2, CallFields DEF RefuseConsume
  <2>2. /\ store' \in Store /\ store'.rows = store.rows
        /\ store'.highWater >= store.highWater
    <3>1. call[p].at \in Nat /\ store.highWater \in Nat /\ store \in Store
      BY <2>1, TimeAssumption DEF ExchangeTypeOK, Store
    <3>2. store' = AfterRefusedConsume(store, call[p].at)
      BY <1>2 DEF RefuseConsume
    <3>3. CASE InTime(store, call[p].at)
      BY <3>1, <3>2, <3>3 DEF AfterRefusedConsume, InTime, Store
    <3>4. CASE ~InTime(store, call[p].at)
      BY <3>1, <3>2, <3>4 DEF AfterRefusedConsume
    <3> QED
      BY <3>3, <3>4
  <2>3. Keeps /\ RetriesFollowFailure'
    BY <2>2 DEF Keeps, EvidenceStands, RetriesFollowFailure
  <2> QED
    BY <1>2, <2>1, <2>2, <2>3, CallsAre, SpendingKeeps DEF RefuseConsume
<1>3. CASE Poison(p)
  <2>1. PICK r \in Request : r = call[p].request
    BY <1>3, CallFields DEF Poison
  <2>2. /\ held[p][r].attempt \in Attempt /\ held[p][r].serial \in Nat
        /\ store' = AfterPoison(store, r, held[p][r].attempt, held[p][r].serial)
    BY <1>3, <2>1, StageOfHeld DEF Poison
  <2>3. Keeps /\ store' \in Store /\ RetriesFollowFailure'
    BY <2>2, PoisonKeeps, UpdateKeepsRetries DEF EvidenceStands
  <2> QED
    BY <1>3, <2>3, ReturningKeeps DEF Poison
<1>4. CASE StorageFails(p)
  <2>1. Keeps /\ store' \in Store /\ RetriesFollowFailure'
    BY <1>4, SameStoreKeeps DEF StorageFails, ExchangeTypeOK, EvidenceStands, RetriesFollowFailure
  <2>2. CASE call[p].op = "ISSUE" /\ FailIssue(p) /\ Ask(p, NoCall)
    BY <1>4, <2>1, <2>2, FailedIssueKeeps DEF StorageFails
  <2>3. CASE /\ call[p].op = "CONSUME"
             /\ Spend(p, call[p].request)
             /\ Ask(p, [op |-> "POISON", request |-> call[p].request])
    BY <1>4, <2>1, <2>3, CallFields, CallsAre, SpendingKeeps DEF StorageFails
  <2>4. CASE call[p].op = "POISON" /\ Ask(p, NoCall) /\ UNCHANGED held
    BY <1>4, <2>1, <2>4, ReturningKeeps DEF StorageFails
  <2> QED
    BY <1>4, <2>2, <2>3, <2>4 DEF StorageFails
<1> QED
  BY <1>1, <1>2, <1>3, <1>4

-----------------------------------------------------------------------------
(* Challenges                                                              *)

\* A first challenge is issued for a request nobody carries and nobody was
\* answered: it would be remembered.
LEMMA NewIsUnknown ==
  ASSUME IInv, NEW r \in Request, NEW t \in Time, MayIssue(store, r, 1, t), Active(r, t)
  PROVE  /\ \A q \in Process : ~Carried(q, r)
         /\ outcomes[r] = <<>>
<1>1. t \in Nat /\ store.highWater \in Nat /\ Expiry[r] \in Nat
  BY TimeAssumption, ExpiryAssumption DEF IInv, ExchangeTypeOK, Store
<1>2. ~Forgotten(r)
  BY <1>1 DEF Forgotten, MayIssue, InTime, Active
<1>3. \A row \in store.rows : ~(row.request = r /\ row.attempt = 1)
  BY <1>1 DEF MayIssue, Kept, Active
<1>4. ~Remembered(r)
  BY <1>2, <1>3 DEF Remembered
<1> QED
  BY <1>4 DEF IInv, CarriedIsOpen, ResultIsRemembered

LEMMA IssueKeepsIInv ==
  ASSUME IInv, NEW p \in Process, Issue(p)
  PROVE  IInv'
<1> USE DEF IInv
<1>1. PICK r \in Request, a \in Attempt, t \in Time :
        r = call[p].request /\ a = call[p].attempt /\ t = call[p].at
  BY CallFields DEF Issue
<1>2. PICK n \in Nat : n = NextSerial(r, a)
  BY DEF NextSerial, ExchangeTypeOK
<1> DEFINE h == [stage |-> "ISSUED", attempt |-> a, serial |-> n, tree |-> "SEALED"]
<1>3. /\ MayIssue(store, r, a, t)
      /\ store' = AfterIssue(store, r, a, n, t)
      /\ issued' = [issued EXCEPT ![<<r, a>>] = n]
      /\ held' = [held EXCEPT ![p][r] = h]
      /\ Ask(p, NoCall) /\ outcomes' = outcomes
  BY <1>1, <1>2 DEF Issue, Hold
<1>4. Active(r, t) /\ (a = 1 \/ held[p][r].stage = "RETRY")
  BY <1>1 DEF Issue, CallsFit, CallFits, Attempt
<1>5. Keeps /\ store' \in Store
  BY <1>3, IssueKeeps
<1>6. store'.rows = Kept(store, t) \cup {NewRow(r, a, n, t)}
  BY <1>3 DEF AfterIssue, MayIssue
<1>7. /\ held' \in [Process -> [Request -> Holding]] /\ held'[p][r] = h
      /\ \A q \in Process, x \in Request : q # p \/ x # r => held'[q][x] = held[q][x]
      /\ \A q \in Process \ {p} : held'[q] = held[q]
  <2>1. h \in Holding
    BY DEF Holding, Stage, Tree
  <2> HIDE DEF h
  <2> QED
    BY <1>3, <2>1 DEF ExchangeTypeOK
<1>8. /\ call' \in [Process -> Call] /\ call'[p] = NoCall
      /\ \A q \in Process \ {p} : call'[q] = call[q]
  BY <1>3, CallsAre, AskedCall
<1>9. ExchangeTypeOK'
  BY <1>3, <1>5, <1>7, <1>8 DEF ExchangeTypeOK
<1>10. CallsFit'
  BY <1>7, <1>8, <1>9, CallsAre, OthersFit DEF CallFits
\* Nobody else carries the request, and it has no result.
<1>11. /\ \A q \in Process \ {p} : ~Carried(q, r)
       /\ outcomes[r] = <<>>
  <2>1. CASE a = 1
    BY <1>3, <1>4, <2>1, NewIsUnknown
  <2>2. CASE held[p][r].stage = "RETRY"
    BY <2>2 DEF Carried, OneCarrier, CarriedIsOpen
  <2> QED
    BY <1>4, <2>1, <2>2
<1>12. Remembered(r)'
  <2>1. CASE a = 1
    <3>1. NewRow(r, a, n, t).request = r /\ NewRow(r, a, n, t).attempt = 1
      BY <2>1 DEF NewRow
    <3>2. \E row \in store'.rows : row.request = r /\ row.attempt = 1
      BY <1>6, <3>1
    <3> QED
      BY <3>2 DEF Remembered
  <2>2. CASE held[p][r].stage = "RETRY"
    BY <1>5, <1>9, <2>2, KeepsRemembered DEF Carried, CarriedIsOpen
  <2> QED
    BY <1>4, <2>1, <2>2
<1>13. \A q \in Process, x \in Request :
         q # p \/ x # r => (Carried(q, x)' <=> Carried(q, x))
  BY <1>7 DEF Carried
<1>14. OneCarrier'
  BY <1>11, <1>13 DEF OneCarrier
<1>15. CarriedIsOpen' /\ ResultIsRemembered'
  BY <1>3, <1>5, <1>9, <1>11, <1>12, <1>13, KeepsRemembered
     DEF CarriedIsOpen, ResultIsRemembered
<1>16. HeldHaveReceipts'
  <2> SUFFICES ASSUME NEW q \in Process, NEW x \in Request
               PROVE  HeldHasReceipt(q, x)'
    BY DEF HeldHaveReceipts
  <2>1. CASE q = p /\ x = r
    BY <1>7, <2>1 DEF HeldHasReceipt
  <2>2. CASE q # p \/ x # r
    <3>1. HeldHasReceipt(q, x) /\ held'[q][x] = held[q][x]
      BY <1>7, <2>2 DEF HeldHaveReceipts
    <3> QED
      BY <1>5, <1>9, <3>1, KeepsRemembered DEF HeldHasReceipt
  <2> QED
    BY <2>1, <2>2
<1>17. RetriesFollowFailure'
  <2>1. a = 2 => \E first \in Kept(store, t) :
          /\ first.request = r /\ first.attempt = 1
          /\ first.state = "CONSUMED" /\ first.verdict = "FAIL"
    <3> SUFFICES ASSUME a = 2
                 PROVE  \E first \in Kept(store, t) :
                          /\ first.request = r /\ first.attempt = 1
                          /\ first.state = "CONSUMED" /\ first.verdict = "FAIL"
      OBVIOUS
    <3>1. FirstFailed(r) \/ Forgotten(r)
      BY <1>4 DEF HeldHaveReceipts, HeldHasReceipt
    <3>2. t \in Nat /\ store.highWater \in Nat /\ Expiry[r] \in Nat
      BY TimeAssumption, ExpiryAssumption DEF ExchangeTypeOK, Store
    <3>3. ~Forgotten(r)
      BY <1>3, <1>4, <3>2 DEF Forgotten, MayIssue, InTime, Active
    <3> QED
      BY <1>4, <3>1, <3>2, <3>3 DEF FirstFailed, Kept, Active
  <2>2. NewRow(r, a, n, t).request = r /\ NewRow(r, a, n, t).attempt = a
    BY DEF NewRow
  <2>3. \A row \in Kept(store, t) : row.attempt = 2 =>
          \E first \in Kept(store, t) :
            /\ first.request = row.request /\ first.attempt = 1
            /\ first.state = "CONSUMED" /\ first.verdict = "FAIL"
    BY DEF EvidenceStands, RetriesFollowFailure, Kept
  <2> QED
    BY <1>6, <2>1, <2>2, <2>3 DEF RetriesFollowFailure
<1>18. ResultsHaveReceipts'
  BY <1>3, <1>5, <1>9, KeepsRemembered DEF EvidenceStands, ResultsHaveReceipts
<1>19. OneOutcomePerRequest'
  BY <1>3 DEF OneOutcomePerRequest
<1> QED
  BY <1>9, <1>10, <1>14, <1>15, <1>16, <1>17, <1>18, <1>19 DEF EvidenceStands

-----------------------------------------------------------------------------
(* Receipts and results                                                    *)

\* A request that is carried is given its first and only result.
LEMMA ResultKeeps ==
  ASSUME IInv, NEW p \in Process, NEW r \in Request,
         NEW result \in {"VERIFIER_FAILED", "APPROVED", "BLOCKED"},
         NEW a, a = held[p][r].attempt, NEW n, n = held[p][r].serial,
         NEW v, v = (IF result = "VERIFIER_FAILED" THEN "FAIL" ELSE "PASS"),
         Carried(p, r), Return(p, r, result), Spend(p, r), Ask(p, NoCall), UNCHANGED issued,
         Keeps, store' \in Store, RetriesFollowFailure',
         v = "PASS" => held[p][r].tree = "PASS",
         HasReceipt(r, a, n, v)' \/ Forgotten(r)'
  PROVE  IInv'
<1> USE DEF IInv
<1> DEFINE o == [result |-> result, attempt |-> held[p][r].attempt,
                 serial |-> held[p][r].serial, tree |-> held[p][r].tree]
<1>1. outcomes[r] = <<>> /\ Remembered(r)
  BY DEF CarriedIsOpen
<1>2. o \in Outcome
  BY StageOfHeld DEF Outcome
<1>3. /\ o.result = result /\ o.attempt = held[p][r].attempt
      /\ o.serial = held[p][r].serial /\ o.tree = held[p][r].tree
  OBVIOUS
<1>4. /\ outcomes' = [outcomes EXCEPT ![r] = Append(outcomes[r], o)]
      /\ Append(outcomes[r], o) = <<o>>
  BY <1>1 DEF Return
<1> HIDE DEF o
<1>5. /\ outcomes' \in [Request -> Seq(Outcome)]
      /\ outcomes'[r] = <<o>>
      /\ \A x \in Request \ {r} : outcomes'[x] = outcomes[x]
  BY <1>2, <1>4 DEF ExchangeTypeOK
<1>6. /\ call' \in [Process -> Call] /\ call'[p] = NoCall
      /\ \A q \in Process \ {p} : call'[q] = call[q]
  BY CallsAre, AskedCall
<1>7. /\ held' \in [Process -> [Request -> Holding]]
      /\ held'[p][r].stage = "DEAD"
      /\ \A q \in Process, x \in Request : Fades(q, x)
      /\ \A q \in Process \ {p} : held'[q] = held[q]
  BY SpentFades
<1>8. ExchangeTypeOK'
  BY <1>5, <1>6, <1>7 DEF ExchangeTypeOK
<1>9. CallsFit'
  BY <1>6, <1>7, <1>8, CallsAre, OthersFit DEF CallFits
<1>10. \A q \in Process : ~Carried(q, r)'
  BY <1>7 DEF Fades, OneCarrier, Carried
<1>11. OneCarrier'
  BY <1>7 DEF OneCarrier, Fades
<1>12. CarriedIsOpen' /\ ResultIsRemembered'
  BY <1>1, <1>5, <1>7, <1>8, <1>10, KeepsRemembered
     DEF CarriedIsOpen, ResultIsRemembered, Fades
<1>13. HeldHaveReceipts'
  <2> SUFFICES ASSUME NEW q \in Process, NEW x \in Request
               PROVE  HeldHasReceipt(q, x)'
    BY DEF HeldHaveReceipts
  <2>1. HeldHasReceipt(q, x) /\ Fades(q, x)
    BY <1>7 DEF HeldHaveReceipts
  <2> QED
    BY <1>8, <2>1, KeepsRemembered DEF HeldHasReceipt, Fades
<1>14. OneOutcomePerRequest'
  <2> SUFFICES ASSUME NEW x \in Request PROVE Len(outcomes'[x]) <= 1
    BY DEF OneOutcomePerRequest
  <2>1. CASE x = r
    <3>1. outcomes'[x] = <<o>>
      BY <1>5, <2>1
    <3>2. \A u : Len(<<u>>) <= 1
      OBVIOUS
    <3> QED
      BY <3>1, <3>2, Zenon
  <2>2. CASE x # r
    BY <1>5, <2>2 DEF OneOutcomePerRequest
  <2> QED
    BY <2>1, <2>2
<1>15. ResultsHaveReceipts'
  <2> DEFINE Stands(x, i) ==
        LET u == outcomes[x][i]
            w == IF u.result = "VERIFIER_FAILED" THEN "FAIL" ELSE "PASS" IN
        /\ w = "PASS" => u.tree = "PASS"
        /\ HasReceipt(x, u.attempt, u.serial, w) \/ Forgotten(x)
  <2> SUFFICES ASSUME NEW x \in Request, NEW i \in DOMAIN outcomes'[x]
               PROVE  Stands(x, i)'
    BY DEF ResultsHaveReceipts
  <2>1. CASE x = r
    <3>1. outcomes'[x] = <<o>> /\ i = 1
      BY <1>5, <2>1
    <3>2. /\ outcomes'[x][i].result = result /\ outcomes'[x][i].tree = held[p][r].tree
          /\ outcomes'[x][i].attempt = a /\ outcomes'[x][i].serial = n
      BY <1>3, <3>1
    <3>3. /\ v = "PASS" => outcomes'[x][i].tree = "PASS"
          /\ v = (IF outcomes'[x][i].result = "VERIFIER_FAILED" THEN "FAIL" ELSE "PASS")
      BY <3>2
    <3>4. \/ \E row \in store'.rows :
               /\ IsRowOf(row, x, outcomes'[x][i].attempt, outcomes'[x][i].serial)
               /\ row.state = "CONSUMED" /\ row.verdict = v
          \/ Forgotten(x)'
      BY <2>1, <3>2 DEF HasReceipt
    <3> QED
      BY <3>3, <3>4 DEF HasReceipt
  <2>2. CASE x # r
    <3>1. outcomes'[x] = outcomes[x] /\ Stands(x, i)
      BY <1>5, <2>2 DEF EvidenceStands, ResultsHaveReceipts
    <3> QED
      BY <1>8, <3>1, KeepsRemembered
  <2> QED
    BY <2>1, <2>2
<1> QED
  BY <1>8, <1>9, <1>11, <1>12, <1>13, <1>14, <1>15 DEF EvidenceStands

\* An admitted receipt turns what is carried into a review or a retry.
LEMMA TurnKeeps ==
  ASSUME IInv, NEW p \in Process, NEW r \in Request, NEW stage \in {"REVIEW", "RETRY"},
         Carried(p, r), Move(p, r, stage), Ask(p, NoCall), UNCHANGED <<issued, outcomes>>,
         Keeps, store' \in Store, RetriesFollowFailure',
         NEW a, a = held[p][r].attempt, NEW n, n = held[p][r].serial,
         stage = "REVIEW" => HasReceipt(r, a, n, "PASS")',
         stage = "RETRY" => FirstFailed(r)'
  PROVE  IInv'
<1> USE DEF IInv
<1>1. /\ call' \in [Process -> Call] /\ call'[p] = NoCall
      /\ \A q \in Process \ {p} : call'[q] = call[q]
  BY CallsAre, AskedCall
<1>2. /\ held' \in [Process -> [Request -> Holding]]
      /\ held'[p][r] = [held[p][r] EXCEPT !.stage = stage]
      /\ \A q \in Process, x \in Request : q # p \/ x # r => held'[q][x] = held[q][x]
      /\ \A q \in Process \ {p} : held'[q] = held[q]
  <2>1. stage \in Stage
    BY DEF Stage
  <2>2. \A q \in Process \ {p} : held'[q] = held[q]
    BY DEF Move, ExchangeTypeOK
  <2> QED
    BY <2>1, <2>2, MoveHeld
<1>3. /\ held'[p][r].stage = stage
      /\ held'[p][r].attempt = a /\ held'[p][r].serial = n
  BY <1>2, StageOfHeld DEF Holding
<1>4. ExchangeTypeOK'
  BY <1>1, <1>2 DEF ExchangeTypeOK
<1>5. CallsFit'
  BY <1>1, <1>2, <1>4, CallsAre, OthersFit DEF CallFits
<1>6. \A q \in Process, x \in Request : Carried(q, x)' => Carried(q, x)
  BY <1>2, <1>3 DEF Carried
<1>7. OneCarrier'
  BY <1>6 DEF OneCarrier
<1>8. CarriedIsOpen' /\ ResultIsRemembered'
  BY <1>4, <1>6, KeepsRemembered DEF CarriedIsOpen, ResultIsRemembered
<1>9. HeldHaveReceipts'
  <2> SUFFICES ASSUME NEW q \in Process, NEW x \in Request
               PROVE  HeldHasReceipt(q, x)'
    BY DEF HeldHaveReceipts
  <2>1. CASE q = p /\ x = r
    BY <1>3, <2>1 DEF HeldHasReceipt
  <2>2. CASE q # p \/ x # r
    <3>1. HeldHasReceipt(q, x) /\ held'[q][x] = held[q][x]
      BY <1>2, <2>2 DEF HeldHaveReceipts
    <3> QED
      BY <1>4, <3>1, KeepsRemembered DEF HeldHasReceipt
  <2> QED
    BY <2>1, <2>2
<1>10. OneOutcomePerRequest'
  BY DEF OneOutcomePerRequest
<1>11. ResultsHaveReceipts'
  BY <1>4, KeepsRemembered DEF EvidenceStands, ResultsHaveReceipts
<1> QED
  BY <1>4, <1>5, <1>7, <1>8, <1>9, <1>10, <1>11 DEF EvidenceStands

LEMMA ConsumeKeepsIInv ==
  ASSUME IInv, NEW p \in Process, Consume(p)
  PROVE  IInv'
<1> USE DEF IInv
<1>1. PICK r \in Request, v \in Verdict, t \in Time :
        r = call[p].request /\ v = call[p].verdict /\ t = call[p].at
  BY CallFields DEF Consume
<1>2. PICK a \in Attempt, n \in Nat : a = held[p][r].attempt /\ n = held[p][r].serial
  BY StageOfHeld
<1>3. /\ MayConsume(store, r, a, n, t)
      /\ store' = AfterConsume(store, r, a, n, v, t)
      /\ Admitted(p, r, v) \/ (Spend(p, r) /\ UNCHANGED outcomes)
      /\ Ask(p, NoCall) /\ UNCHANGED issued
  BY <1>1, <1>2 DEF Consume
<1>4. Carried(p, r)
  BY <1>1 DEF Consume, CallsFit, CallFits, Carried
<1>5. /\ Keeps /\ store' \in Store /\ RetriesFollowFailure'
  BY <1>2, <1>3, ConsumeKeeps, UpdateKeepsRetries DEF MayConsume, EvidenceStands
<1>6. HasReceipt(r, a, n, v)'
  <2>1. PICK row \in store.rows : IsRowOf(row, r, a, n) /\ Consumable(row, t)
    BY <1>3 DEF MayConsume
  <2> DEFINE new == [row EXCEPT !.state = "CONSUMED", !.verdict = v]
  <2>2. row \in Row
    BY DEF ExchangeTypeOK, Store
  <2>3. /\ IsRowOf(new, r, a, n) /\ new.state = "CONSUMED" /\ new.verdict = v
    BY <2>1, <2>2 DEF IsRowOf, Row
  <2>4. new \in store'.rows
    BY <1>3, <2>1 DEF AfterConsume
  <2>5. \E x \in store'.rows :
          IsRowOf(x, r, a, n) /\ x.state = "CONSUMED" /\ x.verdict = v
    BY <2>3, <2>4
  <2> QED
    BY <2>5 DEF HasReceipt
<1>7. CASE Spend(p, r) /\ UNCHANGED outcomes
  BY <1>3, <1>5, <1>7, CallsAre, SpendingKeeps
<1>8. CASE Admitted(p, r, v)
  <2>1. CASE v = "FAIL" /\ a = 2
    <3>1. Spend(p, r) /\ Return(p, r, "VERIFIER_FAILED")
      BY <1>2, <1>8, <2>1 DEF Admitted, Spend
    <3> QED
      BY <1>2, <1>3, <1>4, <1>5, <1>6, <2>1, <3>1, ResultKeeps
  <2>2. CASE v = "PASS"
    <3>1. Move(p, r, "REVIEW") /\ UNCHANGED outcomes
      BY <1>8, <2>2 DEF Admitted
    <3> QED
      BY <1>2, <1>3, <1>4, <1>5, <1>6, <2>2, <3>1, TurnKeeps
  <2>3. CASE v = "FAIL" /\ a = 1
    <3>1. Move(p, r, "RETRY") /\ UNCHANGED outcomes
      BY <1>2, <1>8, <2>3 DEF Admitted
    <3>2. FirstFailed(r)'
      BY <1>6, <2>3 DEF HasReceipt, FirstFailed, IsRowOf
    <3> QED
      BY <1>2, <1>3, <1>4, <1>5, <3>1, <3>2, TurnKeeps
  <2> QED
    BY <1>2, <2>1, <2>2, <2>3 DEF Attempt, Verdict
<1> QED
  BY <1>3, <1>7, <1>8

LEMMA BindReviewKeeps ==
  ASSUME IInv, NEW p \in Process, NEW r \in Request, NEW t \in Time,
         NEW result \in {"APPROVED", "BLOCKED"}, BindReview(p, r, t, result)
  PROVE  IInv'
<1> USE DEF IInv
<1>1. /\ held[p][r].stage = "REVIEW" /\ held[p][r].tree = "PASS"
      /\ Return(p, r, result) /\ Spend(p, r) /\ UNCHANGED <<store, issued>>
      /\ Ask(p, NoCall)
  BY DEF BindReview, MayReview, Idle, Ask, ExchangeTypeOK
<1>2. Carried(p, r)
  BY <1>1 DEF Carried
<1>3. Keeps /\ store' \in Store /\ RetriesFollowFailure'
  BY <1>1, SameStoreKeeps DEF ExchangeTypeOK, EvidenceStands, RetriesFollowFailure
<1>4. PICK a \in Attempt, n \in Nat : a = held[p][r].attempt /\ n = held[p][r].serial
  BY StageOfHeld
<1>5. HasReceipt(r, a, n, "PASS") \/ Forgotten(r)
  BY <1>1, <1>4 DEF HeldHaveReceipts, HeldHasReceipt
<1>6. HasReceipt(r, a, n, "PASS")' \/ Forgotten(r)'
  BY <1>1, <1>5 DEF HasReceipt, Forgotten
<1> QED
  BY <1>1, <1>2, <1>3, <1>4, <1>6, ResultKeeps

-----------------------------------------------------------------------------
(* Theorems                                                                *)

LEMMA InvariantOfExchange == Spec => []IInv
<1>1. Init => IInv
  <2> SUFFICES ASSUME Init PROVE IInv
    OBVIOUS
  <2>1. ExchangeTypeOK
    <3>1. EmptyStore \in Store
      BY DEF EmptyStore, Store
    <3>2. Nothing \in Holding
      BY DEF Nothing, Holding, Stage, Attempt, Tree
    <3> QED
      BY <3>1, <3>2, CallsAre DEF Init, ExchangeTypeOK
  <2>2. \A p \in Process : call[p].op = "NONE"
    BY CallsAre DEF Init
  <2>3. \A p \in Process, r \in Request : held[p][r].stage = "NONE"
    BY DEF Init, Nothing
  <2>4. store.rows = {} /\ \A r \in Request : outcomes[r] = <<>>
    BY DEF Init, EmptyStore
  <2> QED
    BY <2>1, <2>2, <2>3, <2>4
       DEF IInv, CallsFit, CallFits, OneCarrier, CarriedIsOpen, Carried,
           ResultIsRemembered, HeldHaveReceipts, HeldHasReceipt, OneOutcomePerRequest,
           EvidenceStands, RetriesFollowFailure, ResultsHaveReceipts
<1>2. IInv /\ [Next]_vars => IInv'
  <2> SUFFICES ASSUME IInv, [Next]_vars PROVE IInv'
    OBVIOUS
  <2>1. CASE UNCHANGED vars
    BY <2>1 DEF vars, IInv, ExchangeTypeOK, CallsFit, CallFits, Active, OneCarrier,
       CarriedIsOpen, Carried, Remembered, Forgotten, ResultIsRemembered,
       HeldHaveReceipts, HeldHasReceipt, HasReceipt, FirstFailed,
       OneOutcomePerRequest, EvidenceStands, RetriesFollowFailure, ResultsHaveReceipts
  <2>2. CASE Next
    BY <2>2, BeginningKeeps, SpoilingKeeps, CarryingOnKeeps, CrashKeeps, RefusalKeeps,
       IssueKeepsIInv, ConsumeKeepsIInv, BindReviewKeeps DEF Next
  <2> QED
    BY <2>1, <2>2
<1> QED
  BY <1>1, <1>2, PTL DEF Spec

\* The store, the bridges, their calls and results have their types.
THEOREM ExchangeIsTyped == Spec => []ExchangeTypeOK
<1>1. IInv => ExchangeTypeOK
  BY DEF IInv
<1> QED
  BY <1>1, InvariantOfExchange, PTL

\* No request is given two results, by one process or by several, although each
\* keeps what it carries in memory and the store forgets expired requests.
THEOREM RequestsHaveOneOutcome == Spec => []OneOutcomePerRequest
<1>1. IInv => OneOutcomePerRequest
  BY DEF IInv
<1> QED
  BY <1>1, InvariantOfExchange, PTL

\* Second attempts follow admitted failures and results stand on the receipts
\* that consumed their challenges.
THEOREM EvidenceAlwaysStands == Spec => []EvidenceStands
<1>1. IInv => EvidenceStands
  BY DEF IInv
<1> QED
  BY <1>1, InvariantOfExchange, PTL
=============================================================================
