-------------------------- MODULE VerifierExchange --------------------------
(***************************************************************************)
(* The verifier exchange: processes that carry the repair of a request     *)
(* through an independent verification and a review.  Each has one         *)
(* authority, src/codex/verifier-exchange-authority.ts, and one bridge,    *)
(* src/codex/repair-verifier-review-bridge.ts; they share the replay store *)
(* of VerifierReplay and nothing else.                                     *)
(*                                                                         *)
(* A call of the bridge is synchronous, so nothing in its own process      *)
(* comes between its steps.  Its transactions wait for the writer lock of  *)
(* the file: what other processes commit comes between the checks of a     *)
(* call and its transaction, and call[p] holds what the transaction uses.  *)
(* The process may die anywhere.                                           *)
(*                                                                         *)
(* What a receipt, a repair result or a review says beyond its verdict is  *)
(* one choice: it fits all the bindings the code compares, or it does not. *)
(* A clock reading is any element of Time: clocks of several processes     *)
(* differ, and one may be set back.                                        *)
(***************************************************************************)
EXTENDS VerifierReplay, Sequences

CONSTANTS Process, Time

ASSUME TimeAssumption == Time \subseteq Nat

VARIABLES
  store,      \* the replay store
  issued,     \* how many challenges were ever issued for an attempt
  held,       \* what the bridge of a process holds for a request
  call,       \* the transaction a process waits for
  outcomes    \* the results a request has been given, oldest first

vars == <<store, issued, held, call, outcomes>>

-----------------------------------------------------------------------------
(* What a bridge holds for a request.  A request begins once in a process, *)
(* and of the objects it is carried on by the last is the one of use:      *)
(*   ISSUED     a delivery whose capability nobody took                    *)
(*   DELIVERED  its capability is with the verifier                        *)
(*   REVIEW     a PASS receipt was admitted, RETRY: a first FAIL receipt   *)
(*   DEAD       a call consumed the object and failed, or the result is out*)
(* tree is the verification workspace of the attempt.                      *)

Stage == {"NONE", "ISSUED", "DELIVERED", "REVIEW", "RETRY", "DEAD"}
Tree == {"SEALED", "PASS", "FAIL", "CHANGED"}
Holding == [stage: Stage, attempt: Attempt, serial: Nat, tree: Tree]

Nothing == [stage |-> "NONE", attempt |-> 1, serial |-> 0, tree |-> "SEALED"]

NoCall == [op |-> "NONE"]
Call == {NoCall}
  \cup [op: {"ISSUE"}, request: Request, attempt: Attempt, at: Time]
  \cup [op: {"CONSUME"}, request: Request, verdict: Verdict, at: Time]
  \cup [op: {"POISON"}, request: Request]

Outcome == [result: {"VERIFIER_FAILED", "APPROVED", "BLOCKED"},
            attempt: Attempt, serial: Nat, tree: Tree]

\* The types of the store, of the bridges and of what they returned.
ExchangeTypeOK ==
  /\ store \in Store
  /\ issued \in [Request \X Attempt -> Nat]
  /\ held \in [Process -> [Request -> Holding]]
  /\ call \in [Process -> Call]
  /\ outcomes \in [Request -> Seq(Outcome)]

Init ==
  /\ store = EmptyStore
  /\ issued = [ra \in Request \X Attempt |-> 0]
  /\ held = [p \in Process |-> [r \in Request |-> Nothing]]
  /\ call = [p \in Process |-> NoCall]
  /\ outcomes = [r \in Request |-> <<>>]

Idle(p) == call[p] = NoCall
Active(r, t) == t < Expiry[r]

Hold(p, r, h) == held' = [held EXCEPT ![p][r] = h]
Move(p, r, stage) == held' = [held EXCEPT ![p][r].stage = stage]
SetTree(p, r, tree) == held' = [held EXCEPT ![p][r].tree = tree]
Spend(p, r) == Move(p, r, "DEAD")
Ask(p, c) == call' = [call EXCEPT ![p] = c]
Return(p, r, result) ==
  outcomes' = [outcomes EXCEPT ![r] = Append(@,
    [result |-> result, attempt |-> held[p][r].attempt,
     serial |-> held[p][r].serial, tree |-> held[p][r].tree])]

-----------------------------------------------------------------------------
(* A challenge for an attempt                                              *)

\* prepareInitialAttempt up to the transaction of issue: the request is new to
\* the bridge and active, the repair fits, the snapshot is sealed and current.
PrepareInitial(p, r, t) ==
  /\ Idle(p)
  /\ held[p][r].stage = "NONE"
  /\ Active(r, t)
  /\ Ask(p, [op |-> "ISSUE", request |-> r, attempt |-> 1, at |-> t])
  /\ UNCHANGED <<store, issued, held, outcomes>>

MayRetryAgain(h) == h.stage \in {"RETRY", "DEAD"}                \* mutant
\* A first FAIL receipt is spent by one retry.
MayRetry(h) == h.stage = "RETRY"

\* prepareRetry up to the transaction of issue.
PrepareRetry(p, r, t) ==
  /\ Idle(p)
  /\ MayRetry(held[p][r])
  /\ Active(r, t)
  /\ Ask(p, [op |-> "ISSUE", request |-> r, attempt |-> 2, at |-> t])
  /\ UNCHANGED <<store, issued, held, outcomes>>

\* The retry authorization is consumed before the workspace is reconstructed
\* and sealed: when one of these fails, or the request has expired meanwhile,
\* there is no other retry.
SpoilRetry(p, r) ==
  /\ Idle(p)
  /\ MayRetry(held[p][r])
  /\ Spend(p, r)
  /\ UNCHANGED <<store, issued, call, outcomes>>

NextSerial(r, a) == issued[<<r, a>>] + 1

\* The transaction of issue, and the delivery when it admits the challenge.
Issue(p) ==
  /\ call[p].op = "ISSUE"
  /\ LET c == call[p]
         n == NextSerial(c.request, c.attempt) IN
       /\ MayIssue(store, c.request, c.attempt, c.at)
       /\ store' = AfterIssue(store, c.request, c.attempt, n, c.at)
       /\ issued' = [issued EXCEPT ![<<c.request, c.attempt>>] = n]
       /\ Hold(p, c.request, [stage |-> "ISSUED", attempt |-> c.attempt,
                              serial |-> n, tree |-> "SEALED"])
  /\ Ask(p, NoCall)
  /\ UNCHANGED outcomes

\* A refused first attempt leaves no trace in the bridge; a refused second one
\* has spent its authorization.
FailIssue(p) ==
  IF call[p].attempt = 2 THEN Spend(p, call[p].request) ELSE UNCHANGED held

RefuseIssue(p) ==
  /\ call[p].op = "ISSUE"
  /\ LET c == call[p] IN
       /\ ~MayIssue(store, c.request, c.attempt, c.at)
       /\ store' = AfterIssue(store, c.request, c.attempt, 0, c.at)
  /\ FailIssue(p)
  /\ Ask(p, NoCall)
  /\ UNCHANGED <<issued, outcomes>>

-----------------------------------------------------------------------------
(* The verifier                                                            *)

\* takeVerifierCapability.
TakeCapability(p, r) ==
  /\ Idle(p)
  /\ held[p][r].stage = "ISSUED"
  /\ Move(p, r, "DELIVERED")
  /\ UNCHANGED <<store, issued, call, outcomes>>

\* The verifier builds and runs the corpus in the workspace of the attempt.
RunVerifier(p, r, v) ==
  /\ held[p][r].stage = "DELIVERED"
  /\ held[p][r].tree = "SEALED"
  /\ SetTree(p, r, v)
  /\ UNCHANGED <<store, issued, call, outcomes>>

\* Anything else that writes to the workspace.
ChangeTree(p, r) ==
  /\ held[p][r].stage \in {"ISSUED", "DELIVERED", "REVIEW"}
  /\ SetTree(p, r, "CHANGED")
  /\ UNCHANGED <<store, issued, call, outcomes>>

-----------------------------------------------------------------------------
(* Admission of a receipt                                                  *)

\* A receipt for a delivery whose capability was not taken: the bridge has
\* settled the attempt, the authority refuses and poisons nothing.
PresentEarly(p, r) ==
  /\ Idle(p)
  /\ held[p][r].stage = "ISSUED"
  /\ Spend(p, r)
  /\ UNCHANGED <<store, issued, call, outcomes>>

\* The receipt of the run that left the tree as it is: all of admit's checks
\* pass, and its transaction to consume the challenge is next.
PresentReceipt(p, r, t) ==
  /\ Idle(p)
  /\ held[p][r].stage = "DELIVERED"
  /\ held[p][r].tree \in Verdict
  /\ Ask(p, [op |-> "CONSUME", request |-> r, verdict |-> held[p][r].tree, at |-> t])
  /\ UNCHANGED <<store, issued, held, outcomes>>

\* Any other receipt, or a tree that is not the receipt's.
RejectReceipt(p, r) ==
  /\ Idle(p)
  /\ held[p][r].stage = "DELIVERED"
  /\ Spend(p, r)
  /\ Ask(p, [op |-> "POISON", request |-> r])
  /\ UNCHANGED <<store, issued, outcomes>>

\* What the bridge makes of an admitted receipt: a review, a retry, or the
\* failure of the second attempt.
Admitted(p, r, v) ==
  LET last == v = "FAIL" /\ held[p][r].attempt = 2 IN
  /\ Move(p, r, IF last THEN "DEAD" ELSE IF v = "PASS" THEN "REVIEW" ELSE "RETRY")
  /\ IF last THEN Return(p, r, "VERIFIER_FAILED") ELSE UNCHANGED outcomes

\* The transaction of consume succeeds.  The bridge then refuses a verifier run
\* it has seen: the challenge is consumed and the attempt is over.
Consume(p) ==
  /\ call[p].op = "CONSUME"
  /\ LET c == call[p]  h == held[p][c.request] IN
       /\ MayConsume(store, c.request, h.attempt, h.serial, c.at)
       /\ store' = AfterConsume(store, c.request, h.attempt, h.serial, c.verdict, c.at)
       /\ \/ Admitted(p, c.request, c.verdict)
          \/ Spend(p, c.request) /\ UNCHANGED outcomes
  /\ Ask(p, NoCall)
  /\ UNCHANGED issued

\* It fails, for the time, for the row, or for a receipt or a verifier run that
\* another row holds: the challenge is poisoned next.
RefuseConsume(p) ==
  /\ call[p].op = "CONSUME"
  /\ store' = AfterRefusedConsume(store, call[p].at)
  /\ Spend(p, call[p].request)
  /\ Ask(p, [op |-> "POISON", request |-> call[p].request])
  /\ UNCHANGED <<issued, outcomes>>

Poison(p) ==
  /\ call[p].op = "POISON"
  /\ LET h == held[p][call[p].request] IN
       store' = AfterPoison(store, call[p].request, h.attempt, h.serial)
  /\ Ask(p, NoCall)
  /\ UNCHANGED <<issued, held, outcomes>>

-----------------------------------------------------------------------------
(* Review, failing storage and crashes                                     *)

\* An outcome that was not used, and revalidateVerifierReceipt: the workspace
\* still holds what the verifier left.
MayReview(h) == h.stage = "REVIEW" /\ h.tree = "PASS"

BindReview(p, r, t, result) ==
  /\ Idle(p)
  /\ MayReview(held[p][r])
  /\ Active(r, t)
  /\ Return(p, r, result)
  /\ Spend(p, r)
  /\ UNCHANGED <<store, issued, call>>

\* The outcome is used up before anything is checked.
SpoilReview(p, r) ==
  /\ Idle(p)
  /\ held[p][r].stage = "REVIEW"
  /\ Spend(p, r)
  /\ UNCHANGED <<store, issued, call, outcomes>>

\* A transaction that throws has written nothing.  A failed poisoning is
\* swallowed.
StorageFails(p) ==
  /\ \/ call[p].op = "ISSUE" /\ FailIssue(p) /\ Ask(p, NoCall)
     \/ /\ call[p].op = "CONSUME"
        /\ Spend(p, call[p].request)
        /\ Ask(p, [op |-> "POISON", request |-> call[p].request])
     \/ call[p].op = "POISON" /\ Ask(p, NoCall) /\ UNCHANGED held
  /\ UNCHANGED <<store, issued, outcomes>>

\* Only the store survives.
Crash(p) ==
  /\ held' = [held EXCEPT ![p] = [r \in Request |-> Nothing]]
  /\ Ask(p, NoCall)
  /\ UNCHANGED <<store, issued, outcomes>>

Next ==
  \E p \in Process :
    \/ \E r \in Request :
         \/ \E t \in Time :
              \/ PrepareInitial(p, r, t)
              \/ PrepareRetry(p, r, t)
              \/ PresentReceipt(p, r, t)
              \/ \E result \in {"APPROVED", "BLOCKED"} : BindReview(p, r, t, result)
         \/ SpoilRetry(p, r)
         \/ TakeCapability(p, r)
         \/ \E v \in Verdict : RunVerifier(p, r, v)
         \/ ChangeTree(p, r)
         \/ PresentEarly(p, r)
         \/ RejectReceipt(p, r)
         \/ SpoilReview(p, r)
    \/ Issue(p)
    \/ RefuseIssue(p)
    \/ Consume(p)
    \/ RefuseConsume(p)
    \/ Poison(p)
    \/ StorageFails(p)
    \/ Crash(p)

Spec == Init /\ [][Next]_vars

-----------------------------------------------------------------------------
(* Properties                                                              *)

\* A request is given one result, whatever processes carry it, however often
\* they die, however their clocks differ and whatever the store has pruned.
OneOutcomePerRequest == \A r \in Request : Len(outcomes[r]) <= 1

Forgotten(r) == store.highWater >= Expiry[r]

HasReceipt(r, a, n, v) ==
  \E row \in store.rows : IsRowOf(row, r, a, n) /\ row.state = "CONSUMED" /\ row.verdict = v

\* While the store remembers a second attempt it also remembers the first one,
\* failed by an admitted receipt.
RetriesFollowFailure ==
  \A row \in store.rows :
    row.attempt = 2 =>
      \E first \in store.rows :
        /\ first.request = row.request /\ first.attempt = 1
        /\ first.state = "CONSUMED" /\ first.verdict = "FAIL"

\* A result stands on the receipt that consumed its challenge, or the request
\* has expired for every process; a review was bound while the workspace held
\* what the verifier had passed.
ResultsHaveReceipts ==
  \A r \in Request : \A i \in DOMAIN outcomes[r] :
    LET o == outcomes[r][i]
        v == IF o.result = "VERIFIER_FAILED" THEN "FAIL" ELSE "PASS" IN
    /\ v = "PASS" => o.tree = "PASS"
    /\ HasReceipt(r, o.attempt, o.serial, v) \/ Forgotten(r)

\* "PASS creates one receipt-bound structural review authorization; FAIL attempt
\* 1 creates one fresh-snapshot retry", although the receipt is admitted by a
\* transaction, the rest in memory, and other processes prune in between.
EvidenceStands == RetriesFollowFailure /\ ResultsHaveReceipts
=============================================================================
