--------------------------- MODULE VerifierReplay ---------------------------
(***************************************************************************)
(* The durable replay store of the verifier exchange,                      *)
(* src/codex/verifier-replay-sqlite.ts: one SQLite file that several       *)
(* processes open.  Each operation is one BEGIN IMMEDIATE transaction and  *)
(* is written here as the store it leaves; who calls it, and when, is in   *)
(* VerifierExchange.                                                       *)
(*                                                                         *)
(* A challenge is the serial number of an issuance for one attempt of one  *)
(* request: its random identifier and capability never repeat.  Of the     *)
(* receipt a row keeps, only the verdict is kept here.                     *)
(***************************************************************************)
EXTENDS Naturals, FiniteSets

CONSTANTS
  Request,     \* Worker RPC requests
  Expiry,      \* when each request expires; all are active from 0 on
  Capacity,    \* rows the store holds at most
  ChallengeTtl

ASSUME ExpiryAssumption == Expiry \in [Request -> Nat]
ASSUME BoundsAssumption == Capacity \in Nat /\ ChallengeTtl \in Nat \ {0}

Attempt == {1, 2}
Verdict == {"PASS", "FAIL"}

Row == [request: Request, attempt: Attempt, serial: Nat, expires: Nat,
        state: {"ISSUED", "CONSUMED", "POISONED"},
        verdict: Verdict \cup {"NONE"}]
Store == [rows: SUBSET Row, highWater: Nat]

EmptyStore == [rows |-> {}, highWater |-> 0]

EarlierOf(s, t) == IF s <= t THEN s ELSE t

-----------------------------------------------------------------------------
\* observeMonotonicTime: a clock behind the latest one observed is refused,
\* and any other one moves the mark.
InTime(store, t) == t >= store.highWater

KeptToChallengeExpiry(store, t) ==                               \* mutant
  {row \in store.rows : row.expires > t}
\* The rows issue leaves when it prunes: an attempt is remembered until its
\* request expires, long after its challenge has.
Kept(store, t) == {row \in store.rows : Expiry[row.request] > t}

MayIssue(store, r, a, t) ==
  /\ InTime(store, t)
  /\ \A row \in Kept(store, t) : ~(row.request = r /\ row.attempt = a)
  /\ Cardinality(Kept(store, t)) < Capacity

ChallengeExpiry(r, t) == EarlierOf(t + ChallengeTtl, Expiry[r])

NewRow(r, a, n, t) ==
  [request |-> r, attempt |-> a, serial |-> n,
   expires |-> ChallengeExpiry(r, t), state |-> "ISSUED", verdict |-> "NONE"]

AfterIssue(store, r, a, n, t) ==
  IF ~InTime(store, t) THEN store
  ELSE [rows |-> Kept(store, t) \cup
                   (IF MayIssue(store, r, a, t) THEN {NewRow(r, a, n, t)} ELSE {}),
        highWater |-> t]

\* The row of one challenge.
IsRowOf(row, r, a, n) ==
  row.request = r /\ row.attempt = a /\ row.serial = n

Consumable(row, t) == row.state = "ISSUED" /\ row.expires > t

MayConsume(store, r, a, n, t) ==
  /\ InTime(store, t)
  /\ \E row \in store.rows : IsRowOf(row, r, a, n) /\ Consumable(row, t)

\* A receipt or a verifier run that another row holds fails the update, which
\* is then answered like a row that does not match; the mark has moved.
AfterRefusedConsume(store, t) ==
  IF InTime(store, t) THEN [store EXCEPT !.highWater = t] ELSE store

AfterConsume(store, r, a, n, v, t) ==
  [rows |-> {IF IsRowOf(row, r, a, n) /\ Consumable(row, t)
               THEN [row EXCEPT !.state = "CONSUMED", !.verdict = v]
               ELSE row : row \in store.rows},
   highWater |-> t]

AfterPoison(store, r, a, n) ==
  [store EXCEPT !.rows =
     {IF IsRowOf(row, r, a, n) /\ row.state = "ISSUED"
        THEN [row EXCEPT !.state = "POISONED"]
        ELSE row : row \in store.rows}]
=============================================================================
