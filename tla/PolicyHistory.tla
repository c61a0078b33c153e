--------------------------- MODULE PolicyHistory ---------------------------
(***************************************************************************)
(* What the policy store promises about an anonymous workspace, without    *)
(* processes, transactions and clocks: its policy is an append-only        *)
(* history in which a selection changes on the same text only by a         *)
(* recorded decision, and a workspace that was retired never returns.      *)
(* PolicyStore implements it.                                              *)
(***************************************************************************)
EXTENDS Naturals, Sequences, FiniteSets

CONSTANTS Workspace, Text, Ambiguity, Option, Capacity, None

\* The ambiguities of an interpreted text, each with its selected option or,
\* while it is open, None.
Interpretation == UNION {[A -> Option \cup {None}] : A \in SUBSET Ambiguity}
Decision == [ambiguity: Ambiguity, option: Option]

VARIABLES
  stage,    \* "ABSENT", "LIVE" or "RETIRED"
  history   \* the versions of a live workspace, oldest first

historyVars == <<stage, history>>

\* An uninterpreted text has no interpretation: ir is None.
HistoryEntry(text, ir, decided) == [text |-> text, ir |-> ir, decided |-> decided]

Live == {w \in Workspace : stage[w] = "LIVE"}

HistoryInit ==
  /\ stage = [w \in Workspace |-> "ABSENT"]
  /\ history = [w \in Workspace |-> <<>>]

\* Without a decision, the selections of an interpreted text stay.
FollowsSilently(prev, e) ==
  /\ e.decided = None
  /\ e.text = prev.text /\ prev.ir # None /\ e.ir # None => e.ir = prev.ir

\* A decision changes one selection of the interpretation it was made on, and
\* nothing else.
FollowsByDecision(prev, e) ==
  /\ e.decided # None
  /\ e.text = prev.text
  /\ prev.ir # None
  /\ e.decided.ambiguity \in DOMAIN prev.ir
  /\ prev.ir[e.decided.ambiguity] # e.decided.option
  /\ e.ir = [prev.ir EXCEPT ![e.decided.ambiguity] = e.decided.option]

Follows(prev, e) == FollowsSilently(prev, e) \/ FollowsByDecision(prev, e)

Open(w, text, ir) ==
  /\ stage[w] = "ABSENT"
  /\ Cardinality(Live) < Capacity
  /\ stage' = [stage EXCEPT ![w] = "LIVE"]
  /\ history' = [history EXCEPT ![w] = <<HistoryEntry(text, ir, None)>>]

Extend(w, e) ==
  /\ stage[w] = "LIVE"
  /\ Follows(history[w][Len(history[w])], e)
  /\ history' = [history EXCEPT ![w] = Append(@, e)]
  /\ UNCHANGED stage

Retire(w) ==
  /\ stage[w] = "LIVE"
  /\ stage' = [stage EXCEPT ![w] = "RETIRED"]
  /\ history' = [history EXCEPT ![w] = <<>>]

\* Extend makes a history longer: saying so before an entry is chosen spares a
\* model checker the choice in every step that extends nothing.
HistoryNext ==
  \E w \in Workspace :
    \/ \E text \in Text, ir \in Interpretation \cup {None} : Open(w, text, ir)
    \/ /\ Len(history'[w]) = Len(history[w]) + 1
       /\ \E text \in Text, ir \in Interpretation \cup {None},
             decided \in Decision \cup {None} :
            Extend(w, HistoryEntry(text, ir, decided))
    \/ Retire(w)

HistorySpec == HistoryInit /\ [][HistoryNext]_historyVars
=============================================================================
