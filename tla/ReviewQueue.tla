---------------------------- MODULE ReviewQueue ----------------------------
(***************************************************************************)
(* What the review loop promises, without the processes, the cards or the  *)
(* faults: a row of feedback_reviews moves queued -> pending -> decided,   *)
(* may fall back from pending to queued, and never leaves decided; a chat  *)
(* has at most one pending row.  This is the state machine of the module   *)
(* docstring of archive/feedback.py and of the partial unique index of     *)
(* migration 0004.  FeedbackLoop implements it.                            *)
(***************************************************************************)
CONSTANTS
  Items,    \* archived items that are not duplicates
  Chat,     \* the review chat of an item: a function on Items
  Verdicts, \* the labels an operator can give
  NoLabel   \* the label of a row nobody has answered

VARIABLES
  row,      \* row[i]: "none" while i has no row, then its review_state
  label     \* label[i]: the column "approved"

vars == <<row, label>>

States == {"none", "queued", "pending", "decided"}

TypeOK ==
  /\ row \in [Items -> States]
  /\ label \in [Items -> Verdicts \cup {NoLabel}]

\* The rows a chat shows, or is about to show: the index allows one.
Pending(c) == {i \in Items : Chat[i] = c /\ row[i] = "pending"}

Init ==
  /\ row \in [Items -> {"none", "queued"}]
  /\ label = [i \in Items |-> NoLabel]

Enqueue(i) ==
  /\ row[i] = "none"
  /\ row' = [row EXCEPT ![i] = "queued"]
  /\ UNCHANGED label

Claim(i) ==
  /\ row[i] = "queued"
  /\ Pending(Chat[i]) = {}
  /\ row' = [row EXCEPT ![i] = "pending"]
  /\ UNCHANGED label

Release(i) ==
  /\ row[i] = "pending"
  /\ row' = [row EXCEPT ![i] = "queued"]
  /\ UNCHANGED label

Decide(i, v) ==
  /\ row[i] = "pending"
  /\ row' = [row EXCEPT ![i] = "decided"]
  /\ label' = [label EXCEPT ![i] = v]

Next ==
  \E i \in Items :
    \/ Enqueue(i)
    \/ Claim(i)
    \/ Release(i)
    \/ \E v \in Verdicts : Decide(i, v)

Spec == Init /\ [][Next]_vars
=============================================================================
