----------------------------- MODULE AtMostOnce -----------------------------
(***************************************************************************)
(* What the webhook promises for each update of Telegram: it is taken at   *)
(* most once, and what has been taken is settled or lost, for good         *)
(* (newsbot/webhook.py, "at-most-once is the safe side").                  *)
(***************************************************************************)
CONSTANT Updates
VARIABLE fate

Fates == {"new", "taken", "acted", "denied", "ignored", "lost"}

Init == fate = [u \in Updates |-> "new"]

Become(u, from, to) == fate[u] \in from /\ fate' = [fate EXCEPT ![u] = to]

Take(u) == Become(u, {"new"}, "taken")
Settle(u) == \E f \in {"acted", "denied", "ignored"} : Become(u, {"taken"}, f)

\* A crash takes whatever a replica has in hand.
Lose ==
  \E S \in SUBSET {u \in Updates : fate[u] \in {"new", "taken"}} :
    fate' = [u \in Updates |-> IF u \in S THEN "lost" ELSE fate[u]]

Next == (\E u \in Updates : Take(u) \/ Settle(u)) \/ Lose

Spec == Init /\ [][Next]_fate
=============================================================================
