----------------------------- MODULE ChannelLog -----------------------------
(***************************************************************************)
(* What posting promises for each item of a channel, without passes, lock, *)
(* slot or faults: copies of it reach the channel only while it waits, and *)
(* where it ends is for good.  These are the ends that the rows of         *)
(* routing_decisions and deliveries can say (archive/models.py,            *)
(* archive/writer.py, ADR 0008).  Posting implements it; FetchCycle does   *)
(* too, of which the channel sees the arrivals only.                       *)
(***************************************************************************)
EXTENDS Naturals

CONSTANT Items

VARIABLES
  fate,   \* what the archive says of an item
  copies  \* how often it is in the channel

vars == <<fate, copies>>

\* rehearsed: recorded by a dry run.  spent: no attempts left.
Ends == {"delivered", "rehearsed", "spent", "retired"}

Init ==
  /\ fate = [i \in Items |-> "new"]
  /\ copies = [i \in Items |-> 0]

\* A fetch decides all that it stores in one transaction, and nothing else.
Arrive ==
  /\ \E S \in SUBSET Items, f \in [Items -> {"waiting", "retired"}] :
       /\ \A i \in S : fate[i] = "new"
       /\ fate' = [i \in Items |-> IF i \in S THEN f[i] ELSE fate[i]]
  /\ UNCHANGED copies

Post(i) ==
  /\ fate[i] = "waiting"
  /\ copies' = [copies EXCEPT ![i] = @ + 1]
  /\ UNCHANGED fate

\* Nothing reads delivered that is not in the channel.
Settle(i) ==
  /\ \E f \in Ends :
       /\ fate[i] = "waiting"
       /\ f = "delivered" => copies[i] > 0
       /\ fate' = [fate EXCEPT ![i] = f]
  /\ UNCHANGED copies

Next == Arrive \/ \E i \in Items : Post(i) \/ Settle(i)

Spec == Init /\ [][Next]_vars
=============================================================================
