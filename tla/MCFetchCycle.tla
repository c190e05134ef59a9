---------------------------- MODULE MCFetchCycle ----------------------------
(***************************************************************************)
(* Instances of FetchCycle: a feed of up to three items that is polled     *)
(* with a fetch_limit of two, and a slower one that repeats a story of the *)
(* first and later serves an item that makes the pass raise.               *)
(***************************************************************************)
EXTENDS FetchCycle

MCSourceOf == [i \in Items |-> IF i <= 3 THEN 1 ELSE 2]
MCDocSize == <<2, 2>>
MCLimit == <<2, 1>>
MCInterval == <<1, 2>>
MCColdStart == <<1, 0>>
MCSame == {p \in {{1, 4}} : p \subseteq Items}
MCNear == {p \in {{1, 4}, {1, 2}, {2, 4}} : p \subseteq Items}
=============================================================================
