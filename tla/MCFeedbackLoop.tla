--------------------------- MODULE MCFeedbackLoop ---------------------------
(***************************************************************************)
(* Instances of FeedbackLoop: items of two feeds that share a review *)
(* chat, and specs in which the second feed is reviewed or gone.           *)
(***************************************************************************)
EXTENDS FeedbackLoop

CONSTANTS feedA, feedB, reviewChat

MCSources == {feedA, feedB}
MCSourceOf == [i \in Items |-> IF i = 2 THEN feedB ELSE feedA]
MCChatOf == [s \in MCSources |-> reviewChat]
Both == [s \in MCSources |-> "review"]
OnlyA == [s \in MCSources |-> IF s = feedA THEN "review" ELSE "gone"]
MixedB == [s \in MCSources |-> IF s = feedA THEN "review" ELSE "plain"]
AllSpecs == {Both, OnlyA, MixedB}
OneSpec == {Both}
=============================================================================
