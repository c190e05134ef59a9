----------------------------- MODULE MCPosting -----------------------------
(***************************************************************************)
(* Instances of Posting: two feeds bound to the channel, of which a later  *)
(* spec version unbinds the second, and a version that disables the        *)
(* channel.                                                                *)
(***************************************************************************)
EXTENDS Posting

CONSTANTS feedA, feedB

MCSources == {feedA, feedB}
MCSourceOf == [i \in Items |-> IF i = 2 THEN feedB ELSE feedA]
Bound == [enabled |-> TRUE, bound |-> MCSources]
Unbound == [enabled |-> TRUE, bound |-> {feedA}]
Disabled == [enabled |-> FALSE, bound |-> MCSources]
AllSpecs == {Bound, Unbound, Disabled}
OneSpec == {Bound}
=============================================================================
