----------------------------- MODULE MCStartup -----------------------------
(* An instance of Startup for TLC: a document and what an operator may change in one. *)
EXTENDS Startup, TLC, FiniteSetsExt, SequencesExt

Nothing == [k \in {} |-> ""]

TwoChannels ==
  [form |-> "version 2",
   defaults |-> Nothing,
   channels |-> <<[name |-> "alpha", id |-> "news", set |-> "max_age_min" :> "day"],
                  [name |-> "beta", id |-> "more", set |-> Nothing]>>,
   sources |-> <<[name |-> "wire", set |-> Nothing, mapping |-> "sound", nulled |-> FALSE,
                  channels |-> <<[name |-> "alpha", set |-> "post_style" :> "text_only"]>>],
                 [name |-> "bank", set |-> "enabled" :> "on", mapping |-> "sound", nulled |-> FALSE,
                  channels |-> <<[name |-> "alpha", set |-> Nothing]>>]>>,
   ops |-> "ops"]

Put(layer, key, value) == (key :> value) @@ layer

\* A change is one key of one layer, one chat, one name, one binding, one expression or the form of
\* the bytes.
Changes ==
  {"review all at desk", "review all in beta", "review wire nowhere", "switch is junk", "policy is junk",
    "age is junk", "age of beta is junk", "unknown default", "bank has no binding", "age on a binding",
    "beta is desk", "beta is super", "alpha twice", "ops is beta", "no errors section", "not JSON", "not UTF-8",
    "no sources", "bank has null", "lead_remove of bank", "items of wire"}

Changed(d, c) ==
  CASE c = "review all at desk" -> [d EXCEPT !.defaults = Put(@, "feedback", "desk")]
    [] c = "review all in beta" -> [d EXCEPT !.defaults = Put(@, "feedback", "more")]
    [] c = "review wire nowhere" -> [d EXCEPT !.sources[1].set = Put(@, "feedback", NoChat)]
    [] c = "switch is junk" -> [d EXCEPT !.defaults = Put(@, "enabled", Junk)]
    [] c = "policy is junk" -> [d EXCEPT !.defaults = Put(@, "cold_start_policy", Junk)]
    [] c = "age is junk" -> [d EXCEPT !.defaults = Put(@, "max_age_min", Junk)]
    [] c = "age of beta is junk" -> [d EXCEPT !.channels[2].set = Put(@, "max_age_min", Junk)]
    [] c = "unknown default" -> [d EXCEPT !.defaults = Put(@, "unknown", "300")]
    [] c = "bank has no binding" -> [d EXCEPT !.sources[2].channels = <<>>]
    [] c = "age on a binding" -> [d EXCEPT !.sources[1].channels[1].set = Put(@, "max_age_min", "none")]
    [] c = "beta is desk" -> [d EXCEPT !.channels[2].id = "desk"]
    [] c = "beta is super" -> [d EXCEPT !.channels[2].id = "super"]
    [] c = "alpha twice" -> [d EXCEPT !.channels[2].name = "alpha"]
    [] c = "ops is beta" -> [d EXCEPT !.ops = "more"]
    [] c = "no errors section" -> [d EXCEPT !.ops = NoChat]
    [] c = "not JSON" -> [d EXCEPT !.form = "not JSON"]
    [] c = "not UTF-8" -> [d EXCEPT !.form = "not UTF-8"]
    [] c = "no sources" -> [d EXCEPT !.form = "null sources"]
    [] c = "bank has null" -> [d EXCEPT !.sources[2].channels = <<>>, !.sources[2].nulled = TRUE]
    [] c = "lead_remove of bank" -> [d EXCEPT !.sources[2].mapping = "bad lead_remove"]
    [] c = "items of wire" -> [d EXCEPT !.sources[1].mapping = "bad expression"]

OneChange(d) == {Changed(d, c) : c \in Changes}
=============================================================================
