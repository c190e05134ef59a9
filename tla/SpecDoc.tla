------------------------------ MODULE SpecDoc ------------------------------
(***************************************************************************)
(* The spec document: its layers, what the loader refuses, and what the    *)
(* precedence chain makes of it (feedspec/model.py, loader.py, resolve.py; *)
(* docs/configuration.md).                                                 *)
(*                                                                         *)
(* A layer is a partial function from keys to values: its domain is        *)
(* model_fields_set.  Of each scope the keys stand for all the keys that   *)
(* resolve alike: max_age_min for the knobs of a channel, lead_max_length  *)
(* for what only a binding has.  "feedback" holds the chat of an enabled   *)
(* FeedbackCfg, and NoChat for null or a disabled one.  What the types let *)
(* through and a database or a clock refuses (a number that is too large,  *)
(* a character that jsonb does not take) is left out.                      *)
(***************************************************************************)
EXTENDS Naturals, Sequences, FiniteSetsExt

CONSTANTS
  Chats,   \* Telegram chats
  Names    \* names of sources and of channels

NoChat == "no chat"
Junk == "junk"     \* a value of the wrong type or form

ASSUME ChatsAssumption == Chats \subseteq STRING /\ NoChat \notin Chats

SourceKeys == {"enabled", "cold_start_policy", "feedback"}
ChannelKeys == {"enabled", "max_age_min", "post_style"}
BindingKeys == {"lead_max_length", "post_style"}
ChannelScoped == {"id", "max_age_min"}
AllowedDefaults == SourceKeys \union ChannelKeys \union BindingKeys

Legal(key) ==
  CASE key = "enabled" -> {"on", "off"}
    [] key = "cold_start_policy" -> {"skip_all", "post_newest"}
    [] key = "feedback" -> Chats \union {NoChat}
    [] key = "max_age_min" -> {"none", "day"}
    [] key = "post_style" -> {"link_preview", "text_only"}
    [] OTHER -> {"300", "100"}

Documented ==
  [enabled |-> "on", cold_start_policy |-> "skip_all", feedback |-> NoChat,
   max_age_min |-> "none", post_style |-> "link_preview", lead_max_length |-> "300"]

Keys == AllowedDefaults \union {"id", "unknown"}
Values == {Junk} \union UNION {Legal(k) : k \in AllowedDefaults}

IsLayer(f) == DOMAIN f \subseteq Keys /\ \A k \in DOMAIN f : f[k] \in Values

Forms == {"version 2", "other version", "null sources", "not JSON", "not UTF-8"}

\* A lead_remove that is no regex, or an items or id_pattern expression that is none.
Mappings == {"sound", "bad lead_remove", "bad expression"}

\* The bytes, as far as they can be read.  nulled: a source with null in the place of its channels.
\* ops is errors.ops_chat_id, NoChat without that section.
IsDoc(d) ==
  /\ d.form \in Forms
  /\ IsLayer(d.defaults)
  /\ d.channels \in Seq({d.channels[i] : i \in DOMAIN d.channels})
  /\ \A i \in DOMAIN d.channels :
       LET c == d.channels[i] IN c.name \in Names /\ c.id \in Chats /\ IsLayer(c.set)
  /\ d.sources \in Seq({d.sources[i] : i \in DOMAIN d.sources})
  /\ \A i \in DOMAIN d.sources :
       LET s == d.sources[i]
       IN  /\ s.name \in Names /\ IsLayer(s.set)
           /\ s.mapping \in Mappings /\ s.nulled \in BOOLEAN /\ (s.nulled => s.channels = <<>>)
           /\ \A j \in DOMAIN s.channels : s.channels[j].name \in Names /\ IsLayer(s.channels[j].set)
  /\ d.ops \in Chats \union {NoChat}

-----------------------------------------------------------------------------
(* resolve.py *)

\* documented default < spec defaults < explicitly set
Effective(layer, key, d) ==
  IF key \in DOMAIN layer THEN layer[key]
  ELSE IF key \in DOMAIN d.defaults THEN d.defaults[key]
  ELSE Documented[key]

ReviewChat(d, s) == Effective(s.set, "feedback", d)
ReviewChats(d) == {ReviewChat(d, d.sources[i]) : i \in DOMAIN d.sources} \ {NoChat}
NewsChats(d) == {d.channels[i].id : i \in DOMAIN d.channels}

\* Spec.channel: the first entry of that name.
Channel(d, n) ==
  d.channels[CHOOSE i \in DOMAIN d.channels :
               /\ d.channels[i].name = n
               /\ \A j \in 1..(i - 1) : d.channels[j].name # n]

ResolveChannel(d, n) ==
  [chat |-> Channel(d, n).id,
   max_age_min |-> Effective(Channel(d, n).set, "max_age_min", d),
   enabled |-> Effective(Channel(d, n).set, "enabled", d)]

PostStyle(d, b) ==
  IF "post_style" \in DOMAIN b.set THEN b.set["post_style"]
  ELSE Effective(Channel(d, b.name).set, "post_style", d)

ResolvePair(d, s, b) ==
  [chat |-> Channel(d, b.name).id,
   max_age_min |-> Effective(Channel(d, b.name).set, "max_age_min", d),
   enabled |-> Effective(Channel(d, b.name).set, "enabled", d),
   source_enabled |-> Effective(s.set, "enabled", d),
   lead_max_length |-> Effective(b.set, "lead_max_length", d),
   post_style |-> PostStyle(d, b)]

\* EffectiveSource, EffectiveChannel and EffectiveConfig are pydantic models: what they are
\* built from must be well typed.  A cold_start_policy is any string there.
SourceIsTyped(d, s) ==
  \A k \in {"enabled", "feedback"} : Effective(s.set, k, d) \in Legal(k)
ChannelIsTyped(d, n) ==
  \A k \in {"enabled", "max_age_min"} : ResolveChannel(d, n)[k] \in Legal(k)
PairIsTyped(d, s, b) ==
  /\ SourceIsTyped(d, s) /\ ChannelIsTyped(d, b.name)
  /\ \A k \in {"lead_max_length", "post_style"} : ResolvePair(d, s, b)[k] \in Legal(k)

Pairs(d) ==
  UNION {{<<d.sources[i], d.sources[i].channels[j]>> : j \in DOMAIN d.sources[i].channels} :
         i \in DOMAIN d.sources}

-----------------------------------------------------------------------------
(* loader.py: what load_spec_bytes raises, check by check, in its order.  Its callers catch SpecError. *)

Uncaught == {"ValidationError", "TypeError", "UnicodeDecodeError", "re.error"}

OkIf(p) == IF p THEN "ok" ELSE "SpecError"

\* json.loads, of whose errors only the JSONDecodeError is caught, and the version.
FormVerdict(d) ==
  IF d.form = "not UTF-8" THEN "UnicodeDecodeError" ELSE OkIf(d.form \in {"version 2", "null sources"})

\* _reject_channel_scoped_binding_keys walks through what json.loads made of the bytes.
RawVerdict(s) ==
  IF s.nulled THEN "TypeError"
  ELSE OkIf(\A j \in DOMAIN s.channels : DOMAIN s.channels[j].set \intersect ChannelScoped = {})
Raw(d) ==
  IF d.form = "null sources" THEN <<"TypeError">>
  ELSE [i \in DOMAIN d.sources |-> RawVerdict(d.sources[i])]

WellSet(layer, keys) ==
  /\ DOMAIN layer \subseteq keys
  /\ \A k \in DOMAIN layer : layer[k] \in Legal(k)

\* Variant: a channel may set what it likes.
WellFormedButChannels(d) ==
  /\ \A p \in Pairs(d) : WellSet(p[2].set, BindingKeys)
  /\ \A i \in DOMAIN d.sources : WellSet(d.sources[i].set, SourceKeys)

\* What a binding, a channel or a source sets for itself has a known key and a legal value.
WellFormed(d) ==
  /\ \A p \in Pairs(d) : WellSet(p[2].set, BindingKeys)
  /\ \A i \in DOMAIN d.channels : WellSet(d.channels[i].set, ChannelKeys)
  /\ \A i \in DOMAIN d.sources : WellSet(d.sources[i].set, SourceKeys)

\* Spec.model_validate: a re.error of a validator does not become a ValidationError.
ModelVerdict(d) ==
  IF \E i \in DOMAIN d.sources : d.sources[i].mapping = "bad lead_remove" THEN "re.error"
  ELSE OkIf(WellFormed(d))

Distinct(s, f(_)) == \A i, j \in DOMAIN s : f(s[i]) = f(s[j]) => i = j

NamesAreUnique(d) ==
  /\ Distinct(d.channels, LAMBDA c : c.name)
  /\ Distinct(d.channels, LAMBDA c : c.id)
  /\ Distinct(d.sources, LAMBDA s : s.name)

BindingsAreKnown(d, s) ==
  /\ \A j \in DOMAIN s.channels : \E i \in DOMAIN d.channels : d.channels[i].name = s.channels[j].name
  /\ Distinct(s.channels, LAMBDA b : b.name)

\* An archive-only source posts nothing: a policy for posting would be dead config.
ArchiveVerdict(d, s) ==
  CASE ~BindingsAreKnown(d, s) -> "SpecError"
    [] BindingsAreKnown(d, s) /\ s.channels = <<>> ->
         IF SourceIsTyped(d, s) THEN OkIf(Effective(s.set, "cold_start_policy", d) = "skip_all")
         ELSE "ValidationError"
    [] OTHER -> "ok"

\* Variant: only what the source itself sets is looked at.
ReviewIsPrivateAsSet(d, s) ==
  "feedback" \in DOMAIN s.set /\ s.set["feedback"] # NoChat =>
    s.set["feedback"] \notin NewsChats(d) \union {d.ops}

ReviewIsPrivate(d, s) ==
  ReviewChat(d, s) # NoChat => ReviewChat(d, s) \notin NewsChats(d) \union {d.ops}
ReviewVerdict(d, s) ==
  IF SourceIsTyped(d, s) THEN OkIf(ReviewIsPrivate(d, s)) ELSE "ValidationError"

OpsChatIsPrivate(d) == d.ops \notin NewsChats(d)

Archive(d) == [i \in DOMAIN d.sources |-> ArchiveVerdict(d, d.sources[i])]
Review(d) == [i \in DOMAIN d.sources |-> ReviewVerdict(d, d.sources[i])]

Passes(verdicts) == \A i \in DOMAIN verdicts : verdicts[i] = "ok"

\* Of entries that are looked at in their order the first that fails raises.
FirstOf(verdicts) ==
  IF Passes(verdicts) THEN "ok" ELSE verdicts[Min({i \in DOMAIN verdicts : verdicts[i] # "ok"})]

\* So does the first of the checks.
Verdict(d) ==
  LET Then(verdict, next) == IF verdict = "ok" THEN next ELSE verdict
  IN  Then(FormVerdict(d), Then(FirstOf(Raw(d)), Then(ModelVerdict(d), Then(OkIf(NamesAreUnique(d)),
        Then(FirstOf(Archive(d)), Then(FirstOf(Review(d)),
          OkIf(DOMAIN d.defaults \subseteq AllowedDefaults /\ OpsChatIsPrivate(d))))))))

Accepted(d) == Verdict(d) = "ok"
=============================================================================
