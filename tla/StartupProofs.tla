--------------------------- MODULE StartupProofs ---------------------------
(***************************************************************************)
(* Proofs about Startup, for any chats, names, documents, edits and        *)
(* faults: what a process works for is a document that the loader          *)
(* accepted, and what the loader accepts keeps the audience safe.          *)
(***************************************************************************)
EXTENDS Startup, NumberLemmas, TLAPS

-----------------------------------------------------------------------------
(* What the loader guarantees *)

\* A sequence is a function on its positions.
LEMMA Positions ==
  ASSUME NEW S, NEW q \in Seq(S)
  PROVE  DOMAIN q = 1..Len(q) /\ Len(q) \in Nat
OBVIOUS

\* What a list of verdicts comes to is ok if all of them are, and one of them if not.
LEMMA FirstOfIsOne ==
  ASSUME NEW v, DOMAIN v \in SUBSET Nat
  PROVE  /\ FirstOf(v) = "ok" => Passes(v)
         /\ FirstOf(v) # "ok" => \E i \in DOMAIN v : FirstOf(v) = v[i]
<1> DEFINE bad == {i \in DOMAIN v : v[i] # "ok"}
<1>1. CASE Passes(v)
  BY <1>1 DEF FirstOf
<1>2. CASE ~Passes(v)
  <2>1. bad \in SUBSET Nat /\ bad # {}
    BY <1>2 DEF Passes
  <2>2. Min(bad) \in bad
    BY <2>1, MinExists
  <2>3. FirstOf(v) = v[Min(bad)]
    BY <1>2 DEF FirstOf
  <2> QED
    BY <2>2, <2>3
<1> QED
  BY <1>1, <1>2

\* The verdicts on the sources are one for each.
LEMMA VerdictsAreNumbered ==
  ASSUME NEW d, IsDoc(d)
  PROVE  /\ DOMAIN d.sources \in SUBSET Nat
         /\ DOMAIN Archive(d) = DOMAIN d.sources /\ DOMAIN Review(d) = DOMAIN d.sources
         /\ d.form # "null sources" => DOMAIN Raw(d) = DOMAIN d.sources
<1>1. DOMAIN d.sources = 1..Len(d.sources) /\ Len(d.sources) \in Nat
  BY Positions DEF IsDoc
<1>2. d.form # "null sources" => Raw(d) = [i \in DOMAIN d.sources |-> RawVerdict(d.sources[i])]
  BY DEF Raw
<1>3. Archive(d) = [i \in DOMAIN d.sources |-> ArchiveVerdict(d, d.sources[i])]
  BY DEF Archive
<1>4. Review(d) = [i \in DOMAIN d.sources |-> ReviewVerdict(d, d.sources[i])]
  BY DEF Review
<1>5. DOMAIN d.sources \in SUBSET Nat
  BY <1>1
<1>6. d.form # "null sources" => DOMAIN Raw(d) = DOMAIN d.sources
  BY <1>2
<1>7. DOMAIN Archive(d) = DOMAIN d.sources /\ DOMAIN Review(d) = DOMAIN d.sources
  BY <1>3, <1>4
<1> QED
  BY <1>5, <1>6, <1>7

\* An accepted document has passed every check.
LEMMA AcceptedPasses ==
  ASSUME NEW d, IsDoc(d), Accepted(d)
  PROVE  /\ WellFormed(d) /\ NamesAreUnique(d) /\ Passes(Archive(d)) /\ Passes(Review(d))
         /\ OpsChatIsPrivate(d)
<1>1. /\ ModelVerdict(d) = "ok" /\ OkIf(NamesAreUnique(d)) = "ok"
      /\ FirstOf(Archive(d)) = "ok" /\ FirstOf(Review(d)) = "ok"
      /\ OkIf(DOMAIN d.defaults \subseteq AllowedDefaults /\ OpsChatIsPrivate(d)) = "ok"
  BY DEF Accepted, Verdict
<1>2. WellFormed(d) /\ NamesAreUnique(d) /\ OpsChatIsPrivate(d)
  BY <1>1 DEF ModelVerdict, OkIf
<1> QED
  BY <1>1, <1>2, VerdictsAreNumbered, FirstOfIsOne

\* A review chat of an accepted document is a chat of its own.
LEMMA ReviewChatsArePrivate ==
  ASSUME NEW d, IsDoc(d), Accepted(d), NEW c \in ReviewChats(d)
  PROVE  c \in Chats /\ c \notin NewsChats(d) \union {d.ops}
<1>1. PICK i \in DOMAIN d.sources : c = ReviewChat(d, d.sources[i]) /\ c # NoChat
  BY DEF ReviewChats
<1> DEFINE s == d.sources[i]
<1>2. ReviewVerdict(d, s) = "ok"
  BY <1>1, AcceptedPasses DEF Passes, Review
<1>3. SourceIsTyped(d, s) /\ ReviewIsPrivate(d, s)
  BY <1>2 DEF ReviewVerdict, OkIf
<1>4. c \in Legal("feedback")
  BY <1>1, <1>3 DEF SourceIsTyped, ReviewChat
<1>5. c \in Chats
  BY <1>1, <1>4 DEF Legal
<1> QED
  BY <1>1, <1>3, <1>5 DEF ReviewIsPrivate

\* The ops chat of an accepted document is no news channel.
LEMMA OpsChatIsApart ==
  ASSUME NEW d, IsDoc(d), Accepted(d)
  PROVE  d.ops \notin NewsChats(d)
BY AcceptedPasses DEF OpsChatIsPrivate

AllLegal(d) == \A k \in DOMAIN d.defaults : d.defaults[k] \in Legal(k)

\* The documented defaults are legal.
LEMMA DocumentedIsLegal ==
  ASSUME NEW key \in AllowedDefaults
  PROVE  Documented[key] \in Legal(key)
BY DEF AllowedDefaults, SourceKeys, ChannelKeys, BindingKeys, Documented, Legal

\* Legal settings over legal defaults resolve to legal values, whatever the layer leaves open.
LEMMA EffectiveIsLegal ==
  ASSUME NEW d, AllLegal(d), NEW layer, NEW keys, WellSet(layer, keys),
         NEW key \in AllowedDefaults
  PROVE  Effective(layer, key, d) \in Legal(key)
BY DocumentedIsLegal DEF AllLegal, WellSet, Effective

\* A source of a well-formed document with legal defaults can be resolved.
LEMMA SourcesAreTyped ==
  ASSUME NEW d, WellFormed(d), AllLegal(d), NEW i \in DOMAIN d.sources
  PROVE  /\ SourceIsTyped(d, d.sources[i])
         /\ ~Poisoned(d, d.sources[i])
<1>1. WellSet(d.sources[i].set, SourceKeys)
  BY DEF WellFormed
<1>2. {"enabled", "feedback", "cold_start_policy"} \subseteq AllowedDefaults
  BY DEF AllowedDefaults, SourceKeys
<1> QED
  BY <1>1, <1>2, EffectiveIsLegal DEF SourceIsTyped, Poisoned

\* The entry that Spec.channel finds is an entry of that name.
LEMMA ChannelIsFound ==
  ASSUME NEW d, IsDoc(d), NamesAreUnique(d), NEW n,
         \E i \in DOMAIN d.channels : d.channels[i].name = n
  PROVE  \E i \in DOMAIN d.channels : Channel(d, n) = d.channels[i]
<1>1. PICK i \in DOMAIN d.channels : d.channels[i].name = n
  OBVIOUS
<1>2. DOMAIN d.channels = 1..Len(d.channels) /\ Len(d.channels) \in Nat
  BY Positions DEF IsDoc
<1>3. \A j \in DOMAIN d.channels : d.channels[j].name = n => j = i
  BY <1>1 DEF NamesAreUnique, Distinct
<1>4. \A j \in 1..(i - 1) : d.channels[j].name # n
  BY <1>2, <1>3
<1> DEFINE First1(k) == d.channels[k].name = n /\ \A j \in 1..(k - 1) : d.channels[j].name # n
<1>5. (CHOOSE k \in DOMAIN d.channels : First1(k)) \in DOMAIN d.channels
  BY <1>1, <1>4
<1> QED
  BY <1>5 DEF Channel

\* A channel of a well-formed document with legal defaults can be resolved.
LEMMA ChannelsAreTyped ==
  ASSUME NEW d, IsDoc(d), WellFormed(d), NamesAreUnique(d), AllLegal(d), NEW n,
         \E i \in DOMAIN d.channels : d.channels[i].name = n
  PROVE  /\ WellSet(Channel(d, n).set, ChannelKeys)
         /\ ChannelIsTyped(d, n)
<1>1. WellSet(Channel(d, n).set, ChannelKeys)
  BY ChannelIsFound DEF WellFormed
<1>2. "enabled" \in AllowedDefaults /\ "max_age_min" \in AllowedDefaults
  BY DEF AllowedDefaults, ChannelKeys
<1>3. /\ Effective(Channel(d, n).set, "enabled", d) \in Legal("enabled")
      /\ Effective(Channel(d, n).set, "max_age_min", d) \in Legal("max_age_min")
  BY <1>1, <1>2, EffectiveIsLegal
<1> QED
  BY <1>1, <1>3 DEF ChannelIsTyped, ResolveChannel

\* So can every pair of an accepted document with legal defaults.
LEMMA PairsAreTyped ==
  ASSUME NEW d, IsDoc(d), Accepted(d), AllLegal(d), NEW p \in Pairs(d)
  PROVE  PairIsTyped(d, p[1], p[2])
<1>1. PICK i \in DOMAIN d.sources :
        \E j \in DOMAIN d.sources[i].channels : p = <<d.sources[i], d.sources[i].channels[j]>>
  BY DEF Pairs
<1>2. PICK j \in DOMAIN d.sources[i].channels : p = <<d.sources[i], d.sources[i].channels[j]>>
  BY <1>1
<1> DEFINE s == d.sources[i]
           b == s.channels[j]
<1>3. p[1] = s /\ p[2] = b
  BY <1>2
<1>4. WellFormed(d) /\ NamesAreUnique(d)
  BY AcceptedPasses
<1>5. ArchiveVerdict(d, s) = "ok"
  BY AcceptedPasses DEF Passes, Archive
<1>6. BindingsAreKnown(d, s)
  BY <1>5 DEF ArchiveVerdict
<1>7. \E k \in DOMAIN d.channels : d.channels[k].name = b.name
  BY <1>6 DEF BindingsAreKnown
<1>8. WellSet(Channel(d, b.name).set, ChannelKeys) /\ ChannelIsTyped(d, b.name)
  BY <1>4, <1>7, ChannelsAreTyped
<1>9. SourceIsTyped(d, s)
  BY <1>4, SourcesAreTyped
<1>10. WellSet(b.set, BindingKeys)
  BY <1>3, <1>4 DEF WellFormed
<1>11. "lead_max_length" \in AllowedDefaults /\ "post_style" \in AllowedDefaults
  BY DEF AllowedDefaults, BindingKeys
<1>12. Effective(b.set, "lead_max_length", d) \in Legal("lead_max_length")
  BY <1>10, <1>11, EffectiveIsLegal
<1>13. Effective(Channel(d, b.name).set, "post_style", d) \in Legal("post_style")
  BY <1>8, <1>11, EffectiveIsLegal
<1>14. PostStyle(d, b) \in Legal("post_style")
  BY <1>10, <1>13 DEF PostStyle, WellSet
<1>15. \A k \in {"lead_max_length", "post_style"} : ResolvePair(d, s, b)[k] \in Legal(k)
  BY <1>12, <1>14 DEF ResolvePair
<1> QED
  BY <1>3, <1>8, <1>9, <1>15 DEF PairIsTyped

\* A ValidationError out of the loader is one of resolve_source, over a value in the defaults.
LEMMA ValidationIsOfDefaults ==
  ASSUME NEW d, IsDoc(d), Verdict(d) = "ValidationError"
  PROVE  ~AllLegal(d)
<1> SUFFICES ASSUME AllLegal(d) PROVE FALSE
  OBVIOUS
<1>1. FirstOf(Raw(d)) # "ValidationError"
  <2>1. CASE d.form = "null sources"
    <3>1. Raw(d) = <<"TypeError">>
      BY <2>1 DEF Raw
    <3>2. DOMAIN Raw(d) = {1} /\ Raw(d)[1] = "TypeError"
      BY <3>1
    <3> QED
      BY <3>2, FirstOfIsOne
  <2>2. CASE d.form # "null sources"
    <3>1. \A i \in DOMAIN d.sources : Raw(d)[i] # "ValidationError"
      BY <2>2 DEF Raw, RawVerdict, OkIf
    <3> QED
      BY <2>2, <3>1, VerdictsAreNumbered, FirstOfIsOne
  <2> QED
    BY <2>1, <2>2
<1>2. FormVerdict(d) # "ValidationError" /\ ModelVerdict(d) # "ValidationError"
  BY DEF FormVerdict, ModelVerdict, OkIf
<1>3. /\ ModelVerdict(d) = "ok"
      /\ FirstOf(Archive(d)) = "ValidationError" \/ FirstOf(Review(d)) = "ValidationError"
  BY <1>1, <1>2 DEF Verdict, OkIf
<1>4. \A i \in DOMAIN d.sources : SourceIsTyped(d, d.sources[i])
  BY <1>3, SourcesAreTyped DEF ModelVerdict, OkIf
<1>5. \A i \in DOMAIN d.sources : Archive(d)[i] # "ValidationError"
  BY <1>4 DEF Archive, ArchiveVerdict, OkIf
<1>6. \A i \in DOMAIN d.sources : Review(d)[i] # "ValidationError"
  BY <1>4 DEF Review, ReviewVerdict, OkIf
<1> QED
  BY <1>3, <1>5, <1>6, VerdictsAreNumbered, FirstOfIsOne

-----------------------------------------------------------------------------
(* The inductive invariant, one part for each piece of state.  A process that works has an accepted   *)
(* document, or a card could go anywhere, and has recorded it, or a row could come before its version. *)

EnvInv == IsEnv(env) /\ at \in [Places -> {at[p] : p \in Places}] /\ \A p \in Places : IsDoc(at[p])

JobInv ==
  /\ job \in [pc : JobPCs, doc : {job.doc}] /\ IsDoc(job.doc)
  /\ job.pc \in {"loaded", "recorded", "fetched"} => Accepted(job.doc)
  /\ job.pc \in {"recorded", "fetched"} => job.doc \in versions
  /\ job.pc = "unresolved" => ~AllLegal(job.doc)

WebInv ==
  /\ web \in [pc : WebPCs, env : {web.env}, doc : {web.doc}] /\ IsEnv(web.env) /\ IsDoc(web.doc)
  /\ web.pc = "up" => web.env.set # {}
  /\ web.pc = "built" => Accepted(web.doc) /\ web.doc \in versions /\ web.env.set # {}

StoreInv == (\A d \in versions : IsDoc(d)) /\ healed \in {NoChat, Supergroup}

IsSafe(m, h) ==
  /\ m \in [kind : Kinds, chat : Chats, doc : {m.doc}] /\ IsDoc(m.doc)
  /\ m.kind = "card" => m.chat \notin NewsChats(m.doc) \union {m.doc.ops}
  /\ m.kind \in {"alert", "menu"} /\ m.chat \in NewsChats(m.doc) => h # NoChat

OutInv == rows \subseteq versions /\ \A m \in out : IsSafe(m, healed)

CountInv == edits \in 0..MaxEdits /\ faults \in 0..MaxFaults

Inv == EnvInv /\ JobInv /\ WebInv /\ StoreInv /\ OutInv /\ CountInv

\* A message that is sent to chats of Telegram is well typed.
LEMMA NoteType ==
  ASSUME NEW kind \in Kinds, NEW chats \in SUBSET Chats, NEW d, IsDoc(d),
         NEW m \in Note(kind, chats, d)
  PROVE  /\ m \in [kind : Kinds, chat : Chats, doc : {m.doc}] /\ IsDoc(m.doc)
         /\ m.kind = kind /\ m.chat \in chats /\ m.doc = d
BY DEF Note

\* The ops chat of a document that has one is a chat.
LEMMA OpsChatType ==
  ASSUME StoreInv, NEW d, IsDoc(d), d.ops # NoChat
  PROVE  d.ops \in Chats /\ OpsChat(d) \in Chats
BY StartupAssumption DEF StoreInv, IsDoc, OpsChat

\* What a report changes stays well typed.
LEMMA ReportType ==
  ASSUME StoreInv, NEW d, IsDoc(d), Report(d)
  PROVE  /\ rows' = {d} /\ healed' \in {NoChat, Supergroup}
         /\ \A m \in out' : /\ m \in [kind : Kinds, chat : Chats, doc : {m.doc}] /\ IsDoc(m.doc)
                            /\ m.kind = "alert" /\ m.doc = d
                            /\ m.chat = d.ops \/ healed' # NoChat
<1>1. Supergroup \in Chats /\ Supergroup # NoChat /\ "alert" \in Kinds
  BY StartupAssumption, ChatsAssumption DEF Kinds
<1>2. rows' = {d} /\ healed' \in {NoChat, Supergroup}
  BY DEF Report, StoreInv
<1>3. CASE out' = {}
  BY <1>2, <1>3
<1>4. CASE d.ops # NoChat /\ out' = Note("alert", {OpsChat(d)}, d) /\ UNCHANGED healed
  <2>1. {OpsChat(d)} \in SUBSET Chats
    BY <1>4, OpsChatType
  <2>2. OpsChat(d) = d.ops \/ healed' # NoChat
    BY <1>4 DEF OpsChat
  <2> QED
    BY <1>1, <1>2, <1>4, <2>1, <2>2, NoteType
<1>5. CASE healed' = Supergroup /\ out' = Note("alert", {Supergroup}, d)
  <2>1. {Supergroup} \in SUBSET Chats
    BY <1>1
  <2> QED
    BY <1>1, <1>2, <1>5, <2>1, NoteType
<1> QED
  BY <1>3, <1>4, <1>5 DEF Report

\* A card is well typed, and it is shown in a chat that the document reviews in.
LEMMA CardType ==
  ASSUME NEW d, IsDoc(d), Accepted(d), Card(d)
  PROVE  /\ rows' = {}
         /\ \A m \in out' : /\ m \in [kind : Kinds, chat : Chats, doc : {m.doc}] /\ IsDoc(m.doc)
                            /\ m.kind = "card" /\ m.doc = d /\ m.chat \in ReviewChats(d)
<1>1. PICK c \in ReviewChats(d) : out' = Note("card", {c}, d) /\ rows' = {}
  BY DEF Card
<1>2. {c} \in SUBSET Chats /\ "card" \in Kinds
  BY ReviewChatsArePrivate DEF Kinds
<1> QED
  BY <1>1, <1>2, NoteType

\* Whatever its environment, a process reads a document.
LEMMA BytesType ==
  ASSUME EnvInv, NEW e, IsEnv(e), e.set # {}
  PROVE  IsDoc(Bytes(e))
<1>1. e.set \subseteq Variables
  BY DEF IsEnv
<1>2. \E v \in e.set : /\ "SPEC_JSON" \in e.set => v = "SPEC_JSON"
                       /\ "SPEC_JSON" \notin e.set /\ "SPEC_URL" \in e.set => v = "SPEC_URL"
  OBVIOUS
<1>3. Chosen(e) \in e.set
  BY <1>2 DEF Chosen
<1>4. CASE Chosen(e) = "SPEC_JSON"
  BY <1>4 DEF Bytes, IsEnv
<1>5. CASE Chosen(e) # "SPEC_JSON"
  BY <1>1, <1>3, <1>5 DEF Bytes, EnvInv, Variables, Places
<1> QED
  BY <1>4, <1>5

\* In the initial states no process works.
LEMMA InitInv == Init => Inv
BY StartupAssumption
   DEF Init, Inv, EnvInv, JobInv, WebInv, StoreInv, OutInv, CountInv, IsEnv, FirstEnv, Off, Down,
       Places, Variables, JobPCs, WebPCs

\* What stands still stays as it should be while versions grows.
LEMMA JobStays ==
  ASSUME JobInv, UNCHANGED job, versions \subseteq versions'
  PROVE  JobInv'
BY DEF JobInv

\* The same of the webhook app.
LEMMA WebStays ==
  ASSUME WebInv, UNCHANGED web, versions \subseteq versions'
  PROVE  WebInv'
BY DEF WebInv

\* A step that writes and sends nothing keeps what is said of rows and messages.
LEMMA SilentOut == Silent => OutInv'
BY DEF Silent, OutInv

\* A report of a recorded and accepted document is safe.
LEMMA ReportOut ==
  ASSUME StoreInv, NEW d, IsDoc(d), Accepted(d), d \in versions, UNCHANGED versions, Report(d)
  PROVE  StoreInv' /\ OutInv'
<1>1. /\ rows' = {d} /\ healed' \in {NoChat, Supergroup}
      /\ \A m \in out' : /\ m \in [kind : Kinds, chat : Chats, doc : {m.doc}] /\ IsDoc(m.doc)
                         /\ m.kind = "alert" /\ m.doc = d
                         /\ m.chat = d.ops \/ healed' # NoChat
  BY ReportType
<1>2. \A m \in out' : IsSafe(m, healed')
  BY <1>1, OpsChatIsApart DEF IsSafe
<1> QED
  BY <1>1, <1>2 DEF StoreInv, OutInv

\* A card of an accepted document is safe.
LEMMA CardOut ==
  ASSUME NEW d, IsDoc(d), Accepted(d), Card(d)
  PROVE  OutInv'
<1>1. /\ rows' = {}
      /\ \A m \in out' : /\ m \in [kind : Kinds, chat : Chats, doc : {m.doc}] /\ IsDoc(m.doc)
                         /\ m.kind = "card" /\ m.doc = d /\ m.chat \in ReviewChats(d)
  BY CardType
<1>2. \A m \in out' : IsSafe(m, healed')
  BY <1>1, ReviewChatsArePrivate DEF IsSafe
<1> QED
  BY <1>1, <1>2 DEF OutInv

\* The operator changes documents and variables, and no process sees it before it loads.
LEMMA PublishStep == ASSUME Inv, NEW p \in Published, Publish(p) PROVE Inv'
<1>1. p \in Places
  BY StartupAssumption DEF Places
<1>2. PICK d \in Edits(at[p]) : IsDoc(d) /\ at' = [at EXCEPT ![p] = d]
  BY DEF Publish
<1>3. UNCHANGED <<env, job, web, versions, healed, faults>> /\ edits' = edits + 1 /\ edits < MaxEdits
  BY DEF Publish
<1>4. EnvInv'
  <2>1. at' \in [Places -> {at'[q] : q \in Places}]
    BY <1>1, <1>2 DEF Inv, EnvInv
  <2>2. \A q \in Places : IsDoc(at'[q])
    BY <1>1, <1>2 DEF Inv, EnvInv
  <2> QED
    BY <1>3, <2>1, <2>2 DEF Inv, EnvInv
<1>5. JobInv' /\ WebInv'
  BY <1>3, JobStays, WebStays DEF Inv
<1>6. StoreInv' /\ OutInv'
  BY <1>3, SilentOut DEF Inv, StoreInv, Publish
<1>7. CountInv'
  BY <1>3, StartupAssumption DEF Inv, CountInv
<1> QED
  BY <1>4, <1>5, <1>6, <1>7 DEF Inv

\* The same of the environment.
LEMMA RedeployStep == ASSUME Inv, NEW v \in Variables, Redeploy(v) PROVE Inv'
<1>1. UNCHANGED <<at, job, web, versions, healed, faults>> /\ edits' = edits + 1 /\ edits < MaxEdits
  BY DEF Redeploy
<1>2. IsEnv(env')
  <2>1. CASE v \in env.set /\ env' = [env EXCEPT !.set = @ \ {v}]
    BY <2>1 DEF Inv, EnvInv, IsEnv
  <2>2. CASE v \notin env.set /\ v \in Places /\ env' = [env EXCEPT !.set = @ \union {v}]
    BY <2>2 DEF Inv, EnvInv, IsEnv
  <2>3. CASE \E p \in Published : env' = [set |-> env.set \union {v}, json |-> at[p]]
    <3>1. PICK p \in Published : env' = [set |-> env.set \union {v}, json |-> at[p]]
      BY <2>3
    <3>2. IsDoc(at[p])
      BY StartupAssumption DEF Inv, EnvInv, Places
    <3> QED
      BY <3>1, <3>2 DEF Inv, EnvInv, IsEnv
  <2> QED
    BY <2>1, <2>2, <2>3 DEF Redeploy
<1>3. EnvInv'
  BY <1>1, <1>2 DEF Inv, EnvInv
<1>4. JobInv' /\ WebInv'
  BY <1>1, JobStays, WebStays DEF Inv
<1>5. StoreInv' /\ OutInv'
  BY <1>1, SilentOut DEF Inv, StoreInv, Redeploy
<1>6. CountInv'
  BY <1>1, StartupAssumption DEF Inv, CountInv
<1> QED
  BY <1>3, <1>4, <1>5, <1>6 DEF Inv

\* A job that finds no variable, loads, fails to load or dies of it, has what the loader says.
LEMMA StartStep ==
  ASSUME Inv, NotConfigured \/ JobLoads \/ JobRefuses \/ JobDies
  PROVE  Inv'
<1>1. UNCHANGED <<env, at, web, versions, healed, edits, faults>>
  BY DEF NotConfigured, JobLoads, JobRefuses, JobDies
<1>2. EnvInv' /\ WebInv' /\ StoreInv' /\ CountInv'
  BY <1>1, WebStays DEF Inv, EnvInv, StoreInv, CountInv
<1>3. IsDoc(First)
  BY StartupAssumption
<1>4. Starts => IsDoc(Bytes(env))
  BY BytesType DEF Starts, Inv, EnvInv
<1>5. CASE NotConfigured
  BY <1>3, <1>5, SilentOut, <1>2 DEF NotConfigured, Off, Inv, JobInv, JobPCs
<1>6. CASE JobLoads
  <2>1. JobInv'
    BY <1>4, <1>6 DEF JobLoads, JobInv, JobPCs
  <2> QED
    BY <1>2, <1>6, <2>1, SilentOut DEF JobLoads, Inv
<1>7. CASE JobRefuses
  <2>1. JobInv'
    BY <1>3, <1>7 DEF JobRefuses, JobInv, JobPCs, Off
  <2> DEFINE d == Bytes(env)
  <2>2. IsDoc(d) /\ rows' = {}
    BY <1>4, <1>7 DEF JobRefuses
  <2>3. out' = {} \/ (d.ops # NoChat /\ out' = Note("emergency", {d.ops}, d))
    BY <1>7 DEF JobRefuses
  <2> HIDE DEF d
  <2>4. d.ops # NoChat => {d.ops} \in SUBSET Chats
    BY <2>2 DEF IsDoc
  <2>5. \A m \in out' : IsSafe(m, healed')
    <3>1. CASE out' = {}
      BY <3>1
    <3>2. CASE d.ops # NoChat /\ out' = Note("emergency", {d.ops}, d)
      BY <2>2, <2>4, <3>2, NoteType DEF IsSafe, Kinds
    <3> QED
      BY <2>3, <3>1, <3>2
  <2> QED
    BY <1>2, <2>1, <2>2, <2>5 DEF Inv, OutInv
<1>8. CASE JobDies
  <2>1. JobInv'
    BY <1>4, <1>8, ValidationIsOfDefaults DEF JobDies, JobInv, JobPCs, Broken, Breaks
  <2> QED
    BY <1>2, <1>8, <2>1, SilentOut DEF JobDies, Inv
<1> QED
  BY <1>5, <1>6, <1>7, <1>8

\* The job records its document before it works for it, and breaks down over a default only.
LEMMA RecordStep == ASSUME Inv, Record PROVE Inv'
<1>1. /\ UNCHANGED <<env, at, web, healed, edits, faults>>
      /\ versions' = versions \union {job.doc} /\ job.pc = "loaded"
  BY DEF Record
<1>2. IsDoc(job.doc) /\ Accepted(job.doc)
  BY <1>1 DEF Inv, JobInv
<1>3. EnvInv' /\ WebInv' /\ StoreInv' /\ CountInv'
  BY <1>1, <1>2, WebStays DEF Inv, EnvInv, StoreInv, CountInv
<1>4. CASE \A p \in Pairs(job.doc) : PairIsTyped(job.doc, p[1], p[2])
  <2>1. job' = [job EXCEPT !.pc = "recorded"]
    BY <1>4 DEF Record
  <2> QED
    BY <1>1, <1>2, <1>3, <2>1, SilentOut DEF Inv, JobInv, JobPCs, Record
<1>5. CASE ~\A p \in Pairs(job.doc) : PairIsTyped(job.doc, p[1], p[2])
  <2>1. job' = Breaks("unresolved", job.doc)
    BY <1>5 DEF Record
  <2>2. ~AllLegal(job.doc)
    BY <1>2, <1>5, PairsAreTyped
  <2>3. JobInv'
    BY <1>2, <2>1, <2>2 DEF JobInv, JobPCs, Broken, Breaks
  <2> QED
    BY <1>3, <2>3, SilentOut DEF Inv, Record
<1> QED
  BY <1>4, <1>5

\* A source without a policy has it from the defaults; rows are written of the document only.
LEMMA FetchStep == ASSUME Inv, Fetch PROVE Inv'
<1> DEFINE d == job.doc
<1>1. /\ UNCHANGED <<env, at, web, versions, healed, edits, faults>>
      /\ out' = {} /\ job.pc = "recorded"
  BY DEF Fetch
<1>2. IsDoc(d) /\ Accepted(d) /\ d \in versions
  BY <1>1 DEF Inv, JobInv
<1>3. EnvInv' /\ WebInv' /\ StoreInv' /\ CountInv'
  BY <1>1, WebStays DEF Inv, EnvInv, StoreInv, CountInv
<1> DEFINE on == {i \in DOMAIN d.sources : Effective(d.sources[i].set, "enabled", d) = "on"}
           Unparsed(S) == {i \in S : d.sources[i].mapping = "bad expression"}
           Misled(S) == {i \in S : Poisoned(d, d.sources[i])}
           Dies(got, fresh) == Unparsed(got) \union Misled(fresh)
           Ends(got, fresh) ==
             \/ job' = [job EXCEPT !.pc = "fetched"]
             \/ \E i \in Dies(got, fresh) :
                  job' = Breaks(IF i \in Unparsed(got) THEN "crashed" ELSE "unresolved", d)
           Wrote(S) == rows' = {d : i \in S}
<1>4. \E due \in SUBSET on : \E got \in SUBSET due : \E fresh \in SUBSET got :
        Ends(got, fresh) /\ \E S \in SUBSET due : Wrote(S)
  BY DEF Fetch
<1>5. PICK due \in SUBSET on, got \in SUBSET on, fresh \in SUBSET on :
        Ends(got, fresh) /\ \E S \in SUBSET due : Wrote(S)
  BY <1>4
<1>6. OutInv'
  BY <1>1, <1>2, <1>5 DEF OutInv
<1>7. CASE job' = [job EXCEPT !.pc = "fetched"]
  BY <1>1, <1>2, <1>3, <1>6, <1>7 DEF Inv, JobInv, JobPCs
<1>8. CASE \E i \in Dies(got, fresh) :
             job' = Breaks(IF i \in Unparsed(got) THEN "crashed" ELSE "unresolved", d)
  <2>1. PICK i \in Dies(got, fresh) :
          job' = Breaks(IF i \in Unparsed(got) THEN "crashed" ELSE "unresolved", d)
    BY <1>8
  <2>2. job'.pc = "unresolved" => Poisoned(d, d.sources[i]) /\ i \in DOMAIN d.sources
    BY <2>1 DEF Breaks
  <2>3. job'.pc = "unresolved" => ~AllLegal(d)
    BY <1>2, <2>2, SourcesAreTyped, AcceptedPasses
  <2>4. JobInv'
    BY <1>2, <2>1, <2>3 DEF JobInv, JobPCs, Broken, Breaks
  <2> QED
    BY <1>3, <1>6, <2>4 DEF Inv
<1> QED
  BY <1>5, <1>7, <1>8

\* A channel that cannot be resolved has a value of the defaults; a card goes to a review chat.
LEMMA PostStep == ASSUME Inv, Post PROVE Inv'
<1> DEFINE d == job.doc
           Typed == \A i \in DOMAIN d.channels : ChannelIsTyped(d, d.channels[i].name)
<1>1. UNCHANGED <<env, at, web, versions, healed, edits, faults>> /\ job.pc = "fetched"
  BY DEF Post
<1>2. IsDoc(d) /\ Accepted(d)
  BY <1>1 DEF Inv, JobInv
<1>3. EnvInv' /\ WebInv' /\ StoreInv' /\ CountInv'
  BY <1>1, WebStays DEF Inv, EnvInv, StoreInv, CountInv
<1>4. CASE Typed
  <2>1. job' = Off /\ (Card(d) \/ Silent)
    BY <1>4 DEF Post
  <2>2. OutInv'
    BY <1>2, <2>1, SilentOut, CardOut
  <2>3. JobInv'
    BY <2>1, StartupAssumption DEF JobInv, JobPCs, Off
  <2> QED
    BY <1>3, <2>2, <2>3 DEF Inv
<1>5. CASE ~Typed
  <2>1. job' = Breaks("unresolved", d) /\ Silent
    BY <1>5 DEF Post
  <2>2. WellFormed(d) /\ NamesAreUnique(d)
    BY <1>2, AcceptedPasses
  <2>3. ~AllLegal(d)
    BY <1>2, <1>5, <2>2, ChannelsAreTyped
  <2>4. JobInv'
    BY <1>2, <2>1, <2>3 DEF JobInv, JobPCs, Broken, Breaks
  <2> QED
    BY <1>3, <2>1, <2>4, SilentOut DEF Inv
<1> QED
  BY <1>4, <1>5

\* A report goes out for the recorded document of the process that makes it.
LEMMA ReportStep == ASSUME Inv, JobReports \/ WebReports PROVE Inv'
<1>1. UNCHANGED <<env, at, job, web, versions, edits, faults>>
  BY DEF JobReports, WebReports
<1>2. EnvInv' /\ JobInv' /\ WebInv' /\ CountInv'
  BY <1>1, JobStays, WebStays DEF Inv, EnvInv, CountInv
<1>3. StoreInv' /\ OutInv'
  <2>1. CASE JobReports
    <3>1. IsDoc(job.doc) /\ Accepted(job.doc) /\ job.doc \in versions /\ Report(job.doc)
      BY <2>1 DEF JobReports, Inv, JobInv
    <3> QED
      BY <1>1, <3>1, ReportOut DEF Inv
  <2>2. CASE WebReports
    <3>1. IsDoc(web.doc) /\ Accepted(web.doc) /\ web.doc \in versions /\ Report(web.doc)
      BY <2>2 DEF WebReports, Inv, WebInv
    <3> QED
      BY <1>1, <3>1, ReportOut DEF Inv
  <2> QED
    BY <2>1, <2>2
<1> QED
  BY <1>2, <1>3 DEF Inv

\* A job that fails forgets its document.
LEMMA JobFailsStep == ASSUME Inv, JobFails PROVE Inv'
<1>1. /\ UNCHANGED <<env, at, web, versions, healed, edits>>
      /\ faults < MaxFaults /\ faults' = faults + 1 /\ job' = Off /\ Silent
  BY DEF JobFails
<1>2. EnvInv' /\ WebInv' /\ StoreInv'
  BY <1>1, WebStays DEF Inv, EnvInv, StoreInv
<1>3. JobInv'
  BY <1>1, StartupAssumption DEF JobInv, JobPCs, Off
<1>4. CountInv'
  BY <1>1, StartupAssumption DEF Inv, CountInv
<1> QED
  BY <1>1, <1>2, <1>3, <1>4, SilentOut DEF Inv

\* The webhook app has its environment from its start, and its document from its first request.
LEMMA WebMovesStep ==
  ASSUME Inv, Serve \/ Build \/ Stale \/ ScaleToZero
  PROVE  Inv'
<1>1. /\ UNCHANGED <<env, at, job, healed, edits>> /\ Silent
      /\ faults' = faults \/ (faults < MaxFaults /\ faults' = faults + 1)
  BY DEF Serve, Build, Stale, ScaleToZero
<1>2. EnvInv' /\ CountInv'
  BY <1>1, StartupAssumption DEF Inv, EnvInv, CountInv
<1>3. OutInv'
  BY <1>1, SilentOut
<1>4. IsDoc(First) /\ IsEnv(FirstEnv) /\ FirstEnv.set # {}
  BY StartupAssumption DEF IsEnv, FirstEnv, Variables, Places
<1>5. CASE Serve
  <2>1. UNCHANGED versions
    BY <1>5 DEF Serve
  <2>2. WebInv'
    BY <1>5 DEF Serve, Inv, EnvInv, WebInv, WebPCs
  <2> QED
    BY <1>1, <1>2, <1>3, <2>1, <2>2, JobStays DEF Inv, StoreInv
<1>6. CASE Build
  <2> DEFINE d == Bytes(web.env)
  <2>1. /\ versions' = versions \union {d} /\ Accepted(d) /\ web.pc = "up"
        /\ web' = [web EXCEPT !.pc = "built", !.doc = d]
    BY <1>6 DEF Build
  <2>2. IsDoc(d) /\ web.env.set # {}
    BY <2>1, BytesType DEF Inv, WebInv
  <2> HIDE DEF d
  <2>3. WebInv'
    BY <2>1, <2>2 DEF Inv, WebInv, WebPCs
  <2>4. StoreInv'
    BY <1>1, <2>1, <2>2 DEF Inv, StoreInv
  <2> QED
    BY <1>1, <1>2, <1>3, <2>1, <2>3, <2>4, JobStays DEF Inv
<1>7. CASE Stale
  <2>1. UNCHANGED versions
    BY <1>7 DEF Stale
  <2>2. WebInv'
    BY <1>4, <1>7 DEF Stale, Inv, WebInv, WebPCs
  <2> QED
    BY <1>1, <1>2, <1>3, <2>1, <2>2, JobStays DEF Inv, StoreInv
<1>8. CASE ScaleToZero
  <2>1. UNCHANGED versions
    BY <1>8 DEF ScaleToZero
  <2>2. WebInv'
    BY <1>4, <1>8 DEF ScaleToZero, Inv, WebInv, WebPCs, Down
  <2> QED
    BY <1>1, <1>2, <1>3, <2>1, <2>2, JobStays DEF Inv, StoreInv
<1> QED
  BY <1>5, <1>6, <1>7, <1>8

\* A card goes out for the accepted document of the webhook app.
LEMMA WebShowsStep == ASSUME Inv, WebShows PROVE Inv'
<1>1. /\ UNCHANGED <<env, at, job, web, versions, healed, edits, faults>>
      /\ web.pc = "built" /\ Card(web.doc)
  BY DEF WebShows
<1>2. IsDoc(web.doc) /\ Accepted(web.doc)
  BY <1>1 DEF Inv, WebInv
<1>3. OutInv'
  BY <1>1, <1>2, CardOut
<1> QED
  BY <1>1, <1>3, JobStays, WebStays DEF Inv, EnvInv, StoreInv, CountInv

\* A menu goes to the chats of an accepted document, or to the stored ops chat.
LEMMA RegisterStep == ASSUME Inv, Register PROVE Inv'
<1> DEFINE d == Bytes(env)
<1>1. /\ UNCHANGED <<env, at, job, web, versions, healed, edits, faults>>
      /\ env.set # {} /\ Accepted(d) /\ d.ops # NoChat /\ rows' = {}
  BY DEF Register
<1>2. PICK ops \in {OpsChat(d), d.ops} : out' = Note("menu", {ops} \union ReviewChats(d), d)
  BY DEF Register
<1>3. IsDoc(d)
  BY <1>1, BytesType DEF Inv, EnvInv
<1> HIDE DEF d
<1>4. ops \in Chats /\ (ops = d.ops \/ healed # NoChat)
  BY <1>1, <1>2, <1>3, OpsChatType DEF OpsChat, Inv
<1>5. \A c \in ReviewChats(d) : c \in Chats /\ c \notin NewsChats(d)
  BY <1>1, <1>3, ReviewChatsArePrivate
<1>6. {ops} \union ReviewChats(d) \in SUBSET Chats /\ "menu" \in Kinds
  BY <1>4, <1>5 DEF Kinds
<1>7. ASSUME NEW m \in out' PROVE IsSafe(m, healed')
  <2>1. /\ m \in [kind : Kinds, chat : Chats, doc : {m.doc}] /\ IsDoc(m.doc)
        /\ m.kind = "menu" /\ m.chat \in {ops} \union ReviewChats(d) /\ m.doc = d
    BY <1>2, <1>3, <1>6, NoteType
  <2>2. d.ops \notin NewsChats(d)
    BY <1>1, <1>3, OpsChatIsApart
  <2> QED
    BY <1>1, <1>4, <1>5, <2>1, <2>2 DEF IsSafe
<1>8. OutInv'
  BY <1>1, <1>7 DEF OutInv
<1> QED
  BY <1>1, <1>8, JobStays, WebStays DEF Inv, EnvInv, StoreInv, CountInv

\* Every step keeps the invariant.
LEMMA StepInv == Inv /\ [Next]_vars => Inv'
<1> SUFFICES ASSUME Inv, [Next]_vars PROVE Inv'
  OBVIOUS
<1>1. CASE NotConfigured \/ JobLoads \/ JobRefuses \/ JobDies
  BY <1>1, StartStep
<1>2. CASE Record \/ Fetch \/ Post
  BY <1>2, RecordStep, FetchStep, PostStep
<1>3. CASE JobReports \/ WebReports
  BY <1>3, ReportStep
<1>4. CASE JobFails \/ WebShows \/ Register
  BY <1>4, JobFailsStep, WebShowsStep, RegisterStep
<1>5. CASE Serve \/ Build \/ Stale \/ ScaleToZero
  BY <1>5, WebMovesStep
<1>6. CASE \E p \in Published : Publish(p)
  BY <1>6, PublishStep
<1>7. CASE \E v \in Variables : Redeploy(v)
  BY <1>7, RedeployStep
<1>8. CASE UNCHANGED vars
  BY <1>8 DEF vars, Inv, EnvInv, JobInv, WebInv, StoreInv, OutInv, CountInv
<1> QED
  BY <1>1, <1>2, <1>3, <1>4, <1>5, <1>6, <1>7, <1>8 DEF Next, JobStep, WebStep, Faults, Operator

\* The invariant holds in every reachable state.
LEMMA AlwaysInv == Spec => []Inv
BY InitInv, StepInv, PTL DEF Spec

-----------------------------------------------------------------------------
(* The theorems *)

\* Every state is well typed: what a process works for is always a document.
THEOREM TypeCorrect == Spec => []TypeOK
<1>1. Inv => TypeOK
  BY DEF Inv, EnvInv, JobInv, WebInv, StoreInv, OutInv, CountInv, IsSafe, TypeOK
<1> QED
  BY <1>1, AlwaysInv, PTL

\* No card leaves the review chats and no alert reaches a news channel, whatever is published.
THEOREM AudienceSafe == Spec => []AudienceIsSafe
<1>1. Inv => AudienceIsSafe
  BY DEF Inv, OutInv, IsSafe, AudienceIsSafe
<1> QED
  BY <1>1, AlwaysInv, PTL

\* Every row references a document that spec_versions has.
THEOREM VersionsKnown == Spec => []VersionsFirst
<1>1. Inv => VersionsFirst
  BY DEF Inv, OutInv, VersionsFirst
<1> QED
  BY <1>1, AlwaysInv, PTL

\* Where the job cannot resolve its document, or read a policy in it, a value of the defaults is at fault.
THEOREM UnresolvedOverDefaults == Spec => []UnresolvedByDefaults
<1>1. Inv => UnresolvedByDefaults
  BY DEF Inv, JobInv, AllLegal, UnresolvedByDefaults
<1> QED
  BY <1>1, AlwaysInv, PTL
=============================================================================
