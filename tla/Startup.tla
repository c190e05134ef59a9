------------------------------ MODULE Startup ------------------------------
(***************************************************************************)
(* How a document reaches the processes that run on it, and what they do   *)
(* with its chats: the operator who publishes it, the choice of its        *)
(* source, the fetch job (cli run --once), the webhook app (cli serve)     *)
(* and register-webhook (specsource.py, cli.py, newsbot/webhook.py,        *)
(* newsbot/runner.py).                                                     *)
(*                                                                         *)
(* A process reads its environment once, when it starts, and what a URL or *)
(* a path holds whenever it loads the document.  Of a pass of the job what *)
(* matters here is which document it works for: items, deliveries and the  *)
(* texts of alerts are the matter of the other modules.                    *)
(***************************************************************************)
EXTENDS SpecDoc, FiniteSets

CONSTANTS
  Edits(_),    \* the documents that one change of a document may give
  First,       \* the document that is published at first
  Supergroup,  \* the id that the ops chat gets when Telegram upgrades it
  Published,   \* where the operator publishes: the file of an image does not change
  MaxEdits,    \* bound on changes of documents and of the environment
  MaxFaults    \* bound on failed loads, lost databases and dead processes

ASSUME StartupAssumption ==
  /\ IsDoc(First)
  /\ Supergroup \in Chats /\ Published \subseteq {"SPEC_URL", "SPEC_PATH"}
  /\ MaxEdits \in Nat /\ MaxFaults \in Nat

VARIABLES
  env,       \* the environment: which variables are set, and the text of SPEC_JSON
  at,        \* the documents at the URL and at the path
  job,       \* the fetch job: pc and its document
  web,       \* a replica of the webhook app: pc, its environment and its document
  versions,  \* spec_versions
  rows,      \* the spec_hash of the rows that the last step wrote
  healed,    \* bot_state.ops_chat_id, or NoChat
  out,       \* the messages that the last step sent
  edits, faults

vars == <<env, at, job, web, versions, healed, rows, out, edits, faults>>

Places == {"SPEC_URL", "SPEC_PATH"}
Variables == {"SPEC_JSON"} \union Places
Broken == {"unresolved", "crashed"}
JobPCs == {"off", "loaded", "recorded", "fetched"} \union Broken
WebPCs == {"down", "up", "built"}
Kinds == {"alert", "emergency", "card", "menu"}

IsEnv(e) == e \in [set : SUBSET Variables, json : {e.json}] /\ IsDoc(e.json)

TypeOK ==
  /\ IsEnv(env)
  /\ at \in [Places -> {at[p] : p \in Places}] /\ \A p \in Places : IsDoc(at[p])
  /\ job \in [pc : JobPCs, doc : {job.doc}] /\ IsDoc(job.doc)
  /\ web \in [pc : WebPCs, env : {web.env}, doc : {web.doc}] /\ IsEnv(web.env) /\ IsDoc(web.doc)
  /\ \A d \in versions \union rows : IsDoc(d)
  /\ healed \in {NoChat, Supergroup}
  /\ \A m \in out : m \in [kind : Kinds, chat : Chats, doc : {m.doc}] /\ IsDoc(m.doc)
  /\ edits \in 0..MaxEdits /\ faults \in 0..MaxFaults

-----------------------------------------------------------------------------
(* specsource.py, and what loader.py says of the bytes *)

\* choose_source: SPEC_JSON, else SPEC_URL, else SPEC_PATH.
Chosen(e) ==
  CHOOSE v \in e.set : /\ "SPEC_JSON" \in e.set => v = "SPEC_JSON"
                       /\ "SPEC_JSON" \notin e.set /\ "SPEC_URL" \in e.set => v = "SPEC_URL"

\* fetch_bytes: it never falls through.
Bytes(e) == IF Chosen(e) = "SPEC_JSON" THEN e.json ELSE at[Chosen(e)]

\* A process that does not run has nothing: First is in the place of what it forgot.
FirstEnv == [set |-> Places, json |-> First]
Off == [pc |-> "off", doc |-> First]
\* A job that broke down: unresolved when resolve.py or parse_cold_start could not do with a layer.
Breaks(pc, d) == [pc |-> pc, doc |-> d]
Down == [pc |-> "down", env |-> FirstEnv, doc |-> First]

Init ==
  /\ env = FirstEnv /\ at = [p \in Places |-> First]
  /\ job = Off /\ web = Down
  /\ versions = {} /\ healed = NoChat
  /\ rows = {} /\ out = {} /\ edits = 0 /\ faults = 0

Silent == rows' = {} /\ out' = {}

-----------------------------------------------------------------------------
(* The operator *)

Publish(p) ==
  /\ edits < MaxEdits /\ edits' = edits + 1
  /\ \E d \in Edits(at[p]) : IsDoc(d) /\ at' = [at EXCEPT ![p] = d]
  /\ Silent
  /\ UNCHANGED <<env, job, web, versions, healed, faults>>

\* A deployment sets or drops a variable; SPEC_JSON gets a document that is published.
Redeploy(v) ==
  /\ edits < MaxEdits /\ edits' = edits + 1
  /\ \/ v \in env.set /\ env' = [env EXCEPT !.set = @ \ {v}]
     \/ v \notin env.set /\ v \in Places /\ env' = [env EXCEPT !.set = @ \union {v}]
     \/ /\ v \notin env.set /\ v = "SPEC_JSON"
        /\ \E p \in Published : env' = [set |-> env.set \union {v}, json |-> at[p]]
  /\ Silent
  /\ UNCHANGED <<at, job, web, versions, healed, faults>>

-----------------------------------------------------------------------------
(* What a process does with its document *)

\* AlertEngine.ops_chat_id: the stored override wins over the document.
OpsChat(d) == IF healed # NoChat THEN healed ELSE d.ops

Note(kind, chats, d) == [kind : {kind}, chat : chats, doc : {d}]

\* Variant: a document without an errors section alerts all the same.
ReportAlways(d) == rows' = {d} /\ out' = Note("alert", {OpsChat(d)}, d) /\ UNCHANGED healed

\* AlertEngine.report: the event first, then the alert, when the document asks for one; when Telegram
\* answers that the group was upgraded, the new id is stored and used.
Report(d) ==
  /\ rows' = {d}
  /\ \/ out' = {} /\ UNCHANGED healed
     \/ d.ops # NoChat /\ out' = Note("alert", {OpsChat(d)}, d) /\ UNCHANGED healed
     \/ /\ d.ops # NoChat /\ OpsChat(d) # Supergroup
        /\ healed' = Supergroup /\ out' = Note("alert", {Supergroup}, d)

\* FeedbackBot.advance: a card for a chat that the document reviews in.
Card(d) == \E c \in ReviewChats(d) : out' = Note("card", {c}, d) /\ rows' = {}

-----------------------------------------------------------------------------
(* cli run --once, as the schedule starts it *)

Stopped == job.pc \in {"off"} \union Broken
Starts == Stopped /\ env.set # {}

\* main: missing_env, exit 2.
NotConfigured ==
  /\ Stopped /\ env.set = {}
  /\ job' = Off /\ Silent
  /\ UNCHANGED <<env, at, web, versions, healed, edits, faults>>

JobLoads ==
  /\ Starts /\ Accepted(Bytes(env))
  /\ job' = [pc |-> "loaded", doc |-> Bytes(env)]
  /\ Silent
  /\ UNCHANGED <<env, at, web, versions, healed, edits, faults>>

\* _emergency_spec_alert: ops_chat_id is read from the very bytes that were refused.
JobRefuses ==
  /\ Starts /\ Verdict(Bytes(env)) = "SpecError"
  /\ LET d == Bytes(env)
     IN  out' = IF d.form = "not JSON" \/ d.ops = NoChat THEN {}
                ELSE Note("emergency", {d.ops}, Bytes(env))
  /\ job' = Off /\ rows' = {}
  /\ UNCHANGED <<env, at, web, versions, healed, edits, faults>>

\* What is no SpecError nothing catches: no alert, and the job ends.
JobDies ==
  /\ Starts
  /\ \/ /\ Verdict(Bytes(env)) = "ValidationError" /\ job' = Breaks("unresolved", Bytes(env))
     \/ /\ Verdict(Bytes(env)) \in Uncaught \ {"ValidationError"}
        /\ job' = Breaks("crashed", Bytes(env))
  /\ Silent
  /\ UNCHANGED <<env, at, web, versions, healed, edits, faults>>

\* run_once: ensure_spec_version, then _pair_index resolves every pair.
Record ==
  /\ job.pc = "loaded"
  /\ versions' = versions \union {job.doc}
  /\ job' = IF \A p \in Pairs(job.doc) : PairIsTyped(job.doc, p[1], p[2])
            THEN [job EXCEPT !.pc = "recorded"] ELSE Breaks("unresolved", job.doc)
  /\ Silent
  /\ UNCHANGED <<env, at, web, healed, edits, faults>>

\* On its first fetch a source needs a policy that parse_cold_start can read.
Poisoned(d, s) == Effective(s.set, "cold_start_policy", d) \notin Legal("cold_start_policy")

\* The enabled sources that are due, those that answer with a document, and those that do so for the
\* first time.  An expression of the mapping that cannot be evaluated raises out of parse_feed as
\* something else than a ParseError; the first source that raises ends the pass.
Fetch ==
  /\ job.pc = "recorded"
  /\ LET d == job.doc
         on == {i \in DOMAIN d.sources : Effective(d.sources[i].set, "enabled", d) = "on"}
         Unparsed(S) == {i \in S : d.sources[i].mapping = "bad expression"}
         Misled(S) == {i \in S : Poisoned(d, d.sources[i])}
     IN  \E due \in SUBSET on : \E got \in SUBSET due : \E fresh \in SUBSET got :
           LET dies == Unparsed(got) \union Misled(fresh)
               Before(i) == \A j \in dies : i < j
           IN  /\ \/ dies = {} /\ job' = [job EXCEPT !.pc = "fetched"]
                  \/ \E i \in dies :
                       /\ \A j \in dies : i <= j
                       /\ job' = Breaks(IF i \in Unparsed(got) THEN "crashed" ELSE "unresolved", d)
               /\ rows' = {d : i \in {i \in due : Before(i)}}
  /\ out' = {}
  /\ UNCHANGED <<env, at, web, versions, healed, edits, faults>>

JobReports ==
  /\ job.pc \in {"recorded", "fetched"}
  /\ Report(job.doc)
  /\ UNCHANGED <<env, at, job, web, versions, edits, faults>>

\* post_phase resolves every channel, bound or not; then feedback_phase may show a card.
Post ==
  /\ job.pc = "fetched"
  /\ \/ /\ \A i \in DOMAIN job.doc.channels : ChannelIsTyped(job.doc, job.doc.channels[i].name)
        /\ job' = Off
        /\ Card(job.doc) \/ Silent
     \/ /\ \E i \in DOMAIN job.doc.channels : ~ChannelIsTyped(job.doc, job.doc.channels[i].name)
        /\ job' = Breaks("unresolved", job.doc) /\ Silent
  /\ UNCHANGED <<env, at, web, versions, healed, edits, faults>>

\* The bytes cannot be had, the database cannot be reached or is lost, the container dies.
JobFails ==
  /\ faults < MaxFaults /\ faults' = faults + 1
  /\ job' = Off
  /\ Silent
  /\ UNCHANGED <<env, at, web, versions, healed, edits>>

-----------------------------------------------------------------------------
(* cli serve and cli register-webhook *)

\* create_app: the document is not loaded before the first request.
Serve ==
  /\ web.pc = "down" /\ env.set # {}
  /\ web' = [web EXCEPT !.pc = "up", !.env = env]
  /\ Silent
  /\ UNCHANGED <<env, at, job, versions, healed, edits, faults>>

\* Variant: the fetch job is left to record the document.
BuildUnrecorded ==
  /\ web.pc = "up" /\ Accepted(Bytes(web.env))
  /\ web' = [web EXCEPT !.pc = "built", !.doc = Bytes(web.env)]
  /\ Silent
  /\ UNCHANGED <<env, at, job, versions, healed, edits, faults>>

\* _AppState._build
Build ==
  /\ web.pc = "up" /\ Accepted(Bytes(web.env))
  /\ web' = [web EXCEPT !.pc = "built", !.doc = Bytes(web.env)]
  /\ versions' = versions \union {Bytes(web.env)}
  /\ Silent
  /\ UNCHANGED <<env, at, job, healed, edits, faults>>

WebReports ==
  /\ web.pc = "built"
  /\ Report(web.doc)
  /\ UNCHANGED <<env, at, job, web, versions, edits, faults>>

WebShows ==
  /\ web.pc = "built"
  /\ Card(web.doc)
  /\ UNCHANGED <<env, at, job, web, versions, healed, edits, faults>>

\* acquire finds the session gone, and builds anew: the document is loaded again.
Stale ==
  /\ web.pc = "built" /\ faults < MaxFaults /\ faults' = faults + 1
  /\ web' = [web EXCEPT !.pc = "up", !.doc = First]
  /\ Silent
  /\ UNCHANGED <<env, at, job, versions, healed, edits>>

ScaleToZero ==
  /\ web.pc # "down" /\ web' = Down
  /\ Silent
  /\ UNCHANGED <<env, at, job, versions, healed, edits, faults>>

\* cmd_register_webhook: the menus of the ops chat and of the review chats; without the database the
\* document alone says which the ops chat is.
Register ==
  /\ env.set # {} /\ Accepted(Bytes(env)) /\ Bytes(env).ops # NoChat
  /\ \E ops \in {OpsChat(Bytes(env)), Bytes(env).ops} :
       out' = Note("menu", {ops} \union ReviewChats(Bytes(env)), Bytes(env))
  /\ rows' = {}
  /\ UNCHANGED <<env, at, job, web, versions, healed, edits, faults>>

-----------------------------------------------------------------------------
JobStep ==
  NotConfigured \/ JobLoads \/ JobRefuses \/ JobDies \/ Record \/ Fetch \/ JobReports \/ Post
WebStep == Serve \/ Build \/ WebReports \/ WebShows \/ ScaleToZero
Faults == JobFails \/ Stale
Operator == (\E p \in Published : Publish(p)) \/ (\E v \in Variables : Redeploy(v)) \/ Register
Next == JobStep \/ WebStep \/ Faults \/ Operator

Spec == Init /\ [][Next]_vars

-----------------------------------------------------------------------------
(* Properties *)

\* Whichever layer of its document names a chat, no process that works shows a review card in a news
\* channel or in the ops chat, and none alerts into a news channel, unless a stored override outlived
\* the document that named the group.  [loader.py:109-141, the guards on chats; alerts.py:237]
AudienceIsSafe ==
  \A m \in out :
    /\ m.kind = "card" => m.chat \notin NewsChats(m.doc) \union {m.doc.ops}
    /\ m.kind \in {"alert", "menu"} /\ m.chat \in NewsChats(m.doc) => healed # NoChat

\* Whatever the job, the webhook app and redeployments do in whatever order, no row references a
\* document before spec_versions has it.  [runner.py:511, webhook.py:75-77; the foreign keys]
VersionsFirst == rows \subseteq versions

\* What a document sets for a source, a channel or a binding can be resolved once the loader has
\* accepted it: where resolve.py or parse_cold_start raises, at load or in whatever phase of a pass,
\* it is over a value of the defaults, which nothing has looked at.  [loader.py:129; resolve.py:89]
UnresolvedByDefaults ==
  job.pc = "unresolved" =>
    \E k \in DOMAIN job.doc.defaults : job.doc.defaults[k] \notin Legal(k)
=============================================================================
