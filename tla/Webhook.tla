------------------------------ MODULE Webhook ------------------------------
(***************************************************************************)
(* The webhook app and the commands of operators: POST /telegram/webhook,  *)
(* the runtime that a replica builds and rebuilds, the gate of             *)
(* seen_updates, and OpsBot's authorization and audit of what an update    *)
(* asks for (newsbot/webhook.py, newsbot/ops.py, archive/errors.py).       *)
(*                                                                         *)
(* A request is a task of the event loop of a replica: it runs until it    *)
(* awaits Telegram, and the statements it executes meanwhile block the     *)
(* loop, but each commits by itself and other replicas and the job may do  *)
(* anything between two of them.  A tick of the clock is longer than a     *)
(* request, as every await of one has a timeout.                           *)
(*                                                                         *)
(* What acks and mutes do to the rows is AlertEngine, what presses do is   *)
(* FeedbackLoop: here they are one statement that commits or fails.        *)
(***************************************************************************)
EXTENDS Naturals, FiniteSets

CONSTANTS
  Updates,     \* updates that users cause
  Mail,        \* Mail[u]: what u may be, pairs of a kind and a sender
  Users,       \* members of the ops chat
  Allowlist,   \* authorization.write_allowlist
  Admins,      \* those who are administrators of the chat at first
  Replicas,    \* replicas of the webhook app
  Tasks,       \* requests that may be in progress at a time
  CacheTime,   \* admin_cache_min
  Window,      \* how long seen_updates and Telegram remember an update: 24 h
  MaxFaults,   \* bound on failing calls, dropped sessions and crashes
  None         \* no time, no update, no ruling

\* press: a button of a review card.  command: /ack, /mute, /unmute, well formed.
\* shorthand: a reply to an alert, likewise.  whoami: asks for the role only.  foreign: whatever
\* handle_update drops: another bot's suffix, another chat, a bot as sender.
Kinds == {"press", "command", "shorthand", "whoami", "foreign"}

ASSUME MailAssumption == Mail \in [Updates -> SUBSET (Kinds \X Users)]
ASSUME UsersAssumption == Allowlist \subseteq Users /\ Admins \subseteq Users
ASSUME NumbersAssumption ==
  /\ CacheTime \in Nat \ {0} /\ Window \in Nat \ {0}
  /\ MaxFaults \in Nat
ASSUME NoneAssumption == None \notin Nat /\ None \notin Updates

VARIABLES
  admins,   \* the administrators of the ops chat, as Telegram knows them
  changed,  \* changed[w]: how long ago w last became one or ceased to be one
  tg,       \* tg[u]: what Telegram knows of u: unsent, waiting for a 200, answered
  mail,     \* mail[u]: its kind, its sender and how long Telegram has delivered it
  seen,     \* seen[u]: the age of its row in seen_updates
  rt,       \* rt[r]: the _Runtime of replica r
  fate,     \* fate[u]: what has become of u
  ruling,   \* ruling[u]: how _is_writer decided, and on which list
  audited,  \* updates with a row in operator_actions
  hit,      \* updates taken by a replica that lost its session or died then
  faults,   \* faults so far
  pc,       \* pc[q]: what request q does next
  ctx       \* ctx[q]: its update, its replica and its runtime

roles == <<admins, changed>>
users == <<tg, mail>>
results == <<fate, ruling, audited>>
failures == <<hit, faults>>
vars == <<roles, users, seen, rt, results, failures, pc, ctx>>

\* Ages are counted as far as they make a difference: what is CacheTime old is as
\* good as never.
CacheAges == 0..CacheTime
SentAges == 0..Window
SeenAges == 0..(Window + 1)

\* up: the session with PostgreSQL is alive.  me: me_username is known.  at, ids:
\* _admin_cache and its age; stale: ids outlived a lookup.
Runtime == [up : BOOLEAN, me : BOOLEAN, age : CacheAges, ids : SUBSET Users,
            stale : BOOLEAN]
NoRuntime == [up |-> FALSE, me |-> FALSE, age |-> CacheTime, ids |-> {}, stale |-> FALSE]
Built == [NoRuntime EXCEPT !.up = TRUE]

\* just: it was true within admin_cache_min of the decision.
Ruling == [granted : BOOLEAN, stale : BOOLEAN, just : BOOLEAN]

\* open: the runtime that q acquired is still the one of its replica.  late: a tick
\* has come since it began.
PCs == {"idle", "me", "mark", "gate", "lookup", "act", "refuse", "audit", "answer"}
Idle == [update |-> None, replica |-> None, open |-> FALSE, late |-> FALSE]

AMO == INSTANCE AtMostOnce

\* Types of the variables.
TypeOK ==
  /\ admins \subseteq Users /\ changed \in [Users -> CacheAges]
  /\ tg \in [Updates -> {"unsent", "waiting", "answered"}]
  /\ mail \in [Updates -> [kind : Kinds, sender : Users, age : SentAges] \cup {None}]
  /\ seen \in [Updates -> SeenAges \cup {None}]
  /\ rt \in [Replicas -> Runtime]
  /\ fate \in [Updates -> AMO!Fates]
  /\ ruling \in [Updates -> Ruling \cup {None}]
  /\ audited \subseteq Updates /\ hit \subseteq Updates
  /\ faults \in 0..MaxFaults
  /\ pc \in [Tasks -> PCs]
  /\ ctx \in [Tasks -> [update : Updates \cup {None}, replica : Replicas \cup {None},
                       open : BOOLEAN, late : BOOLEAN]]
  /\ \A q \in Tasks :
       IF pc[q] = "idle" THEN ctx[q] = Idle
       ELSE /\ ctx[q].update \in Updates /\ tg[ctx[q].update] # "unsent"
            /\ ctx[q].replica \in Replicas

Init ==
  /\ admins = Admins /\ changed = [w \in Users |-> CacheTime]
  /\ tg = [u \in Updates |-> "unsent"] /\ mail = [u \in Updates |-> None]
  /\ seen = [u \in Updates |-> None]
  /\ rt = [r \in Replicas |-> NoRuntime]
  /\ fate = [u \in Updates |-> "new"] /\ ruling = [u \in Updates |-> None]
  /\ audited = {} /\ hit = {} /\ faults = 0
  /\ pc = [q \in Tasks |-> "idle"] /\ ctx = [q \in Tasks |-> Idle]

-----------------------------------------------------------------------------
(* The people and Telegram *)

\* The role of a member of the allowlist is of no consequence.
ChangeRole(w) ==
  /\ w \notin Allowlist
  /\ admins' = IF w \in admins THEN admins \ {w} ELSE admins \cup {w}
  /\ changed' = [changed EXCEPT ![w] = 0]
  /\ UNCHANGED <<users, seen, rt, results, failures, pc, ctx>>

Send(u) ==
  /\ tg[u] = "unsent"
  /\ \E k \in Mail[u] : mail' = [mail EXCEPT ![u] = [kind |-> k[1], sender |-> k[2], age |-> 0]]
  /\ tg' = [tg EXCEPT ![u] = "waiting"]
  /\ UNCHANGED <<roles, seen, rt, results, failures, pc, ctx>>

Older(age, limit) == IF age = None \/ age = limit THEN age ELSE age + 1

Tick ==
  /\ \A q \in Tasks : ~ctx[q].late
  /\ changed' = [w \in Users |-> Older(changed[w], CacheTime)]
  /\ mail' = [u \in Updates |-> IF tg[u] # "waiting" THEN mail[u]
                                ELSE [mail[u] EXCEPT !.age = Older(@, Window)]]
  /\ seen' = [u \in Updates |-> Older(seen[u], Window + 1)]
  /\ rt' = [r \in Replicas |-> [rt[r] EXCEPT !.age = Older(@, CacheTime)]]
  /\ ctx' = [q \in Tasks |-> [ctx[q] EXCEPT !.late = pc[q] # "idle"]]
  /\ UNCHANGED <<admins, tg, results, failures, pc>>

\* Variant: rows go when Telegram may still deliver.
PurgeEarly ==
  /\ seen' = [u \in Updates |->
                IF seen[u] # None /\ seen[u] >= Window THEN None ELSE seen[u]]
  /\ seen' # seen
  /\ UNCHANGED <<roles, users, rt, results, failures, pc, ctx>>

\* purge_seen_updates, by the job: a row goes once it is more than 24 h old.  With ticks for a clock
\* it goes a tick later, since Telegram may yet deliver an update in the tick of its 24th hour.
Purge ==
  /\ seen' = [u \in Updates |->
                IF seen[u] # None /\ seen[u] > Window THEN None ELSE seen[u]]
  /\ seen' # seen
  /\ UNCHANGED <<roles, users, rt, results, failures, pc, ctx>>

-----------------------------------------------------------------------------
(* Requests *)

Fault == faults < MaxFaults /\ faults' = faults + 1

\* Between two awaits a request has the event loop of its replica for itself.
Running == {"mark", "gate", "act", "audit"}
LoopIsFree(r) == \A p \in Tasks : pc[p] \in Running => ctx[p].replica # r

At(q, label) == pc[q] = label /\ (label \in Running \/ LoopIsFree(ctx[q].replica))
Goto(q, label) == pc' = [pc EXCEPT ![q] = label]
Live(q) == ctx[q].open /\ rt[ctx[q].replica].up

\* The updates that requests on r have taken and not yet done with.
InHand(r) ==
  {ctx[q].update : q \in {p \in Tasks : ctx[p].replica = r
                                       /\ pc[p] \in {"gate", "lookup", "act", "refuse", "audit"}}}

\* The session of r is gone; the statement of u was the last.
Cut(r, u) ==
  /\ Fault
  /\ rt' = [rt EXCEPT ![r].up = FALSE]
  /\ hit' = hit \cup InHand(r) \cup {u}

\* Variant: the request is forgotten, what it held is not.
RefusedOnly(q) == pc' = [pc EXCEPT ![q] = "idle"] /\ UNCHANGED ctx

\* The request ends without a 200: Telegram will deliver its update again.
Refused(q) == pc' = [pc EXCEPT ![q] = "idle"] /\ ctx' = [ctx EXCEPT ![q] = Idle]

\* An exception of a handler is logged and the update answered.
Fail(q) == Goto(q, "answer") /\ fate' = [fate EXCEPT ![ctx[q].update] = "lost"]

\* Variant: a runtime that is there is not pinged.
RebuiltOnce(r) ==
  \/ rt[r] # NoRuntime /\ UNCHANGED <<rt, faults>>
  \/ rt[r] = NoRuntime /\ rt' = [rt EXCEPT ![r] = Built] /\ UNCHANGED faults

\* acquire() under its lock: a session that does not answer the ping is closed with
\* its HTTP client, for all requests that hold it, and another is built, or not.
Rebuilt(r) ==
  \/ rt[r].up /\ UNCHANGED <<rt, faults>>
  \/ ~rt[r].up /\ rt' = [rt EXCEPT ![r] = Built] /\ UNCHANGED faults
NotRebuilt(r) == ~rt[r].up /\ rt' = [rt EXCEPT ![r] = NoRuntime] /\ Fault
Closed(r) ==
  [p \in Tasks |-> IF ctx[p].replica = r /\ ~rt[r].up THEN [ctx[p] EXCEPT !.open = FALSE]
                   ELSE ctx[p]]

\* Telegram delivers until it has a 200, also while a request with u is in progress;
\* the request acquires the runtime.
Deliver(q, u, r) ==
  /\ pc[q] = "idle" /\ LoopIsFree(r)
  /\ tg[u] = "waiting" /\ mail[u].age < Window
  /\ \/ /\ Rebuilt(r)
        /\ Goto(q, IF mail[u].kind = "press" \/ rt'[r].me THEN "mark" ELSE "me")
        /\ ctx' = [Closed(r) EXCEPT
                     ![q] = [update |-> u, replica |-> r, open |-> TRUE, late |-> FALSE]]
     \/ NotRebuilt(r) /\ ctx' = Closed(r) /\ UNCHANGED pc
  /\ UNCHANGED <<roles, users, seen, results, hit>>

\* _report_unauthorized: a call without the secret acquires the runtime as well.
Probe(r) ==
  /\ LoopIsFree(r) /\ ~rt[r].up /\ (Rebuilt(r) \/ NotRebuilt(r)) /\ ctx' = Closed(r)
  /\ UNCHANGED <<roles, users, seen, results, hit, pc>>

EnsureMe(q) ==
  /\ At(q, "me")
  /\ \/ /\ ctx[q].open /\ Goto(q, "mark")
        /\ rt' = [rt EXCEPT ![ctx[q].replica].me = TRUE] /\ UNCHANGED <<ctx, faults>>
     \/ ctx[q].open /\ Fault /\ Refused(q) /\ UNCHANGED rt
     \/ ~ctx[q].open /\ Refused(q) /\ UNCHANGED <<rt, faults>>
  /\ UNCHANGED <<roles, users, seen, results, hit>>

\* mark_update_seen inserts the row: u is taken, by whichever request comes first.
Take(u) ==
  /\ seen' = [seen EXCEPT ![u] = 0]
  /\ fate' = [fate EXCEPT ![u] = "taken"]

\* Variant: a dead session is logged and the update answered.
MarkAnswers(q) ==
  LET u == ctx[q].update IN
  /\ At(q, "mark")
  /\ \/ /\ Live(q) /\ seen[u] = None /\ Take(u)
        /\ Goto(q, IF mail[u].kind = "press" THEN "act" ELSE "gate")
     \/ Live(q) /\ seen[u] # None /\ Goto(q, "answer") /\ UNCHANGED <<seen, fate>>
     \/ ~Live(q) /\ Goto(q, "answer") /\ UNCHANGED <<seen, fate>>
  /\ UNCHANGED <<roles, users, rt, ruling, audited, failures, ctx>>

\* The connection may be lost with the insert committed: 503, and u is seen.
Mark(q) ==
  LET u == ctx[q].update IN
  /\ At(q, "mark")
  /\ \/ /\ Live(q) /\ seen[u] = None /\ Take(u)
        /\ Goto(q, IF mail[u].kind = "press" THEN "act" ELSE "gate")
        /\ UNCHANGED <<rt, failures, ctx>>
     \/ /\ Live(q) /\ seen[u] # None /\ Goto(q, "answer")
        /\ UNCHANGED <<seen, fate, rt, failures, ctx>>
     \/ /\ Live(q) /\ seen[u] = None /\ Cut(ctx[q].replica, u) /\ Refused(q)
        /\ seen' = [seen EXCEPT ![u] = 0] /\ fate' = [fate EXCEPT ![u] = "lost"]
     \/ ~Live(q) /\ Refused(q) /\ UNCHANGED <<seen, fate, rt, failures>>
  /\ UNCHANGED <<roles, users, ruling, audited>>

-----------------------------------------------------------------------------
(* OpsBot: who may write *)

Recent(age) == age < CacheTime

\* w may write, or could so within the last CacheTime; and the opposite.
Could(w) == w \in Allowlist \cup admins \/ Recent(changed[w])
CouldNot(w) == w \notin Allowlist /\ (w \notin admins \/ Recent(changed[w]))

\* The decision, and where it leads: a denied command is refused with a reply, then
\* audited; a denied shorthand is refused; whoami only tells the role.
Rule(q, granted, stale) ==
  LET u == ctx[q].update
      kind == mail[u].kind
      just == IF granted THEN Could(mail[u].sender) ELSE CouldNot(mail[u].sender)
  IN \/ /\ kind = "whoami"
        /\ Goto(q, "answer") /\ fate' = [fate EXCEPT ![u] = "acted"] /\ UNCHANGED ruling
     \/ /\ kind \in {"command", "shorthand"}
        /\ ruling' = [ruling EXCEPT ![u] = [granted |-> granted, stale |-> stale, just |-> just]]
        /\ \/ granted /\ Goto(q, "act") /\ UNCHANGED fate
           \/ /\ ~granted /\ Goto(q, IF kind = "command" THEN "refuse" ELSE "answer")
              /\ fate' = [fate EXCEPT ![u] = "denied"]

\* Variant: a list that is there serves for good.
CachedForGood(r) == rt[r].ids # {}

Cached(r) == Recent(rt[r].age)

\* handle_update drops what is not for the bot; else _is_writer up to its await: the
\* allowlist, then a list that is fresh enough.
Gate(q) ==
  LET u == ctx[q].update
      r == ctx[q].replica
      sender == mail[u].sender
  IN /\ At(q, "gate")
     /\ \/ /\ ~Live(q) /\ Fail(q) /\ UNCHANGED ruling
        \/ /\ Live(q) /\ mail[u].kind = "foreign" /\ Goto(q, "answer")
           /\ fate' = [fate EXCEPT ![u] = "ignored"] /\ UNCHANGED ruling
        \/ /\ Live(q) /\ mail[u].kind # "foreign"
           /\ \/ sender \in Allowlist /\ Rule(q, TRUE, FALSE)
              \/ /\ sender \notin Allowlist /\ Cached(r)
                 /\ Rule(q, sender \in rt[r].ids, rt[r].stale)
              \/ /\ sender \notin Allowlist /\ ~Cached(r)
                 /\ Goto(q, "lookup") /\ UNCHANGED <<fate, ruling>>
     /\ UNCHANGED <<roles, users, seen, rt, audited, failures, ctx>>

\* getChatAdministrators: when it fails, the list there is serves another CacheTime.  When the client
\* is closed under the call, the call counts as failed, and the list of the runtime that is gone
\* decides, whatever it was; or closing it raises what _admins does not catch.
Lookup(q) ==
  LET r == ctx[q].replica
      sender == mail[ctx[q].update].sender
  IN /\ At(q, "lookup")
     /\ \/ /\ ctx[q].open /\ UNCHANGED faults
           /\ rt' = [rt EXCEPT ![r] = [@ EXCEPT !.age = 0, !.ids = admins, !.stale = FALSE]]
           /\ Rule(q, sender \in rt'[r].ids, rt'[r].stale)
        \/ /\ ctx[q].open /\ Fault
           /\ rt' = [rt EXCEPT ![r] = [@ EXCEPT !.age = 0, !.stale = TRUE]]
           /\ Rule(q, sender \in rt'[r].ids, rt'[r].stale)
        \/ /\ ~ctx[q].open /\ UNCHANGED <<rt, faults>>
           /\ \/ \E granted \in BOOLEAN : Rule(q, granted, TRUE)
              \/ Fail(q) /\ UNCHANGED ruling
     /\ UNCHANGED <<roles, users, seen, audited, hit, ctx>>

-----------------------------------------------------------------------------
(* Effects, audit, answer *)

\* Variant: what a reply asks for is not audited.
ActUnaudited(q) ==
  LET u == ctx[q].update IN
  /\ At(q, "act")
  /\ Live(q) /\ fate' = [fate EXCEPT ![u] = "acted"]
  /\ Goto(q, IF mail[u].kind = "command" THEN "audit" ELSE "answer")
  /\ UNCHANGED <<roles, users, seen, rt, ruling, audited, failures, ctx>>

\* ack_event, ack_all or mute; for a press, the decision of FeedbackLoop.
Act(q) ==
  LET u == ctx[q].update IN
  /\ At(q, "act")
  /\ \/ /\ Live(q) /\ fate' = [fate EXCEPT ![u] = "acted"]
        /\ Goto(q, IF mail[u].kind = "press" THEN "answer" ELSE "audit")
        /\ UNCHANGED <<rt, failures>>
     \/ /\ Live(q) /\ Cut(ctx[q].replica, u) /\ Goto(q, "answer")
        /\ \E f \in {"acted", "lost"} : fate' = [fate EXCEPT ![u] = f]
     \/ ~Live(q) /\ Fail(q) /\ UNCHANGED <<rt, failures>>
  /\ UNCHANGED <<roles, users, seen, ruling, audited, ctx>>

\* The reply that a command requires admin; a failure of Telegram is swallowed.
Refuse(q) ==
  /\ At(q, "refuse")
  /\ Goto(q, IF ctx[q].open THEN "audit" ELSE "answer")
  /\ UNCHANGED <<roles, users, seen, rt, results, failures, ctx>>

\* record_operator_action
Audit(q) ==
  /\ At(q, "audit") /\ Goto(q, "answer")
  /\ \/ Live(q) /\ audited' = audited \cup {ctx[q].update} /\ UNCHANGED <<rt, failures>>
     \/ Live(q) /\ Cut(ctx[q].replica, ctx[q].update) /\ UNCHANGED audited
     \/ ~Live(q) /\ UNCHANGED <<audited, rt, failures>>
  /\ UNCHANGED <<roles, users, seen, fate, ruling, ctx>>

\* The 200 reaches Telegram or is lost.
Answer(q) ==
  LET u == ctx[q].update IN
  /\ At(q, "answer") /\ Refused(q)
  /\ \/ /\ tg' = [tg EXCEPT ![u] = "answered"] /\ mail' = [mail EXCEPT ![u].age = 0]
        /\ UNCHANGED faults
     \/ Fault /\ UNCHANGED users
  /\ UNCHANGED <<roles, seen, rt, results, hit>>

-----------------------------------------------------------------------------
(* Faults *)

\* PostgreSQL or the network drops the session of an idle or a busy replica.
DropSession(r) ==
  /\ rt[r].up /\ Fault
  /\ rt' = [rt EXCEPT ![r].up = FALSE] /\ hit' = hit \cup InHand(r)
  /\ UNCHANGED <<roles, users, seen, results, pc, ctx>>

\* The replica is scaled to zero or dies, with the requests it has.
CrashReplica(r) ==
  LET Dead == {q \in Tasks : ctx[q].replica = r}
      Taken == {u \in InHand(r) : fate[u] = "taken"}
  IN /\ rt[r] # NoRuntime /\ Fault
     /\ rt' = [rt EXCEPT ![r] = NoRuntime] /\ hit' = hit \cup InHand(r)
     /\ fate' = [u \in Updates |-> IF u \in Taken THEN "lost" ELSE fate[u]]
     /\ pc' = [q \in Tasks |-> IF q \in Dead THEN "idle" ELSE pc[q]]
     /\ ctx' = [q \in Tasks |-> IF q \in Dead THEN Idle ELSE ctx[q]]
     /\ UNCHANGED <<roles, users, seen, ruling, audited>>

-----------------------------------------------------------------------------
Step(q) ==
  \/ EnsureMe(q) \/ Mark(q) \/ Gate(q) \/ Lookup(q)
  \/ Act(q) \/ Refuse(q) \/ Audit(q) \/ Answer(q)

Next ==
  \/ \E q \in Tasks : Step(q)
  \/ \E q \in Tasks, u \in Updates, r \in Replicas : Deliver(q, u, r)
  \/ \E u \in Updates : Send(u)
  \/ \E w \in Users : ChangeRole(w)
  \/ \E r \in Replicas : Probe(r) \/ DropSession(r) \/ CrashReplica(r)
  \/ Tick \/ Purge

Spec == Init /\ [][Next]_vars

\* The event loop runs on, and Telegram delivers again what it has no 200 for.  Nothing
\* makes users write, time pass or sessions drop.
FairSpec ==
  /\ Spec
  /\ WF_vars(\E q \in Tasks : Step(q))
  /\ \A u \in Updates : WF_vars(\E q \in Tasks, r \in Replicas : Deliver(q, u, r))

-----------------------------------------------------------------------------
(* Properties *)

\* Whatever is delivered again, in parallel, after a lost answer, a crash or a
\* purge, an update is taken at most once ("this is the exactly-once gate").
ImplementsAtMostOnce == AMO!Spec

Busy(u) == \E q \in Tasks : ctx[q].update = u

\* Telegram stops delivering an update only when it has been acted on, denied or
\* dropped on purpose, when a request is still at it, or when the replica that had
\* it lost its session or died: every failure before the gate answers non-200.
NothingSwallowed ==
  \A u \in Updates :
    tg[u] = "answered" /\ ~Busy(u) => fate[u] \in {"acted", "denied", "ignored"} \/ u \in hit

\* Nobody writes whom _is_writer did not let, or who was not an administrator within
\* admin_cache_min, and nobody is refused who was one all that time, unless the list
\* had outlived a failed lookup.
RulingsAreFresh ==
  \A u \in Updates :
    LET kind == mail[u].kind IN
    /\ fate[u] = "acted" /\ kind \in {"command", "shorthand"} =>
         ruling[u].granted /\ (ruling[u].just \/ ruling[u].stale)
    /\ fate[u] = "denied" => ~ruling[u].granted /\ (ruling[u].just \/ ruling[u].stale)

\* Every write that took effect, and every command that was denied, has its row in
\* operator_actions once its request is over, unless the session or the replica was
\* lost under it.  A denied shorthand leaves none.
AuditComplete ==
  \A u \in Updates :
    \/ fate[u] = "acted" /\ mail[u].kind \in {"command", "shorthand"}
    \/ fate[u] = "denied" /\ mail[u].kind = "command"
    => u \in audited \/ Busy(u) \/ u \in hit

Expired(u) == tg[u] = "waiting" /\ mail[u].age >= Window

\* Telegram gets its 200, whatever sessions were dropped, unless its 24 h are over.
EventuallyAnswered ==
  \A u \in Updates : (tg[u] = "waiting") ~> (tg[u] = "answered" \/ Expired(u))
=============================================================================
