----------------------------- MODULE AlertEngine -----------------------------
(***************************************************************************)
(* Error events and their alerts: record_occurrence, the alert policy with *)
(* ladder, cooldown and hourly budget, the one message that each event     *)
(* owns in the ops chat, the outbox and its flush, ack, mute, resolution   *)
(* and retention (archive/errors.py, newsbot/alerts.py, newsbot/ops.py).   *)
(*                                                                         *)
(* The job and the webhook's handlers share the rows.  Every statement     *)
(* commits by itself and every Telegram call is an await: each is a step.  *)
(*                                                                         *)
(* Time is counted in hours: the window of the budget, the cooldown and a  *)
(* mute last one.  Of a severity the policy asks only whether it is        *)
(* critical, and whether the rule has raised it yet.                       *)
(* Left out: pins, silent hours, the digest, the move of the ops chat to   *)
(* another id, and the replies to commands, none of which these rows see;  *)
(* an engine that is not active and the classes of NEVER_ALERT, which have *)
(* occurrences and severities, and no alerts.                              *)
(***************************************************************************)
EXTENDS Naturals, FiniteSets, Sequences, FiniteSetsExt

CONSTANTS
  Events,         \* fingerprints
  Fetch,          \* those of FETCH_ERROR_CLASSES (of one source)
  Escalating,     \* those whose rule raises the severity in the end
  Critical,       \* those that are critical, once raised if the rule does that
  Job,            \* the process that executes passes
  Handlers,       \* requests of the webhook
  Reports,        \* Reports[p]: the events that p may report
  Ladder,         \* escalation_ladder
  EscalateAfter,  \* escalate_after
  MaxAlerts,      \* max_alerts_per_hour
  BodyLimit,      \* entries that a flush sends one by one: 10
  MaxReports,     \* bound on the errors that occur
  MaxMutes,       \* bound on the mutes and unmutes
  MaxHour,        \* bound on the time that passes
  MaxFaults,      \* bound on the calls to Telegram that fail
  MaxCrashes,     \* bound on the processes that are killed
  None            \* no acker, no alert yet, no budget row

Procs == {Job} \cup Handlers

ASSUME EventsAssumption == {Fetch, Escalating, Critical} \subseteq SUBSET Events
ASSUME ProcsAssumption ==
  Job \notin Handlers /\ IsFiniteSet(Handlers) /\ Reports \in [Procs -> SUBSET Events]
  /\ Fetch \subseteq Reports[Job]
ASSUME NumbersAssumption ==
  /\ Ladder \subseteq Nat /\ EscalateAfter \in Nat \ {0} /\ MaxAlerts \in Nat
  /\ BodyLimit \in Nat /\ MaxReports \in Nat /\ MaxMutes \in Nat /\ MaxHour \in Nat
  /\ MaxFaults \in Nat /\ MaxCrashes \in Nat

VARIABLES
  hour,       \* the time
  row,        \* row[e]: the error_events row
  shown,      \* shown[e]: what the alert messages of e say, oldest first
  outbox,     \* undelivered entries of alert_outbox
  queued,     \* entries ever queued; they are numbered
  told,       \* entries that the ops chat has been told of
  budget,     \* the bot_state row alert_budget
  booked,     \* booked[h]: alerts and notices of the budget window that began at h
  raced,      \* writes of the budget that undid another process's
  extra,      \* extra[e]: messages of e that a race, a lost answer, a crash or a message that
              \* is too old to be edited accounts for
  blurred,    \* events with a last resolution that found them in another process's hand, or
              \* that a failed call or a crash cut short
  reports,    \* errors so far
  mutes,      \* mutes and unmutes so far
  faults,     \* calls that failed so far
  crashes,    \* processes killed so far
  pc,         \* pc[p]: what p does next
  ctx         \* ctx[p]: its local variables

rows == <<row, shown>>
box == <<outbox, queued, told>>
purse == <<budget, booked, raced>>
bad == <<faults, crashes>>
notes == <<extra, blurred>>
uses == <<reports, mutes>>
vars == <<hour, rows, box, purse, notes, uses, bad, pc, ctx>>

States == {"none", "unacked", "acked", "resolved"}

\* raised: whether severity is escalates_to by now.  until: muted_until_utc, 0 for
\* NULL.  alerted: last_alert_utc.  msg: which of the messages in shown[e] the event
\* owns, 0 for none.
Event == [state : States, count : Nat, streak : Nat, raised : BOOLEAN,
          acker : Handlers \cup {None}, until : Nat,
          alerted : Nat \cup {None}, msg : Nat]
Absent == [state |-> "none", count |-> 0, streak |-> 0, raised |-> FALSE,
           acker |-> None, until |-> 0, alerted |-> None, msg |-> 0]

Budget == [start : Nat, count : Nat, noticed : BOOLEAN]

ASSUME NoneAssumption == None \notin Nat \cup Handlers \cup Events \cup Budget

\* event: the event being alerted, todo: those that follow it; text: the state its
\* message is to show; msg: its message; then: what follows a flush or a change of
\* severity; raw: the budget as read; batch, left: the entries of the flush.
PCs == {"off", "run", "escalate", "budget", "spend", "notice", "warn", "send",
        "edit", "resend", "header", "body", "mark", "own", "adopt", "count"}
Context == [event : Events \cup {None}, todo : SUBSET (Events \X Nat),
            now : Nat, text : States, msg : Nat, notifying : BOOLEAN,
            then : PCs, raw : Budget \cup {None}, batch : SUBSET Nat, left : SUBSET Nat]
Nothing == [event |-> None, todo |-> {}, now |-> 0, text |-> "none", msg |-> 0,
            notifying |-> FALSE, then |-> "off", raw |-> None, batch |-> {}, left |-> {}]

TypeOK ==
  /\ hour \in 0..MaxHour
  /\ row \in [Events -> Event]
  /\ \A e \in Events : row[e].count <= reports /\ row[e].msg <= Len(shown[e])
  /\ shown \in [Events -> Seq(States)]
  /\ queued \in Nat /\ outbox \subseteq 1..queued /\ told \subseteq 1..queued
  /\ budget \in Budget \cup {None}
  /\ booked \in [0..MaxHour -> [alerts : Nat, notices : Nat]] /\ raced \in Nat
  /\ extra \in [Events -> Nat] /\ blurred \subseteq Events
  /\ reports \in 0..MaxReports /\ mutes \in 0..MaxMutes
  /\ faults \in 0..MaxFaults /\ crashes \in 0..MaxCrashes
  /\ pc \in [Procs -> PCs]
  /\ ctx \in [Procs -> Context]

Init ==
  /\ hour = 0
  /\ row = [e \in Events |-> Absent] /\ shown = [e \in Events |-> <<>>]
  /\ outbox = {} /\ queued = 0 /\ told = {}
  /\ budget = None /\ raced = 0
  /\ booked = [h \in 0..MaxHour |-> [alerts |-> 0, notices |-> 0]]
  /\ extra = [e \in Events |-> 0] /\ blurred = {} /\ reports = 0 /\ mutes = 0 /\ faults = 0 /\ crashes = 0
  /\ pc = [p \in Procs |-> "off"] /\ ctx = [p \in Procs |-> Nothing]

-----------------------------------------------------------------------------
(* Steps of a process.                                                     *)

\* A pass goes on with its next source; a request is over.
Hub(p) == IF p = Job THEN "run" ELSE "off"

Goto(p, label, c) == pc' = [pc EXCEPT ![p] = label] /\ ctx' = [ctx EXCEPT ![p] = c]
Done(p) == Goto(p, Hub(p), Nothing)

\* The events that p works on, and those that others do.
InHand(p) == ({ctx[p].event} \cup {t[1] : t \in ctx[p].todo}) \ {None}
Elsewhere(p) == UNION {InHand(q) : q \in Procs \ {p}}

\* The notes: a message of e more is accounted for; what p says of S as resolved may not be
\* what is shown in the end.
Extra(e) == extra' = [extra EXCEPT ![e] = @ + 1]
Blur(p, S) == blurred' = IF ctx[p].text = "resolved" THEN blurred \cup S ELSE blurred

\* A call to Telegram fails; what is said in M reaches the chat all the same
\* when only the answer is lost.
Fault == faults < MaxFaults /\ faults' = faults + 1

\* queue_outbox.
Queue == queued' = queued + 1 /\ outbox' = outbox \cup {queued + 1} /\ UNCHANGED told

\* flush_outbox begins by reading what is pending; then comes label.
FlushThen(p, label, c) ==
  IF outbox = {} THEN Goto(p, label, c)
  ELSE Goto(p, "header", [c EXCEPT !.then = label, !.batch = outbox, !.left = outbox])

\* What the message n of e says now.
Say(e, n, text) == shown' = [shown EXCEPT ![e] = [@ EXCEPT ![n] = text]]
Post(e, text) == shown' = [shown EXCEPT ![e] = Append(@, text)]

-----------------------------------------------------------------------------
(* report: the occurrence, the change of severity and the policy.          *)

\* The upsert of record_occurrence.
Recorded(r) ==
  [r EXCEPT !.count = @ + 1,
            !.streak = IF r.state = "resolved" THEN 1 ELSE @ + 1,
            !.state = IF @ \in {"none", "resolved"} THEN "unacked" ELSE @]

\* Variant: one occurrence later.
EscalatesLate(e, r) == e \in Escalating /\ r.streak > EscalateAfter /\ ~r.raised

Escalates(e, r) == e \in Escalating /\ r.streak >= EscalateAfter /\ ~r.raised

IsCritical(e, r) == e \in Critical /\ (e \in Escalating => r.raised)

\* A change of severity notifies whatever the cooldown says.
Notifying(r, escalated, now) ==
  \/ escalated
  \/ r.count \in Ladder /\ (r.alerted = None \/ r.alerted < now)

\* Variant: what is owned is not edited.
RouteReposts(p, e, r, notifying, now) ==
  IF r.until > now THEN Hub(p)
  ELSE IF notifying /\ ~IsCritical(e, r) THEN "budget"
  ELSE IF notifying THEN "send" ELSE Hub(p)

\* Where _apply_alert_policy sends p with the row r.
Route(p, e, r, notifying, now) ==
  IF r.until > now THEN Hub(p)
  ELSE IF notifying /\ ~IsCritical(e, r) THEN "budget"
  ELSE IF r.msg # 0 THEN "edit"
  ELSE IF notifying THEN "send" ELSE Hub(p)

Record(p, e) ==
  /\ pc[p] = Hub(p) /\ e \in Reports[p] /\ reports < MaxReports
  /\ LET new == Recorded(row[e])
         escalated == Escalates(e, new)
         r == [new EXCEPT !.raised = @ \/ escalated]
         notifying == Notifying(r, escalated, hour)
         to == Route(p, e, r, notifying, hour)
         c == [Nothing EXCEPT !.event = e, !.now = hour, !.text = r.state,
                              !.msg = r.msg, !.notifying = notifying, !.then = to]
     IN  /\ row' = [row EXCEPT ![e] = new]
         /\ IF escalated THEN Goto(p, "escalate", c)
            ELSE Goto(p, to, IF to = Hub(p) THEN Nothing ELSE c)
  /\ reports' = reports + 1
  /\ IF row[e].msg = 0 /\ e \in Elsewhere(p) THEN Extra(e) ELSE UNCHANGED extra
  /\ UNCHANGED <<hour, shown, box, purse, blurred, mutes, bad>>

\* set_severity.
Escalate(p) ==
  /\ pc[p] = "escalate"
  /\ row' = [row EXCEPT ![ctx[p].event].raised = TRUE]
  /\ IF ctx[p].then = Hub(p) THEN Done(p) ELSE Goto(p, ctx[p].then, ctx[p])
  /\ UNCHANGED <<hour, shown, box, purse, notes, uses, bad>>

-----------------------------------------------------------------------------
(* _budget_permits.                                                        *)

\* The window that holds at the time now, b being the row.
BudgetAt(b, now) ==
  IF b = None \/ b.start < now THEN [start |-> now, count |-> 0, noticed |-> FALSE] ELSE b

\* get_state and the test.
ReadBudget(p) ==
  /\ pc[p] = "budget"
  /\ LET b == BudgetAt(budget, ctx[p].now)
         c == [ctx[p] EXCEPT !.raw = budget]
     IN  IF b.count < MaxAlerts THEN Goto(p, "spend", c)
         ELSE IF b.noticed THEN Done(p) ELSE Goto(p, "notice", c)
  /\ UNCHANGED <<hour, rows, box, purse, notes, uses, bad>>

\* set_state after a read that is stale by now, or is not.
WriteBudget(p, b) ==
  /\ budget' = b
  /\ raced' = IF budget = ctx[p].raw THEN raced ELSE raced + 1

\* Variant: the alert is not counted.
SpendFree(p) ==
  /\ pc[p] = "spend"
  /\ LET b == BudgetAt(ctx[p].raw, ctx[p].now) IN
       /\ WriteBudget(p, b)
       /\ booked' = [booked EXCEPT ![b.start].alerts = @ + 1]
  /\ Goto(p, IF ctx[p].msg = 0 THEN "send" ELSE "edit", ctx[p])
  /\ UNCHANGED <<hour, rows, box, notes, uses, bad>>

Spend(p) ==
  /\ pc[p] = "spend"
  /\ LET b == BudgetAt(ctx[p].raw, ctx[p].now) IN
       /\ WriteBudget(p, [b EXCEPT !.count = @ + 1])
       /\ booked' = [booked EXCEPT ![b.start].alerts = @ + 1]
  /\ Goto(p, IF ctx[p].msg = 0 THEN "send" ELSE "edit", ctx[p])
  /\ UNCHANGED <<hour, rows, box, notes, uses, bad>>

Notice(p) ==
  /\ pc[p] = "notice"
  /\ LET b == BudgetAt(ctx[p].raw, ctx[p].now) IN
       /\ WriteBudget(p, [b EXCEPT !.noticed = TRUE])
       /\ booked' = [booked EXCEPT ![b.start].notices = @ + 1]
  /\ Goto(p, "warn", ctx[p])
  /\ UNCHANGED <<hour, rows, box, notes, uses, bad>>

\* The suppression notice.
Warn(p) ==
  /\ pc[p] = "warn"
  /\ \/ FlushThen(p, Hub(p), Nothing) /\ UNCHANGED <<box, faults>>
     \/ Fault /\ Queue /\ Done(p)
  /\ UNCHANGED <<hour, rows, purse, notes, uses, crashes>>

-----------------------------------------------------------------------------
(* _send_ops and _edit_owned.                                              *)

\* After an edit a pass that resolves goes on with its next event.
GoOn(p) ==
  IF ctx[p].todo = {} THEN Done(p)
  ELSE \E t \in ctx[p].todo :
         Goto(p, "edit", [ctx[p] EXCEPT !.event = t[1], !.msg = t[2], !.todo = @ \ {t}])

\* After an edit that worked: a notifying alert is counted.
Edited(p) == IF ctx[p].notifying THEN Goto(p, "count", ctx[p]) ELSE GoOn(p)

\* A message for the event is sent, then comes label; one that is adopted replaces another.
SendFresh(p, label) ==
  /\ LET e == ctx[p].event
         c == [ctx[p] EXCEPT !.msg = Len(shown[e]) + 1]
     IN  \/ /\ Post(e, ctx[p].text) /\ FlushThen(p, label, c)
            /\ IF label = "adopt" THEN Extra(e) ELSE UNCHANGED extra
            /\ UNCHANGED <<box, blurred, faults>>
         \/ /\ Fault /\ Queue /\ GoOn(p) /\ Blur(p, {e})
            /\ (Post(e, ctx[p].text) /\ Extra(e)) \/ UNCHANGED <<shown, extra>>
  /\ UNCHANGED <<hour, row, purse, uses, crashes>>

Send(p) == pc[p] = "send" /\ SendFresh(p, "own")

\* record_alert with the coordinates of the message.
Own(p) ==
  /\ pc[p] = "own"
  /\ row' = [row EXCEPT ![ctx[p].event] = [@ EXCEPT !.msg = ctx[p].msg, !.alerted = ctx[p].now]]
  /\ Done(p)
  /\ UNCHANGED <<hour, shown, box, purse, notes, uses, bad>>

\* The edit works, or the text is queued because the network failed, or Telegram
\* refuses and that is all, or the message is too old and another one is sent.
Edit(p) ==
  /\ pc[p] = "edit"
  /\ LET e == ctx[p].event IN
       \/ Say(e, ctx[p].msg, ctx[p].text) /\ Edited(p)
          /\ UNCHANGED <<box, blurred, faults>>
       \/ Fault /\ Queue /\ GoOn(p) /\ Blur(p, {e})
          /\ (Say(e, ctx[p].msg, ctx[p].text) \/ UNCHANGED shown)
       \/ Fault /\ GoOn(p) /\ Blur(p, {e})
          /\ UNCHANGED <<shown, box>>
       \/ Fault /\ Goto(p, "resend", ctx[p])
          /\ UNCHANGED <<shown, box, blurred>>
  /\ UNCHANGED <<hour, row, purse, extra, uses, crashes>>

Resend(p) == pc[p] = "resend" /\ SendFresh(p, "adopt")

\* set_alert_message.
Adopt(p) ==
  /\ pc[p] = "adopt"
  /\ row' = [row EXCEPT ![ctx[p].event].msg = ctx[p].msg]
  /\ Edited(p)
  /\ UNCHANGED <<hour, shown, box, purse, notes, uses, bad>>

\* record_alert after an edit.
Count(p) ==
  /\ pc[p] = "count"
  /\ row' = [row EXCEPT ![ctx[p].event].alerted = ctx[p].now]
  /\ Done(p)
  /\ UNCHANGED <<hour, shown, box, purse, notes, uses, bad>>

-----------------------------------------------------------------------------
(* flush_outbox.                                                           *)

AfterFlush(p) ==
  Goto(p, ctx[p].then, [ctx[p] EXCEPT !.then = "off", !.batch = {}, !.left = {}])

\* Variant: the batch is marked before its bodies are sent.
HeaderMarks(p) ==
  /\ pc[p] = "header"
  /\ LET all == Cardinality(ctx[p].batch) > BodyLimit IN
       \/ /\ Goto(p, IF all THEN "mark" ELSE "body", ctx[p])
          /\ told' = IF all THEN told \cup ctx[p].batch ELSE told
          /\ outbox' = outbox \ ctx[p].batch
          /\ UNCHANGED faults
       \/ Fault /\ AfterFlush(p) /\ UNCHANGED <<told, outbox>>
  /\ UNCHANGED <<hour, rows, queued, purse, notes, uses, crashes>>

\* The header speaks for the entries that are too many to be sent.
Header(p) ==
  /\ pc[p] = "header"
  /\ LET all == Cardinality(ctx[p].batch) > BodyLimit IN
       \/ /\ Goto(p, IF all THEN "mark" ELSE "body", ctx[p])
          /\ told' = IF all THEN told \cup ctx[p].batch ELSE told
          /\ UNCHANGED faults
       \/ Fault /\ AfterFlush(p) /\ UNCHANGED told
  /\ UNCHANGED <<hour, rows, outbox, queued, purse, notes, uses, crashes>>

\* The bodies, oldest first.
Body(p) ==
  /\ pc[p] = "body"
  /\ LET n == Min(ctx[p].left) IN
       \/ /\ told' = told \cup {n}
          /\ Goto(p, IF ctx[p].left = {n} THEN "mark" ELSE "body",
                  [ctx[p] EXCEPT !.left = @ \ {n}])
          /\ UNCHANGED faults
       \/ Fault /\ AfterFlush(p) /\ UNCHANGED told
  /\ UNCHANGED <<hour, rows, outbox, queued, purse, notes, uses, crashes>>

\* Variant: the entries stay undelivered.
MarkNone(p) ==
  /\ pc[p] = "mark"
  /\ AfterFlush(p)
  /\ UNCHANGED <<hour, rows, box, purse, notes, uses, bad>>

\* mark_outbox_delivered.
Mark(p) ==
  /\ pc[p] = "mark"
  /\ outbox' = outbox \ ctx[p].batch
  /\ AfterFlush(p)
  /\ UNCHANGED <<hour, rows, queued, told, purse, notes, uses, bad>>

-----------------------------------------------------------------------------
(* The pass of the job: flush, the events of its sources, retention.       *)

StartPass ==
  /\ pc[Job] = "off"
  /\ FlushThen(Job, "run", Nothing)
  /\ UNCHANGED <<hour, rows, box, purse, notes, uses, bad>>

\* Variant: the alerts are left as they are.
ResolveQuietly ==
  /\ pc[Job] = "run"
  /\ LET open == {e \in Fetch : row[e].state \in {"unacked", "acked"}} IN
       /\ open # {}
       /\ row' = [e \in Events |-> IF e \in open THEN [row[e] EXCEPT !.state = "resolved", !.streak = 0]
                                   ELSE row[e]]
       /\ blurred' = (blurred \ open) \cup (open \cap Elsewhere(Job))
  /\ UNCHANGED <<hour, shown, box, purse, extra, uses, bad, pc, ctx>>

\* resolve_source_events: the rows, then the messages they own.
Resolve ==
  /\ pc[Job] = "run"
  /\ LET open == {e \in Fetch : row[e].state \in {"unacked", "acked"}}
         todo == {<<e, row[e].msg>> : e \in {d \in open : row[d].msg # 0}}
     IN  /\ open # {}
         /\ row' = [e \in Events |->
                      IF e \in open THEN [row[e] EXCEPT !.state = "resolved", !.streak = 0]
                      ELSE row[e]]
         /\ IF todo = {} THEN Done(Job)
            ELSE \E t \in todo :
                   Goto(Job, "edit", [Nothing EXCEPT !.event = t[1], !.msg = t[2],
                                                     !.todo = todo \ {t}, !.text = "resolved"])
         /\ blurred' = (blurred \ open) \cup (open \cap Elsewhere(Job))
  /\ UNCHANGED <<hour, shown, box, purse, extra, uses, bad>>

\* The end of a pass: retention_cleanup deletes events that were resolved long ago,
\* so that nobody has them in hand any more.
EndPass ==
  /\ pc[Job] = "run"
  /\ \E Old \in SUBSET {e \in Events : row[e].state = "resolved"
                                       /\ \A p \in Procs : e \notin InHand(p)} :
       /\ row' = [e \in Events |-> IF e \in Old THEN Absent ELSE row[e]]
       /\ shown' = [e \in Events |-> IF e \in Old THEN <<>> ELSE shown[e]]
       /\ extra' = [e \in Events |-> IF e \in Old THEN 0 ELSE extra[e]]
       /\ blurred' = blurred \ Old
  /\ Goto(Job, "off", Nothing)
  /\ UNCHANGED <<hour, box, purse, uses, bad>>

-----------------------------------------------------------------------------
(* The operators' commands.                                                *)

\* /ack and the reply "ack": ack_event, then the edit of the message.
Ack(h, e) ==
  /\ pc[h] = "off" /\ row[e].state # "none" /\ row[e].acker = None
  /\ row' = [row EXCEPT ![e] = [@ EXCEPT !.state = "acked", !.acker = h]]
  /\ IF row[e].msg = 0 THEN Done(h)
     ELSE Goto(h, "edit", [Nothing EXCEPT !.event = e, !.msg = row[e].msg, !.text = "acked"])
  /\ UNCHANGED <<hour, shown, box, purse, notes, uses, bad>>

\* /ack all: the rows only.
AckAll(h) ==
  /\ pc[h] = "off" /\ \E e \in Events : row[e].state = "unacked"
  /\ row' = [e \in Events |->
               IF row[e].state = "unacked" /\ row[e].acker = None
               THEN [row[e] EXCEPT !.state = "acked", !.acker = h] ELSE row[e]]
  /\ UNCHANGED <<hour, shown, box, purse, notes, uses, bad, pc, ctx>>

\* /mute and /unmute, of one event or of those of the source.
Mute(h) ==
  /\ pc[h] = "off" /\ mutes < MaxMutes
  /\ mutes' = mutes + 1
  /\ \E S \in {{e} : e \in Events} \cup {Fetch}, u \in {0, hour + 1} :
       row' = [e \in Events |-> IF e \in S /\ row[e].state # "none"
                               THEN [row[e] EXCEPT !.until = u] ELSE row[e]]
  /\ UNCHANGED <<hour, shown, box, purse, notes, reports, bad, pc, ctx>>

-----------------------------------------------------------------------------

\* p has sent a message that no row owns yet.
Sent(p) == pc[p] = "own" \/ (pc[p] \in {"header", "body", "mark"} /\ ctx[p].then = "own")

Crash(p) ==
  /\ pc[p] # "off" /\ crashes < MaxCrashes
  /\ crashes' = crashes + 1
  /\ IF Sent(p) THEN Extra(ctx[p].event) ELSE UNCHANGED extra
  /\ Blur(p, InHand(p))
  /\ Goto(p, "off", Nothing)
  /\ UNCHANGED <<hour, rows, box, purse, uses, faults>>

Tick ==
  /\ hour < MaxHour
  /\ hour' = hour + 1
  /\ UNCHANGED <<rows, box, purse, notes, uses, bad, pc, ctx>>

\* What p does by itself once it has begun.
Step(p) ==
  \/ Escalate(p) \/ ReadBudget(p) \/ Spend(p) \/ Notice(p) \/ Warn(p)
  \/ Send(p) \/ Own(p) \/ Edit(p) \/ Resend(p) \/ Adopt(p) \/ Count(p)
  \/ Header(p) \/ Body(p) \/ Mark(p)

Pass == StartPass \/ Resolve \/ EndPass \/ Step(Job) \/ \E e \in Events : Record(Job, e)

Request(h) ==
  \/ \E e \in Events : Record(h, e) \/ Ack(h, e)
  \/ AckAll(h) \/ Mute(h)

Next ==
  \/ Pass \/ Tick
  \/ \E h \in Handlers : Request(h) \/ Step(h)
  \/ \E p \in Procs : Crash(p)

Spec == Init /\ [][Next]_vars

\* The cron starts passes, and what has begun runs on: every await has a timeout.
Fairness == WF_vars(Pass) /\ \A h \in Handlers : WF_vars(Step(h))

FairSpec == Spec /\ Fairness

-----------------------------------------------------------------------------
(* Safety.                                                                 *)

\* "Each fingerprint owns one message in the ops chat (edit, don't repost)": of an event there is one,
\* and one more for each report that found it without a message while another process had it in hand,
\* each answer that was lost, each process killed between sending and recording, and each message that
\* was too old to be edited.  No flush, ack, mute, resolution or reopening adds any.
OneMessageEach == \A e \in Events : Len(shown[e]) <= 1 + extra[e]

\* The budget holds in every window, and "a single suppression notice is posted":
\* a write that undoes another process's gives away at most one more of each.
BudgetHolds ==
  \A h \in 0..MaxHour :
    /\ booked[h].alerts <= MaxAlerts * (1 + raced)
    /\ booked[h].notices <= 1 + raced

\* A recovered event reads so in the chat: once the job is done with it, its message says resolved,
\* whatever races, faults and crashes it met in its life.  Excepted are only events that an ack or
\* a report had in hand when their rows were resolved, and those whose last edit failed.
ResolvedIsShown ==
  \A e \in Events \ blurred :
    (row[e].state = "resolved" /\ row[e].msg # 0 /\ e \notin InHand(Job))
      => shown[e][row[e].msg] = "resolved"

\* An event that keeps occurring has its severity raised from escalate_after on, or is about to, whatever
\* acks, mutes, resolutions and reopenings came between: each crash puts it off by one occurrence at most.
LongStreaksAreRaised ==
  \A e \in Escalating :
    row[e].streak >= EscalateAfter + crashes =>
      row[e].raised \/ \E p \in Procs : pc[p] = "escalate" /\ ctx[p].event = e

\* Nothing is marked delivered that the ops chat was not told of, although entries
\* are queued while a flush is on its way and two flushes may overlap.
NothingMarkedUntold == (1..queued) \ outbox \subseteq told

\* "First acker wins", for as long as the event is remembered.
AckerStands ==
  [][\A e \in Events : row[e].acker # None =>
       row'[e].acker = row[e].acker \/ row'[e].state = "none"]_vars

-----------------------------------------------------------------------------
(* Liveness, under FairSpec.                                               *)

\* What could not be sent is delivered at last.
QueuedIsDelivered ==
  \A n \in 1..(MaxFaults + 1) : (n \in outbox) ~> (n \notin outbox)

-----------------------------------------------------------------------------
(* What docstrings say, and the code does not do.                          *)

\* ack_all: "Ack every currently unacked event".
AckAllClears ==
  [][(\E h \in Handlers : AckAll(h)) => \A e \in Events : row'[e].state # "unacked"]_vars
=============================================================================
