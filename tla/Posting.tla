------------------------------ MODULE Posting ------------------------------
(***************************************************************************)
(* The posting half of a pass, for one channel: run_execution's advisory   *)
(* lock, the routing rows a fetch leaves behind, post_phase, the Telegram  *)
(* send and the delivery row (newsbot/runner.py, newsbot/telegram.py,      *)
(* archive/writer.py, select_for_channel of newsbot/router.py).            *)
(*                                                                         *)
(* Rows, slot and attempts are all keyed by channel and post_phase visits  *)
(* the channels one after another, so one channel shows all there is.      *)
(* Every statement outside a transaction block commits by itself and every *)
(* Telegram call is an await: each is a step.  A process works from the    *)
(* backlog it read at the start of the phase, which other processes may    *)
(* have changed since.                                                     *)
(*                                                                         *)
(* An item's number is its rank by published_utc (first_seen_utc when it   *)
(* has none): the order in which a batch is posted.                        *)
(***************************************************************************)
EXTENDS Naturals, FiniteSets, FiniteSetsExt

CONSTANTS
  Items,        \* items the feeds will publish
  Sources,      \* the feeds
  SourceOf,     \* SourceOf[i]: the feed of item i
  Specs,        \* spec versions in use: is the channel enabled, which feeds it binds
  Jobs,         \* executions of "run --once"
  Loops,        \* processes of "run" without --once (run_forever)
  DryRunners,   \* the processes that run with DRY_RUN
  WithImage,    \* items whose post carries a photo
  CanAge,       \* items with a published_utc, on a channel with max_age_min
  Cap,          \* max_posts_per_run
  DropOldest,   \* queue_policy: drop_oldest, or else drain_all
  HasInterval,  \* post_interval_min > 0
  MaxAttempts,  \* MAX_DELIVERY_ATTEMPTS
  MaxCrashes,   \* bound on the passes that end before their time
  None          \* no holder, no item

Procs == Jobs \cup Loops

ASSUME ItemsAssumption == Items \subseteq Nat /\ IsFiniteSet(Items)
ASSUME SourcesAssumption ==
  /\ SourceOf \in [Items -> Sources]
  /\ Specs \subseteq [enabled : BOOLEAN, bound : SUBSET Sources]
ASSUME ProcsAssumption == Jobs \cap Loops = {} /\ DryRunners \subseteq Procs
ASSUME NoneAssumption == None \notin Procs \cup Items
ASSUME SettingsAssumption ==
  /\ WithImage \subseteq Items /\ CanAge \subseteq Items
  /\ Cap \in Nat \ {0} /\ DropOldest \in BOOLEAN /\ HasInterval \in BOOLEAN
  /\ MaxAttempts \in Nat \ {0} /\ MaxCrashes \in Nat

VARIABLES
  decision,  \* decision[i]: "none", then the routing_decisions row of item i
  status,    \* status[i]: "none", then the status of its deliveries row
  attempt,   \* attempt[i]: the attempt column, 0 without a row
  posts,     \* posts[i]: copies of item i in the public chat
  astray,    \* astray[i]: those whose success no process lived to record
  aged,      \* items that are past max_age_min by now
  open,      \* whether post_interval_min has passed since the slot was claimed
  lock,      \* the session that holds the advisory lock
  pc,        \* where each process is
  ctx,       \* what each process holds in local variables
  crashes    \* passes that ended before their time so far

chatlog == <<posts, astray>>
world == <<chatlog, aged, open>>
vars == <<decision, status, attempt, world, lock, pc, ctx, crashes>>

\* "gated" is rate_limited with the gated: reason prefix; "filtered" stands for
\* the outcomes decide_item never revisits (duplicate, cold_start_skip,
\* filtered_category, predicate_failed).
Decisions == {"none", "routed", "gated", "rate_limited", "too_old",
              "channel_disabled", "filtered"}
Terminal == {"rate_limited", "too_old", "channel_disabled", "filtered"}
Statuses == {"none", "sent", "failed", "skipped"}
PCs == {"idle", "fetch", "retire", "slot", "gate", "drop", "next",
        "photo", "text", "record", "done"}

\* batch: the rows the current loop still has to handle; item and result: the
\* post being sent and what became of it.
Context == [spec : [enabled : BOOLEAN, bound : SUBSET Sources],
            fresh : SUBSET Items, batch : SUBSET Items,
            item : Items \cup {None}, result : Statuses]
Nothing == [spec |-> [enabled |-> FALSE, bound |-> {}],
            fresh |-> {}, batch |-> {}, item |-> None, result |-> "none"]

TypeOK ==
  /\ decision \in [Items -> Decisions]
  /\ status \in [Items -> Statuses]
  /\ attempt \in [Items -> Nat]
  /\ posts \in [Items -> Nat]
  /\ astray \in [Items -> Nat]
  /\ aged \subseteq CanAge
  /\ open \in BOOLEAN
  /\ lock \in Jobs \cup {None}
  /\ pc \in [Procs -> PCs]
  /\ ctx \in [Procs -> Context]
  /\ crashes \in 0..MaxCrashes

Init ==
  /\ decision = [i \in Items |-> "none"]
  /\ status = [i \in Items |-> "none"]
  /\ attempt = [i \in Items |-> 0]
  /\ posts = [i \in Items |-> 0]
  /\ astray = [i \in Items |-> 0]
  /\ aged \in SUBSET CanAge
  /\ open = TRUE
  /\ lock = None
  /\ pc = [p \in Procs |-> "idle"]
  /\ ctx = [p \in Procs |-> Nothing]
  /\ crashes = 0

-----------------------------------------------------------------------------
(* The queries and the selection.                                          *)

\* Variants of the backlog query: one attempt too many; a dry-run delivery is not
\* terminal; rate_limited without the gated: prefix; gated rows left out.
BacklogOneMore ==
  {i \in Items : decision[i] \in {"routed", "gated"} /\
     (status[i] = "none" \/ (status[i] = "failed" /\ attempt[i] <= MaxAttempts))}
BacklogSkipped ==
  {i \in Items : decision[i] \in {"routed", "gated"} /\
     (status[i] \in {"none", "skipped"} \/ (status[i] = "failed" /\ attempt[i] < MaxAttempts))}
BacklogDropped ==
  {i \in Items : decision[i] \in {"routed", "gated", "rate_limited"} /\
     (status[i] = "none" \/ (status[i] = "failed" /\ attempt[i] < MaxAttempts))}
BacklogUngated ==
  {i \in Items : decision[i] = "routed" /\
     (status[i] = "none" \/ (status[i] = "failed" /\ attempt[i] < MaxAttempts))}

\* get_postable_backlog: routed or gated, and not delivered, or failed with
\* attempts left.
Backlog ==
  {i \in Items : /\ decision[i] \in {"routed", "gated"}
                 /\ \/ status[i] = "none"
                    \/ status[i] = "failed" /\ attempt[i] < MaxAttempts}

\* select_for_channel behind an open gate: under drop_oldest the newest Cap
\* candidates post and the others are dropped; under drain_all the oldest post
\* and the others wait.
Newest(S) == {i \in S : Cardinality({j \in S : j > i}) < Cap}
Oldest(S) == {i \in S : Cardinality({j \in S : j < i}) < Cap}
ToPost(S) == IF DropOldest THEN Newest(S) ELSE Oldest(S)
Dropped(S) == IF DropOldest THEN S \ Newest(S) ELSE {}

Goto(p, l) == pc' = [pc EXCEPT ![p] = l]

\* The row whose turn it is leaves the batch of the loop p is in.
Advance(p) == ctx' = [ctx EXCEPT ![p].batch = @ \ {Min(@)}]
Mark(i, d) == decision' = [decision EXCEPT ![i] = d]

-----------------------------------------------------------------------------
(* The start and the end of a pass.                                        *)

\* Variant: the answer of pg_try_advisory_lock is ignored.
StartJobUnlocked(p) ==
  /\ p \in Jobs
  /\ pc[p] = "idle"
  /\ lock' = p
  /\ \E s \in Specs : ctx' = [ctx EXCEPT ![p].spec = s]
  /\ Goto(p, "fetch")
  /\ UNCHANGED <<decision, status, attempt, world, crashes>>

\* run_execution: pg_try_advisory_lock, and the loser exits without work.
StartJob(p) ==
  /\ p \in Jobs
  /\ pc[p] = "idle"
  /\ lock = None
  /\ lock' = p
  /\ \E s \in Specs : ctx' = [ctx EXCEPT ![p].spec = s]
  /\ Goto(p, "fetch")
  /\ UNCHANGED <<decision, status, attempt, world, crashes>>

\* run_forever: the same pass, without the lock.
StartLoop(p) ==
  /\ p \in Loops
  /\ pc[p] = "idle"
  /\ \E s \in Specs : ctx' = [ctx EXCEPT ![p].spec = s]
  /\ Goto(p, "fetch")
  /\ UNCHANGED <<decision, status, attempt, world, lock, crashes>>

\* The fetch half stores a new item and its decision; a row that exists stays.
Ingest(p, i) ==
  /\ pc[p] = "fetch"
  /\ decision[i] = "none"
  /\ SourceOf[i] \in ctx[p].spec.bound
  /\ \E d \in {"filtered", IF ~ctx[p].spec.enabled THEN "channel_disabled"
                         ELSE IF i \in aged THEN "too_old" ELSE "routed"} : Mark(i, d)
  /\ UNCHANGED <<status, attempt, world, lock, pc, ctx, crashes>>

\* post_phase skips a disabled channel, otherwise reads its backlog and splits it
\* by age; the stale rows come first.
ReadBacklog(p) ==
  /\ pc[p] = "fetch"
  /\ IF ctx[p].spec.enabled
       THEN /\ ctx' = [ctx EXCEPT ![p].batch = Backlog \cap aged,
                                 ![p].fresh = Backlog \ aged]
            /\ Goto(p, "retire")
       ELSE /\ Goto(p, "done")
            /\ UNCHANGED ctx
  /\ UNCHANGED <<decision, status, attempt, world, lock, crashes>>

\* The pass ends; the lock goes with it.
Finish(p) ==
  /\ pc[p] = "done"
  /\ Goto(p, "idle")
  /\ ctx' = [ctx EXCEPT ![p] = Nothing]
  /\ lock' = IF lock = p THEN None ELSE lock
  /\ UNCHANGED <<decision, status, attempt, world, crashes>>

\* The pass ends before its time: locals are gone, the lock is dropped (by the
\* finally of run_execution, or with the session), and a success that was not
\* recorded yet never will be.
Abort(p) ==
  /\ crashes < MaxCrashes
  /\ crashes' = crashes + 1
  /\ Goto(p, "idle")
  /\ ctx' = [ctx EXCEPT ![p] = Nothing]
  /\ lock' = IF lock = p THEN None ELSE lock

\* The job is killed (replica timeout) or loses its database session.
Crash(p) ==
  /\ pc[p] # "idle"
  /\ Abort(p)
  /\ astray' = IF pc[p] = "record" /\ ctx[p].result = "sent"
                 THEN [astray EXCEPT ![ctx[p].item] = @ + 1] ELSE astray
  /\ UNCHANGED <<decision, status, attempt, posts, aged, open>>

-----------------------------------------------------------------------------
(* post_phase.                                                             *)

RetireAged(p) ==
  /\ pc[p] = "retire"
  /\ ctx[p].batch # {}
  /\ Mark(Min(ctx[p].batch), "too_old")
  /\ Advance(p)
  /\ UNCHANGED <<status, attempt, world, lock, pc, crashes>>

AfterRetire(p) ==
  /\ pc[p] = "retire"
  /\ ctx[p].batch = {}
  /\ Goto(p, IF ctx[p].fresh = {} THEN "done" ELSE "slot")
  /\ UNCHANGED <<decision, status, attempt, world, lock, ctx, crashes>>

\* try_acquire_post_slot, one upsert: the winner claims the window, the loser
\* gates all it read.
ClaimSlot(p) ==
  /\ pc[p] = "slot"
  /\ IF open
       THEN /\ open' = ~HasInterval
            /\ ctx' = [ctx EXCEPT ![p].batch = Dropped(ctx[p].fresh)]
            /\ Goto(p, "drop")
       ELSE /\ ctx' = [ctx EXCEPT ![p].batch = ctx[p].fresh]
            /\ Goto(p, "gate")
            /\ UNCHANGED open
  /\ UNCHANGED <<decision, status, attempt, chatlog, aged, lock, crashes>>

Gate(p) ==
  /\ pc[p] = "gate"
  /\ \/ /\ ctx[p].batch # {}
        /\ Mark(Min(ctx[p].batch), "gated")
        /\ Advance(p)
        /\ UNCHANGED pc
     \/ /\ ctx[p].batch = {}
        /\ Goto(p, "done")
        /\ UNCHANGED <<decision, ctx>>
  /\ UNCHANGED <<status, attempt, world, lock, crashes>>

Drop(p) ==
  /\ pc[p] = "drop"
  /\ \/ /\ ctx[p].batch # {}
        /\ Mark(Min(ctx[p].batch), "rate_limited")
        /\ Advance(p)
        /\ UNCHANGED pc
     \/ /\ ctx[p].batch = {}
        /\ ctx' = [ctx EXCEPT ![p].batch = ToPost(ctx[p].fresh)]
        /\ Goto(p, "next")
        /\ UNCHANGED decision
  /\ UNCHANGED <<status, attempt, world, lock, crashes>>

\* The next selected item: retired when its binding left the spec, not sent
\* under DRY_RUN, otherwise on its way to Telegram.
NextPost(p) ==
  /\ pc[p] = "next"
  /\ LET i == Min(ctx[p].batch) IN
       \/ /\ ctx[p].batch = {}
          /\ Goto(p, "done")
          /\ UNCHANGED <<decision, ctx>>
       \/ /\ ctx[p].batch # {} /\ SourceOf[i] \notin ctx[p].spec.bound
          /\ Mark(i, "channel_disabled")
          /\ Advance(p)
          /\ UNCHANGED pc
       \/ /\ ctx[p].batch # {} /\ SourceOf[i] \in ctx[p].spec.bound
          /\ ctx' = [ctx EXCEPT ![p].batch = @ \ {i}, ![p].item = i,
                       ![p].result = IF p \in DryRunners THEN "skipped" ELSE "none"]
          /\ Goto(p, IF p \in DryRunners THEN "record"
                     ELSE IF i \in WithImage THEN "photo" ELSE "text")
          /\ UNCHANGED decision
  /\ UNCHANGED <<status, attempt, world, lock, crashes>>

\* One Bot API call for item i.  Acknowledged: the post is up and the caller
\* knows.  Not acknowledged: refused, or up with the response lost.
Acknowledged(i) ==
  /\ posts' = [posts EXCEPT ![i] = @ + 1]
  /\ UNCHANGED astray
Unacknowledged(i) ==
  \/ UNCHANGED chatlog
  \/ /\ posts' = [posts EXCEPT ![i] = @ + 1]
     /\ astray' = [astray EXCEPT ![i] = @ + 1]

Call(p, onError, errorResult) ==
  LET i == ctx[p].item IN
    \/ /\ Acknowledged(i)
       /\ ctx' = [ctx EXCEPT ![p].result = "sent"]
       /\ Goto(p, "record")
    \/ /\ Unacknowledged(i)
       /\ ctx' = [ctx EXCEPT ![p].result = errorResult]
       /\ Goto(p, onError)

\* A photo that is not acknowledged falls back to text, refused or not.
SendPhoto(p) ==
  /\ pc[p] = "photo"
  /\ Call(p, "text", "none")
  /\ UNCHANGED <<decision, status, attempt, aged, open, lock, crashes>>

\* Variant: the answer to the text is not looked at.
SendTextBlind(p) ==
  /\ pc[p] = "text"
  /\ Call(p, "record", "sent")
  /\ UNCHANGED <<decision, status, attempt, aged, open, lock, crashes>>

SendText(p) ==
  /\ pc[p] = "text"
  /\ Call(p, "record", "failed")
  /\ UNCHANGED <<decision, status, attempt, aged, open, lock, crashes>>

\* An answer that is not JSON raises out of send and of the whole pass.
SendRaises(p) ==
  /\ pc[p] \in {"photo", "text"}
  /\ Unacknowledged(ctx[p].item)
  /\ Abort(p)
  /\ UNCHANGED <<decision, status, attempt, aged, open>>

\* Variant: mark_posted_after_gate is not called.
RecordOnly(p) ==
  /\ pc[p] = "record"
  /\ status' = [status EXCEPT ![ctx[p].item] = ctx[p].result]
  /\ attempt' = [attempt EXCEPT ![ctx[p].item] = @ + 1]
  /\ ctx' = [ctx EXCEPT ![p].item = None, ![p].result = "none"]
  /\ Goto(p, "next")
  /\ UNCHANGED <<decision, world, lock, crashes>>

\* record_delivery and mark_posted_after_gate in one transaction.
Record(p) ==
  /\ pc[p] = "record"
  /\ LET i == ctx[p].item IN
       /\ status' = [status EXCEPT ![i] = ctx[p].result]
       /\ attempt' = [attempt EXCEPT ![i] = @ + 1]
       /\ IF /\ ctx[p].result # "failed"
             /\ decision[i] \in {"gated", "rate_limited"}
            THEN Mark(i, "routed")
            ELSE UNCHANGED decision
  /\ ctx' = [ctx EXCEPT ![p].item = None, ![p].result = "none"]
  /\ Goto(p, "next")
  /\ UNCHANGED <<world, lock, crashes>>

-----------------------------------------------------------------------------
(* Time.                                                                   *)

WindowOpens ==
  /\ ~open
  /\ open' = TRUE
  /\ UNCHANGED <<decision, status, attempt, chatlog, aged, lock, pc, ctx, crashes>>

ItemAges(i) ==
  /\ aged' = aged \cup {i}
  /\ i \notin aged
  /\ UNCHANGED <<decision, status, attempt, chatlog, open, lock, pc, ctx, crashes>>

PostPhase(p) ==
  \/ RetireAged(p) \/ AfterRetire(p) \/ ClaimSlot(p) \/ Gate(p) \/ Drop(p)
  \/ NextPost(p) \/ SendPhoto(p) \/ SendText(p) \/ Record(p)

Next ==
  \/ \E p \in Procs :
       \/ StartJob(p) \/ StartLoop(p) \/ ReadBacklog(p) \/ Finish(p)
       \/ Crash(p) \/ SendRaises(p)
       \/ \E i \in Items : Ingest(p, i)
       \/ PostPhase(p)
  \/ WindowOpens
  \/ \E i \in CanAge : ItemAges(i)

Spec == Init /\ [][Next]_vars

\* The cron starts jobs and a started pass runs on; the clock opens the window.
\* Nothing makes a feed publish, an item age or a process die.
Fairness ==
  /\ WF_vars(WindowOpens)
  /\ \A p \in Procs :
       /\ WF_vars(StartLoop(p)) /\ WF_vars(ReadBacklog(p)) /\ WF_vars(Finish(p))
       /\ WF_vars(PostPhase(p))
  /\ WF_vars(\E p \in Jobs : StartJob(p))

FairSpec == Spec /\ Fairness

-----------------------------------------------------------------------------
(* Safety.  With Loops = {} the lock makes a pass exclusive and these hold. *)

\* A process that sent item i and has yet to record it.
Unrecorded(i) ==
  {p \in Procs : pc[p] = "record" /\ ctx[p].result = "sent" /\ ctx[p].item = i}

\* Double posting, "the failure that matters most" (ADR 0008): every copy of an
\* item in the channel is the one its delivery row stands for, one about to be
\* recorded, or one whose acknowledgement was lost or died with its process.
\* Retries, gating, the photo fallback and overlapping jobs add no other.
PostsAccountedFor ==
  \A i \in Items :
    posts[i] = astray[i] + (IF status[i] = "sent" THEN 1 ELSE 0)
                         + Cardinality(Unrecorded(i))

\* The archive's final word matches what happened: an item with a delivery that
\* stands reads "routed", not gated or dropped (mark_posted_after_gate).
DeliveredReadsRouted ==
  \A i \in Items : status[i] \in {"sent", "skipped"} => decision[i] = "routed"

\* A failing item is tried MAX_DELIVERY_ATTEMPTS times at most, however passes
\* crash, gate and resume in between.
RetriesBounded == \A i \in Items : attempt[i] <= MaxAttempts

\* A recorded delivery is the last: no later pass sends the item again or
\* rewrites the outcome.
DeliveryIsFinal ==
  [][\A i \in Items : status[i] \in {"sent", "skipped"} =>
       posts'[i] = posts[i] /\ status'[i] = status[i] /\ attempt'[i] = attempt[i]]_vars

\* An item that was dropped, aged out, unbound or filtered is never posted and
\* never comes back, in particular not through a batch read before.
RetiredIsFinal ==
  [][\A i \in Items : decision[i] \in Terminal =>
       decision'[i] = decision[i] /\ posts'[i] = posts[i]]_vars

\* What the two rows of an item say of it.
Fate(i) ==
  CASE decision[i] = "none" -> "new"
    [] decision[i] \in Terminal -> "retired"
    [] i \in Backlog -> "waiting"
    [] decision[i] \in {"routed", "gated"} /\ status[i] = "sent" -> "delivered"
    [] decision[i] \in {"routed", "gated"} /\ status[i] = "skipped" -> "rehearsed"
    [] OTHER -> "spent"

\* The passes behave as the channel's log: nothing is posted that does not wait,
\* nothing reads delivered that is not up, and a post that was delivered, retired
\* or given up after its last attempt is never touched again.
Log == INSTANCE ChannelLog WITH fate <- [i \in Items |-> Fate(i)], copies <- posts
ImplementsChannelLog == Log!Spec

-----------------------------------------------------------------------------
(* Liveness, under FairSpec.                                               *)

\* Backlog, not loss: a routed or gated item is in the end delivered, retired
\* with a reason, or given up after its attempts; neither closed windows nor
\* the cap nor a crash mid-posting leaves it behind.
Settled(i) ==
  \/ decision[i] \in Terminal
  \/ status[i] \in {"sent", "skipped"}
  \/ status[i] = "failed" /\ attempt[i] >= MaxAttempts
RoutedIsSettled == \A i \in Items : (decision[i] = "routed") ~> Settled(i)
=============================================================================
