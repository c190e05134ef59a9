# A TLA+ model of the news bot

The repository fetches RSS feeds, archives every item in PostgreSQL, routes
items to Telegram channels, posts them, asks operators to label them in review
chats and reports its own errors to an ops chat. It is written as a set of
short-lived processes that may overlap, be killed at any statement, lose the
answer to any Telegram call, and coordinate through nothing but PostgreSQL
rows and one advisory lock. These modules model that coordination, check it
with TLC on small instances, and prove what matters most with TLAPS.

## Inventory

| Component | Source | State it keeps | Operations | What makes it correct |
|---|---|---|---|---|
| Fetch cycle | `newsbot/runner.py`, `fetcher/http.py` | `source_state`, `fetches`, `items` | `run_once`, `process_source` | a source is fetched when due, fails with a bounded backoff, stores each item once, and resolves its error events on recovery; one source's trouble leaves the others alone |
| Router | `newsbot/router.py` | none | `decide_item`, `select_for_channel` | documented precedence; the cap and the queue policy |
| Posting | `newsbot/runner.py`, `archive/writer.py` | `routing_decisions`, `deliveries`, `channel_state`, the advisory lock | `run_execution`, `post_phase` | no double post that is not a lost acknowledgement, no lost item, bounded retries, retired means retired |
| Telegram client | `newsbot/telegram.py` | none | `send`, `api` | an error is an answer, never an exception |
| Review loop | `newsbot/feedback.py`, `archive/feedback.py` | `feedback_reviews`, the cards in the chats | `advance`, `handle_callback`, `/next` | one pending row per chat, the first press stands, the chat reads as a true log, no chat blocked for good |
| Error events | `archive/errors.py`, `newsbot/ops.py` | `error_events`, `operator_actions` | record, ack, mute, resolve, retention | every problem surfaces until somebody has looked at it |
| Alert engine | `newsbot/alerts.py` | the owned message, `alert_outbox`, `bot_state` | ladder, cooldown, budget, outbox, digest | persist first; one message per fingerprint; the budget holds |
| Webhook | `newsbot/webhook.py`, `newsbot/ops.py` | `seen_updates`, the runtime of a replica, `operator_actions` | acquire and rebuild, the redelivery gate, authorization, audit | an update takes effect at most once and is never swallowed; writers are administrators; writes are audited |
| Spec loading | `feedspec/`, `cli.py`, `specsource.py` | the document in the environment, at a URL or in a file; `spec_versions` | choose, load, validate, resolve; `run --once`, `serve`, `register-webhook` | no process works for a document that would show cards or alerts to an audience; no fallback; a version precedes its rows |
| Translation | `newsbot/translate.py` | `translations` | cache-first translate | the cache holds translations |
| Dedupe | `archive/dedupe.py` | none | `find_duplicate` | a story is posted and reviewed once |
| Formatter, parser, other commands, statistics, deployment | `newsbot/formatter.py`, `fetcher/`, `cli.py`, `archive/stats.py`, `deploy/` | none that processes share | | |

How they interact: a cron job (`run --once`) takes the advisory lock, flushes
the alert outbox, runs the fetch cycle, then posting, then the review loop for
every review chat, and sends digests. `run` without `--once` does the same in
a loop, without the lock. The webhook runs in up to two replicas beside all
that; it starts the handlers of the review loop and the operator commands.
Every component reports errors to the alert engine.

Connections are autocommit, so every statement outside a `transaction` block
commits by itself, and every Telegram call is an `await`. In the models each of
these is a step of its own, and a crash may fall between any two of them.

## Modules

| Module | What it is |
|---|---|
| `FeedbackLoop` | the review loop: the job and the handlers, one action per statement |
| `ReviewQueue` | the abstract queue of labelled rows that `FeedbackLoop` implements |
| `MCFeedbackLoop` | instances of `FeedbackLoop` for TLC |
| `FeedbackLoopProofs` | its invariant, theorems and refinement proof |
| `Posting` | the posting half of a pass: lock, backlog, slot, send, delivery row |
| `MCPosting` | instances of `Posting` for TLC |
| `ChannelLog` | what becomes of each item of a channel, which `Posting` and `FetchCycle` implement |
| `PostingProofs` | its invariant, theorems and refinement proof |
| `FetchCycle` | the fetch half of a pass: due times, backoff, answers, transactions, dedupe, event resolution |
| `MCFetchCycle` | instances of `FetchCycle` |
| `FetchCycleProofs` | its invariant and theorems |
| `AlertEngine` | error events and their alerts: policy, budget, owned message, outbox, ack, mute, resolution, retention |
| `MCAlertEngine` | instances of `AlertEngine` |
| `AlertEngineProofs` | its invariants and theorems: types, budget, streaks, acker, outbox |
| `AlertMessageProofs` | the theorems about the one message that an event owns |
| `Webhook` | the webhook app: requests, the runtime of a replica, the gate of `seen_updates`, authorization, audit |
| `AtMostOnce` | what the webhook promises of an update, which `Webhook` implements |
| `MCWebhook` | an instance of `Webhook` |
| `WebhookProofs` | its invariants, theorems and refinement proof |
| `SpecDoc` | a spec document: layers, resolution, and the verdict of the loader (operators only) |
| `Startup` | how documents reach the job, the webhook app and `register-webhook`, and which chats they write to |
| `MCStartup` | an instance of `Startup`: a document and twenty-one kinds of change |
| `StartupProofs` | its invariant and theorems |
| `NumberLemmas` | least and greatest elements of sets of numbers |

### FeedbackLoop

`row`, `label` and `msg` are the columns `state`, `approved` and `message_id`
of `feedback_reviews`; `archived` is the set of items stored so far. `sent[i]`
counts the cards of item i that reached its chat and `marks[i]` the verdicts
stamped on them: they are what operators see, and no process reads them.
`pc[p]` is the statement process p runs next and `ctx[p]` its local variables:
the spec it loaded, the chat, the row and the message id it read.

`claim_next` is two steps. `SelectNext` takes the snapshot and the row lock of
the inner `SELECT ... FOR UPDATE SKIP LOCKED` and evaluates `NOT EXISTS`;
`CommitClaim` writes, and raises when another claim for the chat committed in
between, which is what the partial unique index does. `top_up` is two steps for
the same reason: `TopUp` takes the snapshot and the draw, `InsertRow` writes the
row, or nothing when another process has inserted it in between (`ON CONFLICT DO
NOTHING`); then comes the second `claim_next` of `advance`, `SelectNext` with
`ctx[p].topped` set. `SendCard` has the outcomes of a Bot API call: delivered
and acknowledged, delivered with the response lost, refused. A press may come
from any card that ever reached the chat, at any time.

`Unsendable` are the items whose card Telegram refuses however often it is sent;
`SendCard` has no other outcome for them. Such a card goes back to the head of
its line, so `ArchiveIsReviewed` excepts what stands in one line with it
(`Blocked`). The exception cannot be narrowed to the items behind it: a claim
and a `/next` that collide again and again skip an earlier row too, since the
claim uses `SKIP LOCKED`.

The action `Press` contains `decide` only. The answer to the callback query
that follows changes no state; the stamp and the next `advance` are further
steps.

### Posting

`decision`, `status` and `attempt` are the columns of `routing_decisions` and
`deliveries`; "gated" stands for `rate_limited` with the `gated:` reason, the
prefix that `get_postable_backlog` tests. `open` says whether the interval
since `last_post_utc` has passed, `aged` which items are past `max_age_min`.
`posts[i]` counts the copies of item i in the public chat and `astray[i]` those
whose success nobody lived to record: both are ghosts that no process reads.

A process works from `ctx[p].fresh`, the backlog it read when the phase began.
`StartJob` needs the lock and `StartLoop` does not, as in the code.
`SendPhoto` and `SendText` are the two calls of `TelegramClient.send`;
`SendRaises` is an answer that is not JSON, which ends the pass. `Record` is
the transaction of `record_delivery` and `mark_posted_after_gate`.

One channel is enough: every row, slot and counter is keyed by channel, and
`post_phase` handles the channels one after another.

`ChannelLog` knows neither passes nor locks: an item is new, waits (while
copies of it may appear) or has ended, as delivered, rehearsed by a dry run,
spent or retired, and an end is for good. `Fate` reads this off the two rows
of an item. It joins two halves of a pass: the fetches of `FetchCycle` are
arrivals of this log and nothing else, and `Ingest` is what `Posting` makes of
them.

### FetchCycle

`stored`, `seen` and `dupOf` are the rows of `items` with `first_seen_utc` and
`duplicate_of`, `decision` their rows of `routing_decisions`, `row` the rows of
`source_state`, `tried` the `started_utc` of the newest row of `fetches` and
`raised` the sources that have an unresolved event of `FETCH_ERROR_CLASSES`.
`excused` (items that a first or a flagged fetch passed over) and `orphaned`
(sources whose last report or resolution was lost) are ghosts.

One pass runs at a time, because executions take the lock; what interleaves
with it is the clock, the publishers and its own death. `pc` is where the pass
is: between sources, waiting for a feed, about to report, about to resolve.
After the answer of a feed `process_source` does not await until its
transaction is committed (parsing, dedupe and decisions are synchronous), so an
answer and its transaction are one action: `NotModified`, `Store`, `ParseFails`
and `FetchFails`. The report of a failure and the resolution after a recovery
are steps of their own, and a crash may fall before either.

An item is its rank in publication order. Titles and links are reduced to what
dedupe and the router see of them: `Same` and `Near` are the pairs with one
`content_hash` and with close simhashes, `Filtered` what age, categories or
predicates refuse, `Poison` the items whose link makes `canonical_url` raise.
`find_duplicate` is `Attributed`: within a slice each stored item is a candidate
for those after it. A source whose report or resolution was lost stays orphaned:
the next success finds no streak and resolves nothing, so its event stays open.

### AlertEngine

`row` is `error_events`, `outbox` the undelivered rows of `alert_outbox`,
`budget` the `bot_state` row of the hourly window. `shown[e]` is the ops chat:
what each alert message of event e says, and `row[e].msg` the one the event
owns. `booked`, `raced`, `told`, `extra` and `blurred` are ghosts: what was spent
in each window, writes of the budget that undid another process's, entries the
chat was told of, the messages of an event beyond its first that something
accounts for, and the events whose last resolution met another process or a
fault. Each is written at the very step that it is about, so that it excuses
that one message or resolution and nothing else of the event's life.

A report is `Record` (the upsert of `record_occurrence`), `Escalate`
(`set_severity`), then what the policy decided from the row it got back:
`ReadBudget` and `Spend` or `Notice`, which are the two statements of the
read-modify-write in `_budget_permits`, then `Send` and `Own`, or `Edit` and
`Count`. The policy itself is `Route`. `_send_ops` flushes the outbox before it
returns, so a send that worked goes through `Header`, `Body` and `Mark` and then
on to `ctx[p].then`. `_edit_owned` has four outcomes: it works, the network
fails and the text is queued, Telegram refuses and nothing is queued, or the
message is too old and `Resend` and `Adopt` replace it.

The job reports and resolves events between `StartPass`, which flushes, and
`EndPass`, which is retention; a request of the webhook reports an unauthorized
call or runs a command. Pins, silent hours, the digest and the migration of
the ops chat change nothing that these rows see and are left out, and so are
an engine that is not active and the classes of `NEVER_ALERT`: there `report`
ends with the occurrence and the severity, before the policy.

### Webhook

`tg` and `mail` are what Telegram knows of an update: whether it waits for a
200, what it is, how long it has been delivered. `seen` is the row of
`seen_updates` by its age, `rt[r]` the `_Runtime` of a replica (session, own
name, administrator cache), `audited` the updates with a row in
`operator_actions`. `fate`, `ruling` and `hit` are ghosts: what has become of an
update, on what it was decided, and which updates a lost session or a crash
found in somebody's hands.

A request is a task of the event loop of a replica. `pc[q]` is at a label that
awaits Telegram (`me`, `lookup`, `refuse`, `answer`) or at one of a synchronous
statement (`mark`, `gate`, `act`, `audit`); while a task is at one of the latter
its loop runs nothing else (`LoopIsFree`), but other replicas, the job's purge
and the loss of the session may come between two statements. `Deliver` contains
the acquire: a dead session is closed under the requests that hold it
(`ctx[q].open`) and replaced. `Mark` is `mark_update_seen` with the outcome that
the insert is committed and its answer lost, which is answered 503 although the
update is seen. `Gate` is `_is_writer` up to its await and `Lookup` what follows
`getChatAdministrators`; a failed lookup keeps the old list for another
`admin_cache_min` (`stale`), also when it failed because the client was closed
under it. `Purge` may spare a row for up to a tick after its `Window`, where the
code deletes it at 24 hours sharp; it never deletes one earlier. What an ack does to the rows is AlertEngine and
what a press does is FeedbackLoop: here they are one statement, `Act`.

`AtMostOnce` has one variable, `fate`: new, taken, then settled or lost for good.

### SpecDoc and Startup

A layer of a document is a partial function: its domain is
`model_fields_set`, and `Effective` is the chain "explicit, spec defaults,
documented default". Of each scope the keys stand for all that resolve alike, and
`Junk` is any value of a wrong type. `Verdict` is what `load_spec_bytes` makes of
the bytes, check by check in its order: it returns ("ok"), raises a `SpecError`, or
lets something else through: `UnicodeDecodeError` for bytes that are not UTF-8,
`TypeError` for null in the place of the sources or of a source's channels
(`RawVerdict`), `re.error` for a `lead_remove` that is no regex (`ModelVerdict`),
`ValidationError` from `resolve_source` (`ArchiveVerdict`, `ReviewVerdict`).

In `Startup` the operator publishes documents and sets or drops `SPEC_JSON`,
`SPEC_URL` and `SPEC_PATH`. The job loads at every start (`JobLoads`,
`JobRefuses` with the emergency alert, `JobDies` without one, since `cmd_run`
catches `SpecError` only), records the version, resolves every pair, fetches and
posts. Each of these may break on what nobody validated: a value of `defaults`
(`job.pc = "unresolved"`) or an `items` or `id_pattern` expression of a mapping,
which `Fetch` evaluates (`job.pc = "crashed"`). `serve` starts without a look at the document and loads it at the
first request and after every lost session (`Build`); `Register` writes the
menus. `rows` and `out` are what the last step wrote and sent, with the document
that it worked for.

## Runs

| Run | Instance | Question | Result |
|---|---|---|---|
| `feedback_safety` | job and one handler, two items of two feeds in one chat, three spec versions, one fault | is the queue correct, do stamps tell the truth, is a blocked chat answerable, what explains a second card | holds, 1.8 M states |
| `feedback_liveness` | the same with one spec and a third item whose card is refused for good, fair scheduling | is every queued and every archived item labelled in the end | holds, 0.2 M states |
| `feedback_overlap` | the same without faults | one unanswered card at a time | violated |
| `posting_safety` | two jobs, one of them with `DRY_RUN`, `drop_oldest` | posts accounted for, final word, bounded retries, finality; does it implement `ChannelLog` | holds, 0.3 M states |
| `posting_liveness` | a job and a `run_forever`, `drain_all`, fair scheduling | is every routed item settled | holds, 0.5 M states |
| `posting_overlap` | a job and a `run_forever` | final word without the lock | violated |
| `fetch` | two sources that share a story, fetch limits 2 and 1, five items, one of which makes the pass raise; fair scheduling | dedupe, backoff and cadence, cold start, gaps, validators, alarms; is every due time acted upon | holds, 0.8 M states |
| `fetch_poison` | the same | does every exit path persist a fetch row | violated |
| `alerts` | the job and a request, two events, two reports beside the job's, an hourly budget of one, a failing call, a crash, fair scheduling | what accounts for a second message, the budget, the last text of a resolved event, severities; does the outbox lose nothing and empty itself | holds, 0.4 M states |
| `alerts_ackall` | the job and a request | does `/ack all` ack every unacked event | violated |
| `webhook` | one replica, two requests, two updates, one fault, fair scheduling | at most once, nothing swallowed, fresh rulings, audit, the 200 in the end | holds, 0.8 M states |
| `startup` | two channels, two sources, two changes out of twenty-one kinds, one fault | who may see cards and alerts, versions before rows, which values may fail to resolve | holds, 0.3 M states |

The bounds. Two items of one chat are what it takes for two claims to collide,
for a released row to compete with a queued one, and for a draw from the
archive to meet a queue; a second feed lets a spec version drop one of them.
One handler and the job are two processes that interleave at every statement.
One fault (`MaxFaults`, `MaxCrashes`) may fall at any step, so every single
crash, refusal and lost response is covered, and combinations of two are not.
In Posting two items and a cap of one make `drop_oldest` drop and `drain_all`
defer; `MaxAttempts` is 2 instead of 3 so that the limit is reached, and 1 in
`posting_liveness`, where retries are bounded but not the subject. In FetchCycle
three items of a source fill a fetch limit of two and overrun it, so that gaps
occur; the second source has the longer interval, so that one is due while the
other is not; `MaxClock` 2 lets a backoff reach its cap of 2 and an original
leave the dedupe window of 1. In AlertEngine two events are what it takes for a
job and a request to compete for a budget of one; two reports bring a second
occurrence or a reopening, and the one fault may fall at any call. In Webhook
two requests race for one update and two updates interleave in one event loop;
`Window` and `CacheTime` of one tick let rows, deliveries and lists expire. The
senders are an administrator who may cease to be one and a member of the
allowlist. A second replica is too many states for TLC: it is in the theorems. In
Startup two changes are what it takes for two layers to disagree (a chat in
`defaults` and a channel that becomes that chat); each kind of change aims at one
check of the loader. The theorems below have none of these bounds.

What the bounds and the premises leave out, property by property:

- `ArchiveIsReviewed` excepts whatever stands in one line with a card that is
  refused for good (`Blocked`), so for such a chat it does not say that "every
  queued item eventually reaches a human" (`docs/configuration.md:283`).
- `RoutedIsSettled` runs with one spec version and `MaxAttempts` 1: it sees no
  binding that goes away and no long chain of retries. `RetriesBounded`,
  `RetiredIsFinal` and their theorems do.
- In `alerts` `EscalateAfter` is 1, so that two reports exceed it and a streak that
  is long without being raised is one report and one crash away; longer ones are in
  the theorem. With `MaxFaults` 1 the one fault is what queues an
  entry, so TLC sees neither a flush that Telegram refuses nor a batch of several
  entries. `MarkedWasTold` proves the safety half for any number of both;
  `QueuedIsDelivered` stays with one.
- `ResolvedIsShown` excepts an event that another process had in hand at the
  statement that resolved it, or whose resolution met a fault: there the last edit
  to arrive stays (`newsbot/alerts.py:354`).
- `RulingsAreFresh` excepts a list that a failed lookup renewed (`stale`), and
  `AuditComplete` and `NothingSwallowed` an update that a crash, a lost session or
  an error between effect and audit row hit (`hit`).

Type invariants of Posting, FetchCycle, AlertEngine and the first-acker
invariant of AlertEngine (`AckerStands`) are proved and no longer run.

### What the violations show

- `feedback_overlap`: `orphaned_claim` cannot tell a dead claim from one whose
  owner is still waiting for Telegram. The job's pass and a press that overlap
  put two unanswered cards of the same item into the chat with no fault at all.
  `SecondCardsExplained` shows that this, crashes and lost responses are the
  only ways to a second card.
- `posting_overlap`: `run_forever` takes no lock. Beside a job, a row that the
  job has delivered is overwritten with gated or dropped from a backlog read
  earlier.
- `fetch_poison`: an exception that is neither a `FetchError` nor a `ParseError`
  rolls the transaction back and ends the pass. No fetch row is written and the
  source stays due, so every later pass ends at the same item, and the sources
  after it and the posting are not reached; `DueIsServed` makes an exception of
  exactly these sources.
- `alerts_ackall`: an event that was acked, resolved and has occurred again is
  `unacked` and keeps its first acker. `ack_event` and `ack_all` ask for an event
  without an acker and `/unchecked` for one that was never acked, so nobody can
  ack it again and it is listed nowhere.

## Fairness

`FeedbackLoop!FairSpec`: the cron starts passes, a started process runs on, and
operators answer the cards they see. A press is a request of its own that waits
for no other request; the model has a bounded number of handlers, so it is
strongly fair. Nothing is assumed about faults or about the archive growing.

`Posting!FairSpec`: the cron starts jobs (some job, not each one), a started
pass runs on, and the clock opens the posting window. No fairness on publishing,
ageing, crashes or any particular outcome of a Telegram call: an item whose
sends fail is settled by its attempts.

`FetchCycle!FairSpec`: the cron starts passes and a started pass runs on, since
every await of it has a timeout. Nothing is assumed about what feeds answer,
about publishers, crashes or the clock.

`AlertEngine!FairSpec`: passes are started and run on, and so does a request
once it has begun. Requests, failing calls (bounded) and the clock are not fair.

`Webhook!FairSpec`: the event loop runs its tasks on, since every await has a
timeout, and Telegram delivers an update again until it has a 200 or its 24
hours are over. Users, the clock, the purge and faults are not fair. `Startup`
has no liveness property and no fairness.

## Proofs

`FeedbackLoopProofs`, for every set of feeds, chats, spec versions and
handlers and every number of items and faults:

- `TypeCorrect`, `OnePending`, `TrueLog`, `NeverBlockedForGood`: the
  invariants of `feedback_safety` but one.
- `SecondCards` (`SecondCardsExplained`): the last one.
- `OneCardAlone`: `OneUnansweredCard`, the claim that `feedback_overlap`
  refutes, for as long as no claim is taken over from the living.
- `Refinement`: `FeedbackLoop` implements `ReviewQueue`.

None of these is inductive. The invariant `Inv` adds what the code relies on
without saying so: a claimed row stays queued until its claim commits and is
held by one process (`ClaimsAreLocked`), a message id is stored only after its
card reached the chat (`CardsWereSent`), and a verdict on its way to a card is
the stored one (`StampsWereDecided`). The proof has a step per action.

`SecondCards` is a count over three histories: unanswered cards, faults and
claims that were taken over. Its invariant `CardsCounted` adds the cards that may
still come. `Debtors` are the processes that hold a row of the chat they may yet
send, and a chat is `Closed` while a pending row has its card known or a process
working on it. Unanswered cards and debtors together are never more than faults
and takeovers, plus one if the chat is closed. A claim closes the chat and makes
its owner a debtor; sending turns the debtor into a card; laying the row down
undoes the claim. Whoever takes a row over closes the chat again if its owner is
dead, and is a takeover from the living otherwise.

`PostingProofs`, for every set of items, feeds, spec versions and jobs, both
policies, every cap and every number of crashes:

- `TypeCorrect`, with or without the lock.
- With jobs only (`Loops = {}`): `NoUnaccountedPost`, `FinalWord`,
  `BoundedRetries`, `OneDelivery`, `RetiredForGood`.
- With jobs only, `Refinement`: `Posting` implements `ChannelLog`.
- With jobs only, `CopiesAreBounded`: an item is in the channel at most
  `2 * (MaxAttempts + crashes)` times, a photo and a text for each attempt that
  was recorded and each pass that ended early. The bound is reached.
- `CapPerWindow`, with or without the lock: whoever claimed the slot has at most
  `max_posts_per_run` items to post (`docs/configuration.md:134`).

The assumption `Loops = {}` is needed: `posting_overlap` is the counterexample.
The heart of `Inv` is that nothing in the hands of a job is stale: what it read
at the start of the phase and has yet to handle is still postable, because the
lock let nobody else in and what the job handled itself left its batch first.
The refinement needs no more than that: a step changes the rows of one item at
most (`OneFate`), and each action moves its fate as `ChannelLog` allows or not
at all (`FateStep`). A row goes from routed to gated and back while it waits,
which the fate does not see. `CopiesCounted` counts a call when it is made and
credits it to the attempt that `Record` will write.

`FetchCycleProofs`, for any number of sources, items, limits, intervals, caps
and crashes:

- `TypeCorrect`, `BackoffBounded` (`NextAttemptInBounds`), `NoHotLoop`
  (`PolledAtCadence`), `OneOriginal` (`OriginalsAreApart`), `FlatChains`,
  `NothingSkipped` (`ValidatorsStandForStored`), `NoFlood` (`ColdStartHeld`),
  `AlarmIsRight` (`AlarmTellsTheStreak`) and `NoSilentGap` (`GapIsFlagged`):
  every safety property of `fetch`.
- `ArrivalsOnly`: `FetchCycle` implements `ChannelLog`. Its proof needs that no
  decision comes before its item (`DecidedIsStored`).
- `ExitsPersist`: `EveryExitPersists`, the claim that `fetch_poison` refutes, when
  there are no poisonous items.

Its invariant adds that nothing is recorded ahead of the clock
(`NothingAhead`), that the next attempt lies between the interval and the cap
after the last (`Paced`), that a source is cold until its first success
(`ColdUntilFetched`), and the inductive forms of the two that depend on what the
pass holds in local variables (`AlarmHeld`, `GapHeld`). `NumberLemmas` has the
facts about powers, least and greatest elements that the backoff needs, and
about ranks, which the cap of a window needs.

`AlertEngineProofs`, for any events, handlers, ladder, budget and hours, and any
number of errors, mutes, faults and crashes:

- `TypeCorrect`: with the types, that no row owns a message that was not sent.
- `FirstAckerStands` (`AckerStands`): no interleaving of reports, acks, edits
  and resolutions takes an event from its first acker.
- `MarkedWasTold` (`NothingMarkedUntold`): nothing is marked delivered untold, although
  entries are queued while a flush runs, flushes overlap and processes die.
- `LongStreaksRaised` (`LongStreaksAreRaised`): a streak of `escalate_after` plus
  one for each crash is raised, or a process is at the statement that raises it,
  however many processes report, ack and resolve the event.
- `BudgetCorrect` (`BudgetHolds`): the hourly budget, with one budget and one
  notice more for every write that undid another's.

Its type invariant ties local variables to the chat (`Local`: a message in hand
was sent, a batch was queued); retention, the one action that takes messages
away, keeps it because it only deletes what nobody has in hand. `ToldInv` adds
what a flush in the middle has told so far. `BudgetInv` bounds a window by what
the row accounts for: its own count, a full budget for windows gone by, nothing
for later ones. A write that undid another restores an older row, and the
budget it gives away by that is what `raced` pays for.

`StreakSeen` is the induction behind `LongStreaksRaised`: a long streak that is not
raised has at most one occurrence beyond `escalate_after - 1` for each process that
is about to raise it (`Waiting`) and each crash, since every report that finds such
a streak goes on to raise it, and only a crash keeps it from doing so.

`AlertMessageProofs`, with the same generality:

- `OneMessageEachHolds` (`OneMessageEach`): the messages of an event are one and
  those in `extra`: one for each report that found the event without a message
  while another process had it in hand (the race of two reports, counted when the
  second begins), each answer lost, each process killed between sending and
  recording, each message too old to be edited.
- `ResolvedIsShownHolds` (`ResolvedIsShown`): a resolved event's message says so
  once the job is done with it, whatever it met in its life before; excepted is a
  resolution that found the event in another process's hand or that a fault or a
  crash cut short.

`HandInv` has four parts. `AllTidy` says what a process between two statements
may hold: it sends only what has no message and edits only what has one, and it
puts events off only while it resolves. `AllOwn` ties what a process knows of a
message to row and chat. `AllCounted` is the count behind the first theorem: the
messages shown, and those of the processes that may still send one (`Senders`),
are covered by one and `extra`, so that a second sender needs an `extra` when it
takes the event up. `AllSaid` is the second: the row of a resolved event, the
text the job carries and the message shown agree, or the job is on its way to
make them.

`WebhookProofs`, for any updates, users, replicas, requests, cache times, windows
and number of faults:

- `TypeCorrect`, and `Refinement`: `Webhook` implements `AtMostOnce`.
- `Swallowed` (`NothingSwallowed`), `Audited` (`AuditComplete`) and `Rulings`
  (`RulingsAreFresh`): with the first two, every safety property of `webhook`.

`GateInv` is why the gate holds although rows are purged: the row of a taken
update is no older than its first delivery, a delivery is younger than the
window, and a request on its way to the gate lives through one tick at most, so
such a row is too young for the purge; and the request that inserted the row is
the only one that holds the update. `HandInv` says that whoever works with a
dead runtime works on a hit update, and that what is taken, or owed an audit row,
is in somebody's hands. `ListInv` bounds a cached list by the age of the changes
it misses.

`StartupProofs`, for any chats, names, documents, changes of them and faults:

- `TypeCorrect`, `AudienceSafe` (`AudienceIsSafe`), `VersionsKnown`
  (`VersionsFirst`) and `UnresolvedOverDefaults` (`UnresolvedByDefaults`): every
  property of `startup`. The last is about values of the layers only; what else
  escapes the loader is listed under "What else came to light".

The argument has two halves: what an accepted document guarantees, layer by
layer (`ReviewChatsArePrivate`, `OpsChatIsApart`, `PairsAreTyped`,
`ValidationIsOfDefaults`), and an invariant that says that every process that works
has an accepted and recorded document.

Only model-checked: the liveness properties (`ArchiveIsReviewed`,
`RoutedIsSettled`, `DueIsServed`, `QueuedIsDelivered`, `EventuallyAnswered`),
which are out of the prover's reach because fairness speaks of ENABLED. Every
safety property of a passing run is a theorem.

## What else came to light

None of these contradicts a property above; they are where the code and its docs
or comments part, or where a model had to make an exception.

- The docstring at `feedspec/loader.py:165` promises a `SpecError` on any problem,
  and `cmd_run` (`cli.py:270`) catches nothing else, so that whatever escapes as
  another exception ends the job without the emergency alert. Such are null for
  `sources` or for a source's `channels` (`TypeError`, `feedspec/loader.py:53`,
  `:57`), bytes that are not UTF-8 (`UnicodeDecodeError`, `feedspec/loader.py:170`),
  a `lead_remove` that is no regex (`re.error`, `feedspec/model.py:63`), and values of
  `defaults`. `Verdict` and `JobDies` contain them all; a run that refutes the
  docstring would only repeat the definition of `Verdict`.
- The values of `defaults` are never validated (`feedspec/resolve.py`). One that a
  review guard resolves leaves the loader as a `ValidationError`; a wrong
  `cold_start_policy` is accepted and ends a pass at the first fetch of a source
  that inherits it; others end it at `_pair_index` or in `post_phase`.
  `UnresolvedByDefaults` says that what a source, a channel or a binding sets for
  itself never does.
- `items` and `id_pattern` of a mapping are not looked at before a feed is parsed
  with them; one that cannot be evaluated raises out of `parse_feed`
  (`fetcher/parse.py:102`, `:111`) as something else than a `ParseError`, and every pass
  ends there.
- The emergency alert (`cli.py:334`) takes its chat from the document that was
  refused, also when it was refused because that chat is a news channel
  (`feedspec/loader.py:133`).
- A stored `bot_state.ops_chat_id` (`newsbot/alerts.py:237`) outlives the document
  that named the group: a later change of `ops_chat_id` is ignored, and the
  guard of the loader looks at the document only. `AudienceIsSafe` excepts it.
- `serve` answers `/healthz` with a document that cannot be loaded, because it
  loads it at the first request.
- A failed admin lookup renews the age of the list it could not replace, so a
  former administrator may write for as long as lookups fail; `RulingsAreFresh`
  excepts lists marked `stale`.
- When the session dies under `mark_update_seen`, the insert may be committed:
  the update is answered 503, delivered again and then dropped as seen.
- A denied reply shorthand leaves no audit row, unlike a denied command
  (`docs/troubleshooting.md:75`).
- `TelegramClient.send` promises that it "never raises" (`newsbot/telegram.py:53`),
  but an answer that is not JSON raises out of `_call` (`newsbot/telegram.py:124`)
  and ends the pass: `SendRaises`. `ImplementsChannelLog` holds all the same.
- Past the quota the translation provider hands the text back unchanged and the
  service caches it (`newsbot/translate.py:126`); not modelled.

## Not modelled yet, and the plan

In this order:

1. `Translation`: the cache and the quota guard, with concurrent writers of the
   same row.
2. `Router` and `Dedupe`: `decide_item`, the predicates and the hashes as
   operators, checked against reference definitions over bounded inputs.
3. An outbox body that Telegram refuses for good: it keeps its batch
   undelivered, which the bound on faults hides.
4. An abstract specification of the fetch cycle for one source, with its
   refinement.
5. Pins, silent hours and the digest of the alert engine.

Left out for good: HTML rendering, XML mapping, the JSON schema and its export,
the check that `SPEC_URL` is https, the output of commands, read-only statistics
and Terraform. They keep no state that two steps could disagree about.
