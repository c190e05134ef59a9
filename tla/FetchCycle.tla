----------------------------- MODULE FetchCycle -----------------------------
(***************************************************************************)
(* The fetch half of a pass: run_once over the sources, process_source and *)
(* its transactions, dedupe, cold start, gap detection, and the resolution *)
(* of the source's error events afterwards (newsbot/runner.py,             *)
(* fetcher/http.py, archive/writer.py, archive/dedupe.py).                 *)
(*                                                                         *)
(* Executions take the advisory lock (module Posting), so one pass runs at *)
(* a time; between its awaits the clock moves, publishers publish and the  *)
(* process may die.  The parsing of an answer and the transaction that     *)
(* follows have no await between them: an answer and its transaction are   *)
(* one step.                                                               *)
(*                                                                         *)
(* An item's number is its rank in publication order.  Feeds list their    *)
(* newest item first, as the feeds of spec.example.json do.                *)
(***************************************************************************)
EXTENDS Naturals, FiniteSets, FiniteSetsExt

CONSTANTS
  NumSources,  \* sources are 1..NumSources, in the order of the spec
  Items,       \* items the publishers will publish
  SourceOf,    \* SourceOf[i]: the source of item i
  DocSize,     \* DocSize[s]: how many items the publisher keeps in the feed
  Limit,       \* fetch_limit
  Interval,    \* fetch_interval_min
  ColdStart,   \* the n of post_newest:n, 0 for skip_all
  Enabled,     \* sources that the spec enables
  Bound,       \* sources with a channel; the others are archive-only
  Same,        \* pairs of items with one content_hash
  Near,        \* pairs of items with simhashes at most 3 bits apart
  Filtered,    \* items that age, categories or predicates refuse
  Broken,      \* items without id, title or url
  Poison,      \* items whose url canonical_url cannot split: it raises ValueError
  Cap,         \* BACKOFF_CAP_MIN
  Window,      \* DEDUPE_WINDOW
  MaxClock,    \* bound on the time that passes
  MaxCrashes,  \* bound on the passes that are killed
  None         \* no original, no fetch yet

Sources == 1..NumSources

ASSUME ItemsAssumption ==
  /\ NumSources \in Nat /\ Items \subseteq Nat /\ IsFiniteSet(Items)
  /\ SourceOf \in [Items -> Sources]
  /\ {Filtered, Broken, Poison} \subseteq SUBSET Items
ASSUME PairsAssumption == Same \subseteq Near /\ Near \subseteq SUBSET Items
ASSUME SpecAssumption ==
  /\ DocSize \in [Sources -> Nat] /\ ColdStart \in [Sources -> Nat]
  /\ Limit \in [Sources -> Nat \ {0}] /\ Interval \in [Sources -> Nat \ {0}]
  /\ {Enabled, Bound} \subseteq SUBSET Sources
ASSUME BoundsAssumption ==
  /\ Cap \in Nat /\ Window \in Nat /\ MaxClock \in Nat /\ MaxCrashes \in Nat
ASSUME NoneAssumption == None \notin Nat

VARIABLES
  clock,      \* the time
  published,  \* items published so far
  stored,     \* rows of items
  seen,       \* seen[i]: first_seen_utc of a stored item
  dupOf,      \* dupOf[i]: duplicate_of
  decision,   \* decision[i]: "none", then the routing_decisions row
  row,        \* row[s]: the source_state row
  tried,      \* tried[s]: started_utc of the newest fetches row
  excused,    \* excused[s]: items passed over by a first or a flagged fetch
  raised,     \* sources with an unresolved event of FETCH_ERROR_CLASSES
  orphaned,   \* sources whose last report or resolution was lost
  pc,         \* where the pass is
  ctx,        \* what it holds in local variables
  crashes     \* passes killed so far

archive == <<stored, seen, dupOf, decision>>
rows == <<row, tried>>
events == <<raised, orphaned>>
vars == <<clock, published, archive, rows, excused, events, pc, ctx, crashes>>

ItemsOf(s) == {i \in Items : SourceOf[i] = s}

Decisions == {"none", "duplicate", "cold_start_skip", "filtered", "routed"}

\* last: whether last_fetch_utc is set.  etag: the documents the validators match,
\* one or, without validators, none.  A source without a row reads as Fresh, due at once.
SourceState == [next : Nat, last : BOOLEAN, etag : SUBSET SUBSET Items,
                cold_start_done : BOOLEAN, failures : Nat]
Fresh == [next |-> 0, last |-> FALSE, etag |-> {},
          cold_start_done |-> FALSE, failures |-> 0]

\* now: the time of run_once; started: that of process_source; streak: the
\* consecutive_failures it loaded.
Context == [now : Nat, turn : Nat, started : Nat, streak : Nat]
Nothing == [now |-> 0, turn |-> 0, started |-> 0, streak |-> 0]
PCs == {"idle", "next", "fetch", "report", "resolve"}

TypeOK ==
  /\ clock \in 0..MaxClock
  /\ published \subseteq Items
  /\ stored \subseteq published \ (Broken \cup Poison)
  /\ seen \in [Items -> Nat]
  /\ dupOf \in [Items -> Items \cup {None}]
  /\ decision \in [Items -> Decisions]
  /\ row \in [Sources -> SourceState]
  /\ tried \in [Sources -> Nat \cup {None}]
  /\ excused \in [Sources -> SUBSET Items]
  /\ raised \subseteq Sources /\ orphaned \subseteq Sources
  /\ pc \in PCs
  /\ ctx \in Context
  /\ pc \in {"fetch", "report", "resolve"} => ctx.turn \in Sources
  /\ crashes \in 0..MaxCrashes

Init ==
  /\ clock = 0 /\ published = {} /\ stored = {}
  /\ seen = [i \in Items |-> 0]
  /\ dupOf = [i \in Items |-> None]
  /\ decision = [i \in Items |-> "none"]
  /\ row = [s \in Sources |-> Fresh]
  /\ tried = [s \in Sources |-> None]
  /\ excused = [s \in Sources |-> {}]
  /\ raised = {} /\ orphaned = {}
  /\ pc = "idle" /\ ctx = Nothing /\ crashes = 0

-----------------------------------------------------------------------------
(* What a feed serves and what becomes of it.                              *)

Newest(S, n) == {i \in S : Cardinality({j \in S : j > i}) < n}

\* The document a feed serves now, and what parse_feed makes of it: the first
\* fetch_limit elements without those that miss a required field.
Doc(s) == Newest(ItemsOf(s) \cap published, DocSize[s])
Slice(s) == Newest(Doc(s), Limit[s]) \ Broken

\* Variants of Originals: the window ends a moment early; duplicates are
\* candidates too.
OriginalsShort(since) == {j \in stored : dupOf[j] = None /\ seen[j] > since}
OriginalsChained(since) == {j \in stored : seen[j] + Window >= since}

\* The candidates of find_duplicate: originals first seen at since - 72 h or
\* later (added on the other side, the naturals being what they are).
Originals(since) == {j \in stored : dupOf[j] = None /\ seen[j] + Window >= since}

\* find_duplicate among candidates C: an exact match before a near one, and
\* the one first seen before the others.
Matches(i, C) ==
  LET exact == {j \in C : {i, j} \in Same}
  IN  IF exact # {} THEN exact ELSE {j \in C : {i, j} \in Near}
FirstSeen(C, at) == {j \in C : \A k \in C : at[j] <= at[k]}

\* The items of slice New are stored newest first, each a candidate for those
\* after it.  Attributed(New, at, d): d is what find_duplicate finds for each.
Candidates(i, New, d) ==
  Originals(ctx.started) \cup {j \in New : j > i /\ d[j] = None}
Attributed(New, at, d) ==
  \A i \in New :
    LET found == FirstSeen(Matches(i, Candidates(i, New, d)), at)
    IN  IF found = {} THEN d[i] = None ELSE d[i] \in found

\* Every way to attribute the items of New, the other items unchanged.
Attributions(New) ==
  {[i \in Items |-> IF i \in New THEN f[i] ELSE dupOf[i]] :
     f \in [New -> stored \cup New \cup {None}]}

\* _cold_start_eligible and decide_item, for a channel that is enabled.
Eligible(s, S) == IF row[s].cold_start_done THEN S ELSE Newest(S, ColdStart[s])
Decided(s, i, original) ==
  IF s \notin Bound THEN "none"
  ELSE IF original # None THEN "duplicate"
  ELSE IF i \notin Eligible(s, Slice(s)) THEN "cold_start_skip"
  ELSE IF i \in Filtered THEN "filtered"
  ELSE "routed"

\* Variant: a window that is just full does not count.
PossibleGapOver(s) ==
  /\ row[s].last
  /\ Cardinality(Slice(s)) > Limit[s]
  /\ Slice(s) \cap stored = {}

PossibleGap(s) ==
  /\ row[s].last
  /\ Cardinality(Slice(s)) >= Limit[s]
  /\ Slice(s) \cap stored = {}

\* Variant: no cap.
BackoffUncapped(s, n) == Interval[s] * 2 ^ (n - 1)

\* _failure_backoff after the n-th failure in a row.
Backoff(s, n) == Min({Interval[s] * 2 ^ (n - 1), Max({Cap, Interval[s]})})

\* Variants of Failed: the streak is counted down; the first failure ends the
\* cold start.
FailedDown(s) ==
  [row[s] EXCEPT !.failures = @ - 1,
                 !.next = ctx.started + Backoff(s, row[s].failures + 1)]
FailedWarm(s) ==
  [row[s] EXCEPT !.failures = @ + 1, !.cold_start_done = TRUE,
                 !.next = ctx.started + Backoff(s, row[s].failures + 1)]

\* The source_state row after a failure.
Failed(s) ==
  [row[s] EXCEPT !.failures = @ + 1,
                 !.next = ctx.started + Backoff(s, row[s].failures + 1)]

-----------------------------------------------------------------------------
(* run_once.                                                               *)

StartPass ==
  /\ pc = "idle"
  /\ pc' = "next"
  /\ ctx' = [Nothing EXCEPT !.now = clock, !.turn = 1]
  /\ UNCHANGED <<clock, published, archive, rows, excused, events, crashes>>

\* Variant: next_fetch_utc is not looked at.
DueAlways(s) == s \in Enabled

Due(s) == s \in Enabled /\ row[s].next <= ctx.now

\* Variant: a source that is not due ends the loop.
SkipRest ==
  /\ pc = "next" /\ ctx.turn \in Sources /\ ~Due(ctx.turn)
  /\ ctx' = [ctx EXCEPT !.turn = NumSources + 1]
  /\ UNCHANGED <<clock, published, archive, rows, excused, events, pc, crashes>>

SkipSource ==
  /\ pc = "next" /\ ctx.turn \in Sources /\ ~Due(ctx.turn)
  /\ ctx' = [ctx EXCEPT !.turn = @ + 1]
  /\ UNCHANGED <<clock, published, archive, rows, excused, events, pc, crashes>>

\* process_source loads the state and awaits the feed.
StartFetch ==
  /\ pc = "next" /\ ctx.turn \in Sources /\ Due(ctx.turn)
  /\ pc' = "fetch"
  /\ ctx' = [ctx EXCEPT !.started = clock, !.streak = row[ctx.turn].failures]
  /\ UNCHANGED <<clock, published, archive, rows, excused, events, crashes>>

\* Posting and review follow (modules Posting and FeedbackLoop).
EndPass ==
  /\ pc = "next" /\ ctx.turn \notin Sources
  /\ pc' = "idle" /\ ctx' = Nothing
  /\ UNCHANGED <<clock, published, archive, rows, excused, events, crashes>>

-----------------------------------------------------------------------------
(* process_source.                                                         *)

\* The transaction of an attempt: the fetches row and the source_state row.
Save(s, state) ==
  /\ row' = [row EXCEPT ![s] = state]
  /\ tried' = [tried EXCEPT ![s] = ctx.started]

NextSource == pc' = "next" /\ ctx' = [ctx EXCEPT !.turn = @ + 1]

\* After a success the pass resolves the events of a source that was failing.
Recovered ==
  IF ctx.streak > 0 THEN pc' = "resolve" /\ UNCHANGED ctx ELSE NextSource

\* FetchError: no usable answer after the retries of fetch_feed.
FetchFails ==
  /\ pc = "fetch"
  /\ Save(ctx.turn, Failed(ctx.turn))
  /\ pc' = "report"
  /\ UNCHANGED <<clock, published, archive, excused, events, ctx, crashes>>

\* Variant: the validators of the document that did not parse are kept.
ParseFailsEtag ==
  /\ pc = "fetch"
  /\ Save(ctx.turn, [Failed(ctx.turn) EXCEPT !.etag = {Doc(ctx.turn)}])
  /\ pc' = "report"
  /\ UNCHANGED <<clock, published, archive, excused, events, ctx, crashes>>

\* ParseError: the answer is no XML or not valid.  The fetches row has the new
\* validators, source_state keeps the old ones.
ParseFails ==
  /\ pc = "fetch"
  /\ Save(ctx.turn, Failed(ctx.turn))
  /\ pc' = "report"
  /\ UNCHANGED <<clock, published, archive, excused, events, ctx, crashes>>

\* Variant: the events of a source that answers 304 are not resolved.
NotModifiedQuiet ==
  /\ pc = "fetch"
  /\ Doc(ctx.turn) \in row[ctx.turn].etag
  /\ Save(ctx.turn, [row[ctx.turn] EXCEPT !.next = ctx.started + Interval[ctx.turn],
                                          !.last = TRUE, !.failures = 0])
  /\ NextSource
  /\ UNCHANGED <<clock, published, archive, excused, events, crashes>>

\* 304: the document is the one the validators stand for.
NotModified ==
  /\ pc = "fetch"
  /\ Doc(ctx.turn) \in row[ctx.turn].etag
  /\ Save(ctx.turn, [row[ctx.turn] EXCEPT !.next = ctx.started + Interval[ctx.turn],
                                          !.last = TRUE, !.failures = 0])
  /\ Recovered
  /\ UNCHANGED <<clock, published, archive, excused, events, crashes>>

\* The items of New go to the archive with their originals and decisions.
StoreItems(s, New) ==
  LET at == [i \in Items |-> IF i \in New THEN clock ELSE seen[i]] IN
    /\ stored' = stored \cup New
    /\ seen' = at
    /\ \E d \in Attributions(New) :
         /\ Attributed(New, at, d)
         /\ dupOf' = d
         /\ decision' = [i \in Items |-> IF i \in New THEN Decided(s, i, d[i])
                                         ELSE decision[i]]

\* 200: the whole slice in one transaction.  Publishers may send no validators,
\* and 200 also when nothing changed.
Store ==
  /\ pc = "fetch"
  /\ LET s == ctx.turn IN
       /\ Slice(s) \cap Poison = {}
       /\ StoreItems(s, Slice(s) \ stored)
       /\ \E e \in {{Doc(s)}, {}} :
            Save(s, [next |-> ctx.started + Interval[s], last |-> TRUE, etag |-> e,
                     cold_start_done |-> TRUE, failures |-> 0])
       /\ excused' =
            IF row[s].last /\ ~PossibleGap(s) THEN excused
            ELSE [excused EXCEPT ![s] = @ \cup
                    ((ItemsOf(s) \cap published) \ Newest(Doc(s), Limit[s]))]
  /\ Recovered
  /\ UNCHANGED <<clock, published, events, crashes>>

\* An exception that is no FetchError and no ParseError: the transaction is
\* rolled back and the pass ends.
FetchRaises ==
  /\ pc = "fetch"
  /\ Slice(ctx.turn) \cap Poison # {}
  /\ pc' = "idle" /\ ctx' = Nothing
  /\ UNCHANGED <<clock, published, archive, rows, excused, events, crashes>>

\* report_error: the event is recorded, or the database refuses and the report
\* is given up.
Report ==
  /\ pc = "report"
  /\ \/ raised' = raised \cup {ctx.turn} /\ orphaned' = orphaned \ {ctx.turn}
     \/ orphaned' = orphaned \cup {ctx.turn} /\ UNCHANGED raised
  /\ NextSource
  /\ UNCHANGED <<clock, published, archive, rows, excused, crashes>>

\* resolve_source_events: the update of the events; the edits of their alerts are
\* left out, as are the reports of gaps and of single items (archive/errors.py).
Resolve ==
  /\ pc = "resolve"
  /\ raised' = raised \ {ctx.turn} /\ orphaned' = orphaned \ {ctx.turn}
  /\ NextSource
  /\ UNCHANGED <<clock, published, archive, rows, excused, crashes>>

\* The job is killed, or loses its database session.
Crash ==
  /\ pc # "idle" /\ crashes < MaxCrashes
  /\ crashes' = crashes + 1
  /\ pc' = "idle" /\ ctx' = Nothing
  /\ orphaned' = IF pc \in {"report", "resolve"} THEN orphaned \cup {ctx.turn}
                 ELSE orphaned
  /\ UNCHANGED <<clock, published, archive, rows, excused, raised>>

-----------------------------------------------------------------------------
(* The world.                                                              *)

Tick ==
  /\ clock < MaxClock
  /\ clock' = clock + 1
  /\ UNCHANGED <<published, archive, rows, excused, events, pc, ctx, crashes>>

Publish(i) ==
  /\ i \notin published
  /\ \A j \in ItemsOf(SourceOf[i]) : j < i => j \in published
  /\ published' = published \cup {i}
  /\ UNCHANGED <<clock, archive, rows, excused, events, pc, ctx, crashes>>

Pass ==
  \/ SkipSource \/ StartFetch \/ EndPass
  \/ FetchFails \/ ParseFails \/ NotModified \/ Store \/ FetchRaises
  \/ Report \/ Resolve

Next ==
  \/ StartPass \/ Pass \/ Crash
  \/ Tick \/ \E i \in Items : Publish(i)

Spec == Init /\ [][Next]_vars

\* The cron starts passes and a started pass runs on: every await has a timeout.
\* Nothing is assumed about what a feed answers, about publishers or the clock.
Fairness == WF_vars(StartPass) /\ WF_vars(Pass)

FairSpec == Spec /\ Fairness

-----------------------------------------------------------------------------
(* Safety.                                                                 *)

\* A story is posted and reviewed once: two items that match each other are both
\* originals only when they were first seen more than the window apart,
\* whichever sources they came from and however passes were cut short.
OriginalsAreApart ==
  \A i, j \in stored :
    (i # j /\ {i, j} \in Near /\ dupOf[i] = None /\ dupOf[j] = None)
      => (seen[i] + Window < seen[j] \/ seen[j] + Window < seen[i])

\* "Only originals are candidates so chains stay flat": a duplicate names an
\* item that matches it, came no later, and is itself no duplicate.
ChainsAreFlat ==
  \A i \in stored : dupOf[i] # None =>
    /\ dupOf[i] \in stored \ {i} /\ dupOf[dupOf[i]] = None
    /\ {i, dupOf[i]} \in Near /\ seen[dupOf[i]] <= seen[i]

\* A 304 skips nothing: the validators kept stand for a document whose every
\* item within fetch_limit is in the archive, so failed parses and killed passes
\* never save the validators of a document that was not stored.
ValidatorsStandForStored ==
  \A s \in Sources : \A d \in row[s].etag :
    Newest(d, Limit[s]) \ Broken \subseteq stored

\* The backoff keeps the cadence at first and "a recovered feed is noticed
\* within the hour": the next attempt is due at most max(cap, interval) after
\* the one recorded last, and exactly an interval after a success.
NextAttemptInBounds ==
  \A s \in Sources : tried[s] # None =>
    /\ row[s].next <= tried[s] + Max({Cap, Interval[s]})
    /\ row[s].failures <= 1 => row[s].next = tried[s] + Interval[s]

\* "A dead feed never hot-loops": two recorded attempts of a source start at
\* least its interval apart, whatever the passes between them did.
PolledAtCadence ==
  [][\A s \in Sources : tried'[s] # tried[s] /\ tried[s] # None
       => tried'[s] >= tried[s] + Interval[s]]_vars

\* PossibleGap: an item that is missing between stored ones was passed over by
\* a fetch that flagged it, or by the first.  This needs a feed that holds
\* fetch_limit items and none that parse_feed skips.
Measured == {s \in Sources : DocSize[s] >= Limit[s] /\ ItemsOf(s) \cap Broken = {}}
GapIsFlagged ==
  \A s \in Measured : \A i \in (ItemsOf(s) \cap published) \ stored :
    (\E j \in ItemsOf(s) \cap stored : i < j) => i \in excused[s]

\* The first successful fetch of a source routes at most the n of its policy,
\* however many attempts failed or were killed before.
ColdStartHeld ==
  [][\A s \in Sources : ~row[s].last /\ row'[s].last
       => Cardinality({i \in ItemsOf(s) \ stored : i \in stored' /\ decision'[i] = "routed"})
            <= ColdStart[s]]_vars

\* A source has an unresolved fetch event exactly while it fails, but for the
\* source in the hands of the pass and those whose report or resolution was lost.
AlarmTellsTheStreak ==
  \A s \in Sources :
    \/ s \in raised <=> row[s].failures > 0
    \/ s \in orphaned
    \/ pc \in {"report", "resolve"} /\ ctx.turn = s

-----------------------------------------------------------------------------
(* Liveness, under FairSpec.                                               *)

\* A due time is acted upon: a feed that always fails, a killed pass or a slow
\* source holds up neither itself nor the others, until an item that makes the
\* pass raise appears in it or in a source before it.
Blocked(s) == \E i \in Poison \cap published : SourceOf[i] <= s
DueIsServed ==
  \A s \in Enabled : (row[s].next <= clock) ~> (row[s].next > clock \/ Blocked(s))

-----------------------------------------------------------------------------
(* What the docstring of process_source says, and the code does not do.    *)

\* "Every exit path persists a fetch row and updated source state in one
\* transaction": the pass leaves a source with a row for the attempt.
EveryExitPersists ==
  [][pc = "fetch" /\ pc' # "fetch" /\ crashes' = crashes
       => tried'[ctx.turn] = ctx.started]_vars
=============================================================================
