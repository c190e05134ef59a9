------------------------- MODULE AlertEngineProofs -------------------------
(***************************************************************************)
(* Proofs about AlertEngine, for any events, processes, ladder and budget, *)
(* and any number of errors, mutes, failing calls and crashes.             *)
(***************************************************************************)
EXTENDS AlertEngine, NumberLemmas, SequenceTheorems, TLAPS

-----------------------------------------------------------------------------
(* Types.                                                                  *)

Flushing == {"header", "body", "mark"}
Alerting == PCs \ ({"off", "run"} \cup Flushing)

\* Where nothing that was put off is taken up again.
Inside == Flushing \cup {"spend", "notice"}

\* What the local variables of a process at label l have to do with the messages
\* in the chat, sh, and the n entries of the outbox.
Local(l, c, sh, n) ==
  /\ c.now \in 0..MaxHour
  /\ c.raw # None => c.raw.start \in 0..MaxHour
  /\ c.batch \subseteq 1..n /\ c.left \subseteq c.batch
  /\ l \in {"header", "body"} => c.left # {}
  /\ l = "header" => c.left = c.batch
  /\ c.event # None => c.msg <= Len(sh[c.event])
  /\ \A t \in c.todo : t[2] <= Len(sh[t[1]])
  /\ l \in Alerting => c.event # None
  /\ c.then \notin Inside
  /\ c.then \in Alerting => c.event # None

LocalsRight ==
  /\ pc \in [Procs -> PCs] /\ ctx \in [Procs -> Context]
  /\ \A q \in Procs : Local(pc[q], ctx[q], shown, queued)

RowsRight ==
  /\ row \in [Events -> Event] /\ shown \in [Events -> Seq(States)]
  /\ \A e \in Events : row[e].count <= reports /\ row[e].msg <= Len(shown[e])

BoxRight == queued \in Nat /\ outbox \subseteq 1..queued /\ told \subseteq 1..queued

PurseRight ==
  /\ budget \in Budget \cup {None} /\ (budget # None => budget.start \in 0..MaxHour)
  /\ booked \in [0..MaxHour -> [alerts : Nat, notices : Nat]] /\ raced \in Nat

NotesRight == extra \in [Events -> Nat] /\ blurred \subseteq Events

CountsRight ==
  /\ hour \in 0..MaxHour /\ NotesRight
  /\ reports \in 0..MaxReports /\ mutes \in 0..MaxMutes
  /\ faults \in 0..MaxFaults /\ crashes \in 0..MaxCrashes

TypeInv == LocalsRight /\ RowsRight /\ BoxRight /\ PurseRight /\ CountsRight

\* No message disappears and no entry is forgotten.
Grows ==
  /\ shown' \in [Events -> Seq(States)] /\ queued' \in Nat /\ queued <= queued'
  /\ \A e \in Events : Len(shown[e]) <= Len(shown'[e])

\* What is noted of an event, or of some, stays well typed.
LEMMA NotesKept ==
  ASSUME TypeInv, NEW e \in Events, Extra(e) \/ UNCHANGED extra,
         NEW p, NEW S \in SUBSET Events, Blur(p, S) \/ UNCHANGED blurred
  PROVE  NotesRight'
<1>1. extra \in [Events -> Nat] /\ blurred \subseteq Events
  BY DEF TypeInv, CountsRight, NotesRight
<1>2. extra' \in [Events -> Nat]
  <2>1. extra[e] + 1 \in Nat
    BY <1>1
  <2> QED
    BY <1>1, <2>1 DEF Extra
<1>3. blurred' \subseteq Events
  BY <1>1 DEF Blur
<1> QED
  BY <1>2, <1>3 DEF NotesRight

\* What is known of a process before it moves.
LEMMA LocalKnown ==
  ASSUME TypeInv, NEW p \in Procs
  PROVE  /\ pc[p] \in PCs /\ ctx[p] \in Context /\ Local(pc[p], ctx[p], shown, queued)
         /\ pc[p] \in Alerting => ctx[p].event \in Events
BY DEF TypeInv, LocalsRight, Local, Context

\* The length of what an event has said is a number.
LEMMA LengthsKnown ==
  ASSUME TypeInv PROVE \A e \in Events : shown[e] \in Seq(States) /\ Len(shown[e]) \in Nat
BY LenProperties DEF TypeInv, RowsRight

\* The local variables stay right when messages and entries are added.
LEMMA LocalGrows ==
  ASSUME NEW l \in PCs, NEW c \in Context, NEW n \in Nat, NEW n2 \in Nat, n <= n2,
         NEW sh \in [Events -> Seq(States)], NEW sh2 \in [Events -> Seq(States)],
         \A e \in Events : (e = c.event \/ \E t \in c.todo : t[1] = e) => Len(sh[e]) <= Len(sh2[e]),
         Local(l, c, sh, n)
  PROVE  Local(l, c, sh2, n2)
<1>1. c.batch \subseteq 1..n2
  BY DEF Local, Context
<1>2. c.event # None => c.msg <= Len(sh2[c.event])
  <2>1. SUFFICES ASSUME c.event # None PROVE c.msg <= Len(sh2[c.event])
    OBVIOUS
  <2>2. c.event \in Events /\ c.msg \in Nat
    BY <2>1 DEF Context
  <2>3. Len(sh[c.event]) \in Nat /\ Len(sh2[c.event]) \in Nat
    BY <2>2, LenProperties
  <2> QED
    BY <2>1, <2>2, <2>3 DEF Local
<1>3. \A t \in c.todo : t[2] <= Len(sh2[t[1]])
  <2>1. SUFFICES ASSUME NEW t \in c.todo PROVE t[2] <= Len(sh2[t[1]])
    OBVIOUS
  <2>2. t[1] \in Events /\ t[2] \in Nat
    BY DEF Context
  <2>3. Len(sh[t[1]]) \in Nat /\ Len(sh2[t[1]]) \in Nat
    BY <2>2, LenProperties
  <2>4. t[2] <= Len(sh[t[1]])
    BY DEF Local
  <2>5. Len(sh[t[1]]) <= Len(sh2[t[1]])
    BY <2>2, Zenon
  <2> QED
    BY <2>2, <2>3, <2>4, <2>5
<1> QED
  BY <1>1, <1>2, <1>3 DEF Local

\* The same of the process p itself.
LEMMA OwnLocalGrows ==
  ASSUME TypeInv, Grows, NEW p \in Procs
  PROVE  Local(pc[p], ctx[p], shown', queued')
<1>1. shown \in [Events -> Seq(States)] /\ queued \in Nat
  BY DEF TypeInv, RowsRight, BoxRight
<1>2. pc[p] \in PCs /\ ctx[p] \in Context /\ Local(pc[p], ctx[p], shown, queued)
  BY LocalKnown
<1> QED
  BY <1>1, <1>2, LocalGrows DEF Grows

\* A process that goes to l with local variables c that are right there.
LEMMA GotoMoves ==
  ASSUME TypeInv, Grows, NEW p \in Procs, NEW l \in PCs, NEW c \in Context,
         Goto(p, l, c), Local(l, c, shown', queued')
  PROVE  LocalsRight'
<1>1. pc \in [Procs -> PCs] /\ ctx \in [Procs -> Context]
  BY DEF TypeInv, LocalsRight
<1>2. pc' \in [Procs -> PCs] /\ ctx' \in [Procs -> Context]
  BY <1>1 DEF Goto
<1>3. ASSUME NEW q \in Procs PROVE Local(pc'[q], ctx'[q], shown', queued')
  <2>1. CASE q = p
    <3>1. pc'[q] = l /\ ctx'[q] = c
      BY <1>1, <2>1 DEF Goto
    <3> QED
      BY <3>1
  <2>2. CASE q # p
    <3>1. pc'[q] = pc[q] /\ ctx'[q] = ctx[q]
      BY <1>1, <2>2 DEF Goto
    <3> QED
      BY <3>1, OwnLocalGrows
  <2> QED
    BY <2>1, <2>2
<1> QED
  BY <1>2, <1>3 DEF LocalsRight

\* A step that touches no local variable.
LEMMA StayMoves ==
  ASSUME TypeInv, Grows, UNCHANGED <<pc, ctx>>
  PROVE  LocalsRight'
<1>1. ASSUME NEW q \in Procs PROVE Local(pc'[q], ctx'[q], shown', queued')
  BY OwnLocalGrows
<1> QED
  BY <1>1 DEF LocalsRight, TypeInv

\* Messages and entries that stay do not shrink.
LEMMA StaysGrows ==
  ASSUME TypeInv, UNCHANGED <<shown, queued>>
  PROVE  Grows
BY LengthsKnown DEF Grows, TypeInv, RowsRight, BoxRight

\* Nor do they when an entry is queued.
LEMMA QueueGrows ==
  ASSUME TypeInv, Queue, UNCHANGED shown
  PROVE  Grows /\ BoxRight'
<1>1. Grows
  BY LengthsKnown DEF Grows, TypeInv, RowsRight, BoxRight, Queue
<1>2. BoxRight'
  BY DEF TypeInv, BoxRight, Queue
<1> QED
  BY <1>1, <1>2

\* A message more.
LEMMA PostGrows ==
  ASSUME TypeInv, NEW e \in Events, NEW text \in States, Post(e, text),
         queued' \in Nat, queued <= queued'
  PROVE  Grows /\ Len(shown'[e]) = Len(shown[e]) + 1
<1>1. shown \in [Events -> Seq(States)]
  BY DEF TypeInv, RowsRight
<1>2. shown' \in [Events -> Seq(States)]
  BY <1>1, AppendProperties DEF Post
<1>3. shown'[e] = Append(shown[e], text)
  BY <1>1 DEF Post
<1>4. Len(shown'[e]) = Len(shown[e]) + 1
  BY <1>1, <1>3, AppendProperties
<1>5. \A d \in Events : d # e => shown'[d] = shown[d]
  BY <1>1 DEF Post
<1> QED
  BY <1>2, <1>4, <1>5, LengthsKnown DEF Grows

\* A message that says something else now.
LEMMA SayGrows ==
  ASSUME TypeInv, NEW e \in Events, NEW text \in States, NEW n \in Nat, Say(e, n, text),
         queued' \in Nat, queued <= queued'
  PROVE  Grows
<1>1. shown \in [Events -> Seq(States)]
  BY DEF TypeInv, RowsRight
<1> DEFINE s == [shown[e] EXCEPT ![n] = text]
<1>2. s \in Seq(States) /\ Len(s) = Len(shown[e])
  <2>1. CASE n \in 1..Len(shown[e])
    BY <1>1, <2>1, ExceptSeq
  <2>2. CASE n \notin 1..Len(shown[e])
    <3>1. shown[e] \in Seq(States) /\ DOMAIN shown[e] = 1..Len(shown[e])
      BY <1>1, LenProperties
    <3>2. s = shown[e]
      BY <2>2, <3>1
    <3> QED
      BY <3>1, <3>2
  <2> QED
    BY <2>1, <2>2
<1>3. shown' = [shown EXCEPT ![e] = s]
  BY DEF Say
<1> HIDE DEF s
<1>4. shown' \in [Events -> Seq(States)] /\ shown'[e] = s
  BY <1>1, <1>2, <1>3
<1>5. \A d \in Events : d # e => shown'[d] = shown[d]
  BY <1>1, <1>3
<1> QED
  BY <1>2, <1>4, <1>5, LengthsKnown DEF Grows

\* Nothing in hand is right anywhere outside of an alert and a flush.
LEMMA NothingIsRight ==
  /\ Nothing \in Context
  /\ \A sh, n : Local("off", Nothing, sh, n) /\ Local("run", Nothing, sh, n)
BY NoneAssumption, NumbersAssumption
   DEF Nothing, Context, Local, Alerting, Flushing, Inside, PCs, States

\* The hub is outside of both.
LEMMA HubIsRight ==
  \A p : Hub(p) \in {"off", "run"} /\ Hub(p) \in PCs
BY DEF Hub, PCs

\* A process that is done.
LEMMA DoneMoves ==
  ASSUME TypeInv, Grows, NEW p \in Procs, Done(p)
  PROVE  LocalsRight'
<1>1. Goto(p, Hub(p), Nothing) /\ Local(Hub(p), Nothing, shown', queued')
  BY NothingIsRight, HubIsRight DEF Done
<1> QED
  BY <1>1, NothingIsRight, HubIsRight, GotoMoves

\* A flush that begins, or has nothing to send.
LEMMA FlushMoves ==
  ASSUME TypeInv, Grows, NEW p \in Procs, NEW l \in PCs \ Inside, NEW c \in Context,
         FlushThen(p, l, c), Local(l, c, shown', queued')
  PROVE  LocalsRight'
<1>1. CASE outbox = {}
  BY <1>1, GotoMoves DEF FlushThen
<1>2. CASE outbox # {}
  <2> DEFINE d == [c EXCEPT !.then = l, !.batch = outbox, !.left = outbox]
  <2>1. outbox \subseteq 1..queued' /\ outbox \subseteq Nat
    BY DEF TypeInv, BoxRight, Grows
  <2>2. d \in Context
    BY <2>1 DEF Context
  <2>3. Local("header", d, shown', queued')
    BY <1>2, <2>1 DEF Local, Context, Alerting, Flushing, Inside
  <2>4. Goto(p, "header", d)
    BY <1>2 DEF FlushThen
  <2>5. "header" \in PCs
    BY DEF PCs
  <2> HIDE DEF d
  <2> QED
    BY <2>2, <2>3, <2>4, <2>5, GotoMoves
<1> QED
  BY <1>1, <1>2

\* A flush that ends.
LEMMA AfterFlushMoves ==
  ASSUME TypeInv, Grows, NEW p \in Procs, AfterFlush(p)
  PROVE  LocalsRight'
<1> DEFINE c == [ctx[p] EXCEPT !.then = "off", !.batch = {}, !.left = {}]
<1>1. Local(pc[p], ctx[p], shown', queued') /\ ctx[p] \in Context
  BY OwnLocalGrows, LocalKnown
<1>2. c \in Context
  BY <1>1 DEF Context, PCs
<1>3. Local(ctx[p].then, c, shown', queued')
  BY <1>1 DEF Local, Context, Alerting, Flushing, Inside, PCs
<1>4. Goto(p, ctx[p].then, c) /\ ctx[p].then \in PCs
  BY <1>1 DEF AfterFlush, Context
<1> HIDE DEF c
<1> QED
  BY <1>2, <1>3, <1>4, GotoMoves

\* A process that stays with its event.
LEMMA SameMoves ==
  ASSUME TypeInv, Grows, NEW p \in Procs, NEW l \in PCs, Goto(p, l, ctx[p]),
         l \notin {"header", "body"}, l \in Alerting => ctx[p].event # None
  PROVE  LocalsRight'
<1>1. Local(pc[p], ctx[p], shown', queued') /\ ctx[p] \in Context
  BY OwnLocalGrows, LocalKnown
<1>2. Local(l, ctx[p], shown', queued')
  BY <1>1 DEF Local
<1> QED
  BY <1>1, <1>2, GotoMoves

\* A resolution that goes on with its next event.
LEMMA GoOnMoves ==
  ASSUME TypeInv, Grows, NEW p \in Procs, GoOn(p)
  PROVE  LocalsRight'
<1>1. CASE ctx[p].todo = {}
  BY <1>1, DoneMoves DEF GoOn
<1>2. CASE ctx[p].todo # {}
  <2>1. PICK t \in ctx[p].todo :
          Goto(p, "edit", [ctx[p] EXCEPT !.event = t[1], !.msg = t[2], !.todo = @ \ {t}])
    BY <1>2 DEF GoOn
  <2> DEFINE c == [ctx[p] EXCEPT !.event = t[1], !.msg = t[2], !.todo = @ \ {t}]
  <2>2. Local(pc[p], ctx[p], shown', queued') /\ ctx[p] \in Context
    BY OwnLocalGrows, LocalKnown
  <2>3. t[1] \in Events /\ t[2] \in Nat
    BY <2>2 DEF Context
  <2>4. c \in Context
    BY <2>2, <2>3 DEF Context
  <2>5. Local("edit", c, shown', queued')
    BY <2>2, <2>3, NoneAssumption DEF Local, Context
  <2>6. "edit" \in PCs
    BY DEF PCs
  <2>7. Goto(p, "edit", c)
    BY <2>1
  <2> HIDE DEF c
  <2> QED
    BY <2>4, <2>5, <2>6, <2>7, GotoMoves
<1> QED
  BY <1>1, <1>2

\* An edit that worked.
LEMMA EditedMoves ==
  ASSUME TypeInv, Grows, NEW p \in Procs, pc[p] \in Alerting, Edited(p)
  PROVE  LocalsRight'
<1>1. ctx[p].event # None
  BY LocalKnown DEF Local
<1>2. "count" \in PCs
  BY DEF PCs
<1> QED
  BY <1>1, <1>2, GoOnMoves, SameMoves DEF Edited

\* Rows that stay are right while messages and errors are added.
LEMMA RowsStay ==
  ASSUME TypeInv, Grows, UNCHANGED row, reports' \in Nat, reports <= reports'
  PROVE  RowsRight'
<1>1. ASSUME NEW e \in Events
      PROVE  row[e].count <= reports' /\ row[e].msg <= Len(shown'[e])
  <2>1. row[e].count \in Nat /\ row[e].msg \in Nat /\ reports \in Nat
    BY DEF TypeInv, RowsRight, Event, CountsRight, NotesRight, notes
  <2>2. Len(shown[e]) \in Nat /\ Len(shown'[e]) \in Nat
    BY LengthsKnown, LenProperties DEF Grows
  <2> QED
    BY <2>1, <2>2 DEF TypeInv, RowsRight, Grows
<1> QED
  BY <1>1 DEF RowsRight, TypeInv, Grows

\* One row is written.
LEMMA RowWritten ==
  ASSUME TypeInv, Grows, NEW e \in Events, NEW r \in Event, row' = [row EXCEPT ![e] = r],
         reports' \in Nat, reports <= reports', r.count <= reports', r.msg <= Len(shown'[e])
  PROVE  RowsRight'
<1>1. row \in [Events -> Event]
  BY DEF TypeInv, RowsRight
<1>2. row' \in [Events -> Event]
  BY <1>1
<1>3. ASSUME NEW d \in Events
      PROVE  row'[d].count <= reports' /\ row'[d].msg <= Len(shown'[d])
  <2>1. row[d].count \in Nat /\ row[d].msg \in Nat /\ reports \in Nat
    BY DEF TypeInv, RowsRight, Event, CountsRight, NotesRight, notes
  <2>2. Len(shown[d]) \in Nat /\ Len(shown'[d]) \in Nat
    BY LengthsKnown, LenProperties DEF Grows
  <2>3. row'[d] = IF d = e THEN r ELSE row[d]
    BY <1>1
  <2>4. row[d].count <= reports /\ row[d].msg <= Len(shown[d]) /\ Len(shown[d]) <= Len(shown'[d])
    BY DEF TypeInv, RowsRight, Grows
  <2> QED
    BY <2>1, <2>2, <2>3, <2>4
<1> QED
  BY <1>2, <1>3 DEF RowsRight, Grows

\* A message that is sent for the event in hand, then comes l.
LEMMA SendFreshMoves ==
  ASSUME TypeInv, NEW p \in Procs, pc[p] \in Alerting, NEW l \in {"own", "adopt"},
         SendFresh(p, l)
  PROVE  TypeInv'
<1> DEFINE e == ctx[p].event
           c == [ctx[p] EXCEPT !.msg = Len(shown[e]) + 1]
<1>1. e \in Events /\ ctx[p] \in Context /\ Local(pc[p], ctx[p], shown, queued)
  BY LocalKnown
<1>2. ctx[p].text \in States
  BY <1>1 DEF Context
<1>3. l \in PCs \ Inside /\ l \in Alerting
  BY DEF PCs, Alerting, Flushing, Inside
<1>4. UNCHANGED <<hour, row, purse, uses, crashes>>
  BY DEF SendFresh
<1>5. reports \in Nat /\ queued \in Nat /\ reports' = reports
  BY <1>4 DEF TypeInv, CountsRight, NotesRight, notes, BoxRight, uses
<1>6. ASSUME Post(e, ctx[p].text), FlushThen(p, l, c), UNCHANGED <<box, faults>>, NotesRight'
      PROVE  TypeInv'
  <2>1. Grows /\ Len(shown'[e]) = Len(shown[e]) + 1
    BY <1>1, <1>2, <1>5, <1>6, PostGrows DEF box
  <2>2. c \in Context
    BY <1>1, LengthsKnown DEF Context
  <2>3. Local(pc[p], ctx[p], shown', queued')
    BY <2>1, OwnLocalGrows
  <2>4. Local(l, c, shown', queued')
    BY <1>1, <1>3, <2>1, <2>3 DEF Local, Context, Alerting, Flushing, Inside
  <2>5. FlushThen(p, l, c)
    BY <1>6
  <2> HIDE DEF c
  <2>6. LocalsRight'
    BY <1>3, <2>1, <2>2, <2>4, <2>5, FlushMoves
  <2>7. RowsRight'
    BY <1>4, <1>5, <2>1, RowsStay
  <2> QED
    BY <1>4, <1>6, <2>6, <2>7
       DEF TypeInv, BoxRight, PurseRight, CountsRight, NotesRight, notes, box, purse, uses
<1>7. ASSUME Fault, Queue, GoOn(p), NotesRight',
             Post(e, ctx[p].text) \/ UNCHANGED shown
      PROVE  TypeInv'
  <2>1. queued' \in Nat /\ queued <= queued'
    BY <1>5, <1>7 DEF Queue
  <2>2. Grows
    BY <1>1, <1>2, <1>7, <2>1, PostGrows, QueueGrows
  <2>3. LocalsRight'
    BY <1>7, <2>2, GoOnMoves
  <2>4. RowsRight'
    BY <1>4, <1>5, <2>2, RowsStay
  <2>5. BoxRight'
    BY <1>7 DEF TypeInv, BoxRight, Queue
  <2> QED
    BY <1>1, <1>4, <1>7, <2>3, <2>4, <2>5, NumbersAssumption
       DEF TypeInv, PurseRight, CountsRight, NotesRight, notes, purse, uses, Fault
<1>8. NotesRight'
  <2>1. {e} \in SUBSET Events /\ (Extra(e) \/ UNCHANGED extra) /\ (Blur(p, {e}) \/ UNCHANGED blurred)
    BY <1>1 DEF SendFresh
  <2> QED
    BY <1>1, <2>1, NotesKept
<1> QED
  BY <1>6, <1>7, <1>8 DEF SendFresh

-----------------------------------------------------------------------------
(* Each action keeps the types.                                            *)

\* The upsert keeps a row a row, and counts at most one occurrence.
LEMMA RecordedRow ==
  ASSUME NEW r \in Event
  PROVE  Recorded(r) \in Event /\ Recorded(r).count = r.count + 1 /\ Recorded(r).msg = r.msg
<1> DEFINE state == IF r.state \in {"none", "resolved"} THEN "unacked" ELSE r.state
           streak == IF r.state = "resolved" THEN 1 ELSE r.streak + 1
<1>1. state \in States /\ streak \in Nat /\ r.count + 1 \in Nat
  BY DEF Event, States
<1>2. Recorded(r) = [r EXCEPT !.count = r.count + 1, !.streak = streak, !.state = state]
  BY DEF Recorded, Event
<1> HIDE DEF state, streak
<1> QED
  BY <1>1, <1>2 DEF Event

\* The policy goes on to one of four places.
LEMMA RouteKnown ==
  ASSUME NEW p \in Procs, NEW e, NEW r, NEW notifying, NEW now
  PROVE  Route(p, e, r, notifying, now) \in {Hub(p), "budget", "edit", "send"}
BY DEF Route

\* A report keeps the types.
LEMMA RecordTypes ==
  ASSUME TypeInv, NEW p \in Procs, NEW e \in Events, Record(p, e)
  PROVE  TypeInv'
<1> DEFINE new == Recorded(row[e])
           escalated == Escalates(e, new)
           r == [new EXCEPT !.raised = @ \/ escalated]
           notifying == Notifying(r, escalated, hour)
           to == Route(p, e, r, notifying, hour)
           c == [Nothing EXCEPT !.event = e, !.now = hour, !.text = r.state,
                                !.msg = r.msg, !.notifying = notifying, !.then = to]
<1>1. row[e] \in Event /\ row \in [Events -> Event] /\ hour \in 0..MaxHour
      /\ row[e].count <= reports /\ row[e].msg <= Len(shown[e])
  BY DEF TypeInv, RowsRight, CountsRight, NotesRight, notes
<1>2. new \in Event /\ new.count = row[e].count + 1 /\ new.msg = row[e].msg
  BY <1>1, RecordedRow
<1>3. Grows
  BY StaysGrows DEF Record, box
<1>4. reports \in Nat /\ reports' = reports + 1 /\ reports' \in 0..MaxReports
  BY NumbersAssumption DEF Record, TypeInv, CountsRight, NotesRight, notes
<1>5. row' = [row EXCEPT ![e] = new] /\ shown' = shown
  BY DEF Record
<1>6. row[e].count \in Nat /\ new.count <= reports' /\ new.msg <= Len(shown'[e])
  BY <1>1, <1>2, <1>4, <1>5 DEF Event
<1>7. reports' \in Nat /\ reports <= reports'
  BY <1>4
<1>8. RowsRight'
  <2> HIDE DEF new
  <2> QED
    BY <1>2, <1>3, <1>4, <1>5, <1>6, <1>7, RowWritten, Zenon
<1>9. c \in Context /\ c.event = e /\ c.then = to /\ c.msg = row[e].msg /\ c.now = hour
      /\ c.raw = None /\ c.batch = {} /\ c.left = {} /\ c.todo = {}
  <2>1. to \in {Hub(p), "budget", "edit", "send"} /\ to \in PCs
    BY RouteKnown, HubIsRight DEF PCs
  <2>2. notifying \in BOOLEAN
    BY DEF Notifying
  <2>3. r.state \in States /\ r.msg = row[e].msg /\ row[e].msg \in Nat
    BY <1>1, <1>2 DEF Event
  <2>4. Nothing \in Context /\ hour \in Nat
    BY <1>1, NothingIsRight, NumbersAssumption
  <2> HIDE DEF to, notifying, r
  <2> QED
    BY <2>1, <2>2, <2>3, <2>4 DEF Context, Nothing
<1>10. to \in {"off", "run", "budget", "edit", "send"}
  BY RouteKnown, HubIsRight
<1>11. \A l \in {"escalate", "budget", "edit", "send"} : Local(l, c, shown', queued')
  <2> HIDE DEF c, to
  <2> QED
    BY <1>1, <1>5, <1>9, <1>10, NoneAssumption DEF Local, Flushing, Inside, Alerting
<1>12. IF escalated THEN Goto(p, "escalate", c)
       ELSE Goto(p, to, IF to = Hub(p) THEN Nothing ELSE c)
  BY DEF Record
<1>13. LocalsRight'
  <2>1. CASE escalated
    <3>1. Goto(p, "escalate", c) /\ "escalate" \in PCs
      BY <1>12, <2>1 DEF PCs
    <3> HIDE DEF c
    <3> QED
      BY <1>3, <1>9, <1>11, <3>1, GotoMoves
  <2>2. CASE ~escalated /\ to = Hub(p)
    <3>1. Done(p)
      BY <1>12, <2>2 DEF Done
    <3> QED
      BY <1>3, <3>1, DoneMoves
  <2>3. CASE ~escalated /\ to # Hub(p)
    <3>1. Goto(p, to, c)
      BY <1>12, <2>3
    <3>2. to \in {"budget", "edit", "send"} /\ to \in PCs
      BY <2>3, RouteKnown DEF PCs
    <3> HIDE DEF c, to
    <3> QED
      BY <1>3, <1>9, <1>11, <3>1, <3>2, GotoMoves
  <2> QED
    BY <2>1, <2>2, <2>3
<1>14. UNCHANGED <<hour, shown, box, purse, mutes, bad>> /\ NotesRight'
  <2>1. (Extra(e) \/ UNCHANGED extra) /\ UNCHANGED blurred
    BY DEF Record
  <2> QED
    BY <2>1, NotesKept DEF Record
<1> HIDE DEF c, to, notifying, r, escalated, new
<1> QED
  BY <1>4, <1>8, <1>13, <1>14 DEF TypeInv, BoxRight, PurseRight, CountsRight, NotesRight, notes, box, purse, bad

\* So does the change of severity.
LEMMA EscalateTypes ==
  ASSUME TypeInv, NEW p \in Procs, Escalate(p)
  PROVE  TypeInv'
<1> DEFINE e == ctx[p].event
           r == [row[e] EXCEPT !.raised = TRUE]
<1>1. e \in Events /\ ctx[p] \in Context /\ Local(pc[p], ctx[p], shown, queued)
  BY LocalKnown DEF Escalate, Alerting, Flushing, PCs
<1>2. Grows /\ UNCHANGED <<hour, shown, box, purse, notes, uses, bad>>
  BY StaysGrows DEF Escalate, box
<1>3. row[e] \in Event /\ row[e].count <= reports /\ row[e].msg <= Len(shown[e])
      /\ reports \in Nat /\ row \in [Events -> Event]
  BY <1>1 DEF TypeInv, RowsRight, CountsRight, NotesRight, notes
<1>4. r \in Event /\ r.count = row[e].count /\ r.msg = row[e].msg
  BY <1>3 DEF Event
<1>5. row' = [row EXCEPT ![e] = r]
  BY DEF Escalate
<1>6. reports' \in Nat /\ reports <= reports' /\ r.count <= reports' /\ r.msg <= Len(shown'[e])
  BY <1>2, <1>3, <1>4 DEF uses
<1>7. RowsRight'
  <2> HIDE DEF r, e
  <2> QED
    BY <1>1, <1>2, <1>4, <1>5, <1>6, RowWritten, Zenon
<1>8. LocalsRight'
  <2>1. CASE ctx[p].then = Hub(p)
    BY <1>2, <2>1, DoneMoves DEF Escalate
  <2>2. CASE ctx[p].then # Hub(p)
    <3>1. Goto(p, ctx[p].then, ctx[p]) /\ ctx[p].then \in PCs /\ ctx[p].then \notin {"header", "body"}
      BY <1>1, <2>2 DEF Escalate, Context, Local, Flushing, Inside
    <3> QED
      BY <1>1, <1>2, <3>1, NoneAssumption, SameMoves
  <2> QED
    BY <2>1, <2>2
<1> QED
  BY <1>2, <1>7, <1>8 DEF TypeInv, BoxRight, PurseRight, CountsRight, NotesRight, notes, box, purse, bad, uses

\* The window of a budget row that is right is one of the hours.
LEMMA BudgetAtKnown ==
  ASSUME NEW b \in Budget \cup {None}, b # None => b.start \in 0..MaxHour, NEW now \in 0..MaxHour
  PROVE  BudgetAt(b, now) \in Budget /\ BudgetAt(b, now).start \in 0..MaxHour
<1>1. now \in Nat
  BY NumbersAssumption
<1>2. [start |-> now, count |-> 0, noticed |-> FALSE] \in Budget
  BY <1>1 DEF Budget
<1> QED
  BY <1>1, <1>2 DEF BudgetAt

\* What a process that asks for the budget has in hand.
LEMMA AskerKnown ==
  ASSUME TypeInv, NEW p \in Procs, pc[p] \in {"budget", "spend", "notice", "warn"}
  PROVE  /\ ctx[p] \in Context /\ ctx[p].event \in Events /\ pc[p] \in Alerting
         /\ ctx[p].now \in 0..MaxHour
         /\ ctx[p].raw \in Budget \cup {None} /\ (ctx[p].raw # None => ctx[p].raw.start \in 0..MaxHour)
         /\ BudgetAt(ctx[p].raw, ctx[p].now) \in Budget
         /\ BudgetAt(ctx[p].raw, ctx[p].now).start \in 0..MaxHour
<1>1. ctx[p] \in Context /\ Local(pc[p], ctx[p], shown, queued)
  BY LocalKnown
<1>2. pc[p] \in Alerting
  BY DEF Alerting, Flushing, PCs
<1>3. ctx[p].event \in Events
  BY <1>2, LocalKnown
<1>4. ctx[p].now \in 0..MaxHour /\ ctx[p].raw \in Budget \cup {None}
      /\ (ctx[p].raw # None => ctx[p].raw.start \in 0..MaxHour)
  BY <1>1 DEF Local, Context
<1> QED
  BY <1>1, <1>2, <1>3, <1>4, BudgetAtKnown

\* So does the reading of the budget.
LEMMA ReadBudgetTypes ==
  ASSUME TypeInv, NEW p \in Procs, ReadBudget(p)
  PROVE  TypeInv'
<1> DEFINE b == BudgetAt(budget, ctx[p].now)
           c == [ctx[p] EXCEPT !.raw = budget]
<1>1. Grows /\ UNCHANGED <<hour, rows, box, purse, notes, uses, bad>>
  BY StaysGrows DEF ReadBudget, box, rows
<1>2. ctx[p] \in Context /\ ctx[p].event \in Events
  BY AskerKnown DEF ReadBudget
<1>3. Local(pc[p], ctx[p], shown', queued')
  BY <1>1, OwnLocalGrows
<1>4. budget \in Budget \cup {None} /\ (budget # None => budget.start \in 0..MaxHour)
  BY DEF TypeInv, PurseRight
<1>5. c \in Context
  BY <1>2, <1>4 DEF Context
<1>6. \A l \in {"spend", "notice"} : Local(l, c, shown', queued')
  BY <1>2, <1>3, <1>4, NoneAssumption DEF Local, Context
<1>7. \/ Goto(p, "spend", c)
      \/ Done(p)
      \/ Goto(p, "notice", c)
  BY DEF ReadBudget
<1>8. {"spend", "notice"} \subseteq PCs
  BY DEF PCs
<1>9. LocalsRight'
  <2> HIDE DEF c
  <2>1. CASE Goto(p, "spend", c)
    BY <1>1, <1>5, <1>6, <1>8, <2>1, GotoMoves
  <2>2. CASE Done(p)
    BY <1>1, <2>2, DoneMoves
  <2>3. CASE Goto(p, "notice", c)
    BY <1>1, <1>5, <1>6, <1>8, <2>3, GotoMoves
  <2> QED
    BY <1>7, <2>1, <2>2, <2>3
<1>10. RowsRight'
  BY <1>1 DEF rows, uses, TypeInv, RowsRight
<1> QED
  BY <1>1, <1>9, <1>10 DEF TypeInv, BoxRight, PurseRight, CountsRight, NotesRight, notes, rows, box, purse, bad, uses

\* A write of the budget and of what was booked under it.
LEMMA WritePurse ==
  ASSUME TypeInv, NEW p \in Procs, NEW b \in Budget, b.start \in 0..MaxHour, WriteBudget(p, b),
         NEW h \in 0..MaxHour, NEW k \in [alerts : Nat, notices : Nat],
         booked' = [booked EXCEPT ![h] = k]
  PROVE  PurseRight'
<1>1. raced' \in Nat /\ budget' = b
  BY DEF TypeInv, PurseRight, WriteBudget
<1>2. booked' \in [0..MaxHour -> [alerts : Nat, notices : Nat]]
  BY DEF TypeInv, PurseRight
<1> QED
  BY <1>1, <1>2 DEF PurseRight

\* So does the spending of an alert.
LEMMA SpendTypes ==
  ASSUME TypeInv, NEW p \in Procs, Spend(p)
  PROVE  TypeInv'
<1> DEFINE b == BudgetAt(ctx[p].raw, ctx[p].now)
           b2 == [b EXCEPT !.count = @ + 1]
           k == [booked[b.start] EXCEPT !.alerts = @ + 1]
<1>1. Grows /\ UNCHANGED <<hour, rows, box, notes, uses, bad>>
  BY StaysGrows DEF Spend, box, rows
<1>2. ctx[p] \in Context /\ ctx[p].event \in Events /\ b \in Budget /\ b.start \in 0..MaxHour
  BY AskerKnown DEF Spend
<1>3. b2 \in Budget /\ b2.start = b.start
  BY <1>2 DEF Budget
<1>4. k \in [alerts : Nat, notices : Nat]
  BY <1>2 DEF TypeInv, PurseRight
<1>5. WriteBudget(p, b2) /\ booked' = [booked EXCEPT ![b.start] = k]
      /\ Goto(p, IF ctx[p].msg = 0 THEN "send" ELSE "edit", ctx[p])
  BY DEF Spend
<1>6. PurseRight'
  <2> HIDE DEF b, b2, k
  <2> QED
    BY <1>2, <1>3, <1>4, <1>5, WritePurse
<1>7. LocalsRight'
  <2>1. {"send", "edit"} \subseteq PCs
    BY DEF PCs
  <2> QED
    BY <1>1, <1>2, <1>5, <2>1, NoneAssumption, SameMoves
<1>8. RowsRight'
  BY <1>1 DEF rows, uses, TypeInv, RowsRight
<1> QED
  BY <1>1, <1>6, <1>7, <1>8 DEF TypeInv, BoxRight, CountsRight, NotesRight, notes, rows, box, bad, uses

\* So does the write that precedes the suppression notice.
LEMMA NoticeTypes ==
  ASSUME TypeInv, NEW p \in Procs, Notice(p)
  PROVE  TypeInv'
<1> DEFINE b == BudgetAt(ctx[p].raw, ctx[p].now)
           b2 == [b EXCEPT !.noticed = TRUE]
           k == [booked[b.start] EXCEPT !.notices = @ + 1]
<1>1. Grows /\ UNCHANGED <<hour, rows, box, notes, uses, bad>>
  BY StaysGrows DEF Notice, box, rows
<1>2. ctx[p] \in Context /\ ctx[p].event \in Events /\ b \in Budget /\ b.start \in 0..MaxHour
  BY AskerKnown DEF Notice
<1>3. b2 \in Budget /\ b2.start = b.start
  BY <1>2 DEF Budget
<1>4. k \in [alerts : Nat, notices : Nat]
  BY <1>2 DEF TypeInv, PurseRight
<1>5. WriteBudget(p, b2) /\ booked' = [booked EXCEPT ![b.start] = k] /\ Goto(p, "warn", ctx[p])
  BY DEF Notice
<1>6. PurseRight'
  <2> HIDE DEF b, b2, k
  <2> QED
    BY <1>2, <1>3, <1>4, <1>5, WritePurse
<1>7. LocalsRight'
  <2>1. "warn" \in PCs
    BY DEF PCs
  <2> QED
    BY <1>1, <1>2, <1>5, <2>1, NoneAssumption, SameMoves
<1>8. RowsRight'
  BY <1>1 DEF rows, uses, TypeInv, RowsRight
<1> QED
  BY <1>1, <1>6, <1>7, <1>8 DEF TypeInv, BoxRight, CountsRight, NotesRight, notes, rows, box, bad, uses

\* So does the suppression notice.
LEMMA WarnTypes ==
  ASSUME TypeInv, NEW p \in Procs, Warn(p)
  PROVE  TypeInv'
<1>1. UNCHANGED <<hour, rows, purse, notes, uses, crashes>>
  BY DEF Warn
<1>2. ASSUME FlushThen(p, Hub(p), Nothing), UNCHANGED <<box, faults>>
      PROVE  TypeInv'
  <2>1. Grows
    BY <1>1, <1>2, StaysGrows DEF rows, box
  <2>2. Hub(p) \in PCs \ Inside /\ Local(Hub(p), Nothing, shown', queued') /\ Nothing \in Context
    BY HubIsRight, NothingIsRight DEF Flushing, Inside
  <2>3. LocalsRight'
    BY <1>2, <2>1, <2>2, FlushMoves
  <2>4. RowsRight'
    BY <1>1 DEF rows, uses, TypeInv, RowsRight
  <2> QED
    BY <1>1, <1>2, <2>3, <2>4 DEF TypeInv, BoxRight, PurseRight, CountsRight, NotesRight, notes, rows, box, purse, uses
<1>3. ASSUME Fault, Queue, Done(p)
      PROVE  TypeInv'
  <2>1. Grows /\ BoxRight'
    BY <1>1, <1>3, QueueGrows DEF rows
  <2>2. LocalsRight'
    BY <1>3, <2>1, DoneMoves
  <2>3. RowsRight'
    BY <1>1 DEF rows, uses, TypeInv, RowsRight
  <2> QED
    BY <1>1, <1>3, <2>1, <2>2, <2>3, NumbersAssumption
       DEF TypeInv, PurseRight, CountsRight, NotesRight, notes, rows, purse, uses, Fault
<1> QED
  BY <1>2, <1>3 DEF Warn

\* Send, and Resend of a message that is too old.
LEMMA SendTypes ==
  ASSUME TypeInv, NEW p \in Procs, Send(p) \/ Resend(p)
  PROVE  TypeInv'
<1>1. pc[p] \in Alerting
  BY DEF Send, Resend, Alerting, Flushing, PCs
<1>2. CASE Send(p)
  BY <1>1, <1>2, SendFreshMoves DEF Send
<1>3. CASE Resend(p)
  BY <1>1, <1>3, SendFreshMoves DEF Resend
<1> QED
  BY <1>2, <1>3

\* The steps that note the outcome of an alert in its row.
LEMMA NotedTypes ==
  ASSUME TypeInv, NEW p \in Procs, Own(p) \/ Adopt(p) \/ Count(p)
  PROVE  TypeInv'
<1> DEFINE e == ctx[p].event
           owned == [row[e] EXCEPT !.msg = ctx[p].msg, !.alerted = ctx[p].now]
           adopted == [row[e] EXCEPT !.msg = ctx[p].msg]
           counted == [row[e] EXCEPT !.alerted = ctx[p].now]
<1>1. pc[p] \in Alerting
  BY DEF Own, Adopt, Count, Alerting, Flushing, PCs
<1>2. e \in Events /\ ctx[p] \in Context /\ Local(pc[p], ctx[p], shown, queued)
  BY <1>1, LocalKnown
<1>3. UNCHANGED <<hour, shown, box, purse, notes, uses, bad>>
  BY DEF Own, Adopt, Count
<1>4. Grows
  BY <1>3, StaysGrows DEF box
<1>5. row[e] \in Event /\ row[e].count <= reports /\ row[e].msg <= Len(shown[e])
      /\ reports \in Nat /\ row \in [Events -> Event]
  BY <1>2 DEF TypeInv, RowsRight, CountsRight, NotesRight, notes
<1>6. ctx[p].msg \in Nat /\ ctx[p].msg <= Len(shown[e]) /\ ctx[p].now \in Nat
  BY <1>2, NoneAssumption DEF Context, Local
<1>7. \A r \in {owned, adopted, counted} :
        r \in Event /\ r.count <= reports' /\ r.msg <= Len(shown'[e])
  BY <1>3, <1>5, <1>6 DEF Event, uses
<1>8. reports' \in Nat /\ reports <= reports'
  BY <1>3, <1>5 DEF uses
<1>9. \E r \in {owned, adopted, counted} : row' = [row EXCEPT ![e] = r]
  BY DEF Own, Adopt, Count
<1>10. RowsRight'
  <2>1. PICK r \in {owned, adopted, counted} : row' = [row EXCEPT ![e] = r]
    BY <1>9
  <2>2. r \in Event /\ r.count <= reports' /\ r.msg <= Len(shown'[e])
    BY <1>7
  <2> HIDE DEF e
  <2> QED
    BY <1>2, <1>4, <1>8, <2>1, <2>2, RowWritten, Zenon
<1>11. LocalsRight'
  <2>1. CASE Done(p)
    BY <1>4, <2>1, DoneMoves
  <2>2. CASE Edited(p)
    BY <1>1, <1>4, <2>2, EditedMoves
  <2> QED
    BY <2>1, <2>2 DEF Own, Adopt, Count
<1> QED
  BY <1>3, <1>10, <1>11 DEF TypeInv, BoxRight, PurseRight, CountsRight, NotesRight, notes, box, purse, bad, uses

\* So does an edit, whatever comes of it.
LEMMA EditTypes ==
  ASSUME TypeInv, NEW p \in Procs, Edit(p)
  PROVE  TypeInv'
<1> DEFINE e == ctx[p].event
<1>1. pc[p] \in Alerting
  BY DEF Edit, Alerting, Flushing, PCs
<1>2. e \in Events /\ ctx[p].text \in States /\ ctx[p].msg \in Nat
  BY <1>1, LocalKnown DEF Context
<1>3. UNCHANGED <<hour, row, purse, uses, crashes>>
  BY DEF Edit
<1>4. reports \in Nat /\ queued \in Nat /\ reports' = reports
  BY <1>3 DEF TypeInv, CountsRight, NotesRight, notes, BoxRight, uses
<1>11. NotesRight'
  <2>1. {e} \in SUBSET Events /\ UNCHANGED extra /\ (Blur(p, {e}) \/ UNCHANGED blurred)
    BY <1>2 DEF Edit
  <2> QED
    BY <1>2, <2>1, NotesKept
<1>5. ASSUME Grows, LocalsRight', BoxRight', faults' \in 0..MaxFaults
      PROVE  TypeInv'
  <2>1. RowsRight'
    BY <1>3, <1>4, <1>5, RowsStay
  <2> QED
    BY <1>3, <1>5, <1>11, <2>1 DEF TypeInv, PurseRight, CountsRight, purse, uses
<1>6. ASSUME Say(e, ctx[p].msg, ctx[p].text), Edited(p), UNCHANGED <<box, faults>>
      PROVE  TypeInv'
  <2>1. Grows
    BY <1>2, <1>4, <1>6, SayGrows DEF box
  <2>2. LocalsRight'
    BY <1>1, <1>6, <2>1, EditedMoves
  <2> QED
    BY <1>5, <1>6, <2>1, <2>2 DEF TypeInv, BoxRight, CountsRight, NotesRight, notes, box
<1>7. ASSUME Fault PROVE faults' \in 0..MaxFaults
  BY <1>7, NumbersAssumption DEF TypeInv, CountsRight, NotesRight, notes, Fault
<1>8. ASSUME Fault, Queue, GoOn(p),
             Say(e, ctx[p].msg, ctx[p].text) \/ UNCHANGED shown
      PROVE  TypeInv'
  <2>1. queued' \in Nat /\ queued <= queued'
    BY <1>4, <1>8 DEF Queue
  <2>2. Grows
    BY <1>2, <1>8, <2>1, SayGrows, QueueGrows
  <2>3. LocalsRight'
    BY <1>8, <2>2, GoOnMoves
  <2>4. BoxRight'
    BY <1>8 DEF TypeInv, BoxRight, Queue
  <2> QED
    BY <1>2, <1>4, <1>5, <1>7, <1>8, <2>2, <2>3, <2>4
<1>9. ASSUME Fault, GoOn(p), UNCHANGED <<shown, box>>
      PROVE  TypeInv'
  <2>1. Grows /\ BoxRight'
    BY <1>9, StaysGrows DEF box, TypeInv, BoxRight
  <2>2. LocalsRight'
    BY <1>9, <2>1, GoOnMoves
  <2> QED
    BY <1>2, <1>4, <1>5, <1>7, <1>9, <2>1, <2>2
<1>10. ASSUME Fault, Goto(p, "resend", ctx[p]), UNCHANGED <<shown, box>>
       PROVE  TypeInv'
  <2>1. Grows /\ BoxRight'
    BY <1>10, StaysGrows DEF box, TypeInv, BoxRight
  <2>2. "resend" \in PCs
    BY DEF PCs
  <2>3. LocalsRight'
    BY <1>2, <1>10, <2>1, <2>2, NoneAssumption, SameMoves
  <2> QED
    BY <1>2, <1>4, <1>5, <1>7, <1>10, <2>1, <2>3
<1> QED
  BY <1>6, <1>8, <1>9, <1>10 DEF Edit

\* The steps of a flush.
LEMMA FlushTypes ==
  ASSUME TypeInv, NEW p \in Procs, Header(p) \/ Body(p) \/ Mark(p)
  PROVE  TypeInv'
<1>1. ctx[p] \in Context /\ Local(pc[p], ctx[p], shown, queued)
  BY LocalKnown
<1>2. UNCHANGED <<hour, rows, queued, purse, notes, uses, crashes>>
  BY DEF Header, Body, Mark, bad
<1>3. Grows
  BY <1>2, StaysGrows DEF rows
<1>4. RowsRight' /\ PurseRight'
  BY <1>2 DEF rows, purse, uses, TypeInv, RowsRight, PurseRight
<1>5. ASSUME LocalsRight', BoxRight', faults' \in 0..MaxFaults
      PROVE  TypeInv'
  BY <1>2, <1>4, <1>5 DEF TypeInv, CountsRight, NotesRight, notes, uses
<1>6. ASSUME Fault, AfterFlush(p), UNCHANGED <<outbox, told>>
      PROVE  TypeInv'
  <2>1. LocalsRight'
    BY <1>3, <1>6, AfterFlushMoves
  <2>2. faults' \in 0..MaxFaults
    BY <1>6, NumbersAssumption DEF TypeInv, CountsRight, NotesRight, notes, Fault
  <2>3. BoxRight'
    BY <1>2, <1>6 DEF TypeInv, BoxRight
  <2> QED
    BY <1>5, <2>1, <2>2, <2>3
<1>7. ctx[p].batch \subseteq 1..queued /\ ctx[p].left \subseteq ctx[p].batch
  BY <1>1 DEF Local
<1>8. CASE Header(p)
  <2> DEFINE all == Cardinality(ctx[p].batch) > BodyLimit
  <2>1. ASSUME Goto(p, IF all THEN "mark" ELSE "body", ctx[p]),
               told' = IF all THEN told \cup ctx[p].batch ELSE told,
               UNCHANGED <<outbox, faults>>
        PROVE  TypeInv'
    <3>1. BoxRight'
      BY <1>2, <1>7, <2>1 DEF TypeInv, BoxRight
    <3>2. faults' \in 0..MaxFaults
      BY <2>1 DEF TypeInv, CountsRight, NotesRight, notes
    <3>3. Local(pc[p], ctx[p], shown', queued')
      BY <1>3, OwnLocalGrows
    <3>4. Local(IF all THEN "mark" ELSE "body", ctx[p], shown', queued')
      BY <1>8, <3>3 DEF Header, Local, Alerting, Flushing, Inside
    <3>5. (IF all THEN "mark" ELSE "body") \in PCs
      BY DEF PCs
    <3> HIDE DEF all
    <3>6. LocalsRight'
      BY <1>1, <1>3, <2>1, <3>4, <3>5, GotoMoves
    <3> QED
      BY <1>5, <3>1, <3>2, <3>6
  <2> QED
    BY <1>6, <1>8, <2>1 DEF Header
<1>9. CASE Body(p)
  <2> DEFINE n == Min(ctx[p].left)
             c == [ctx[p] EXCEPT !.left = @ \ {n}]
             l == IF ctx[p].left = {n} THEN "mark" ELSE "body"
  <2>1. ctx[p].left # {} /\ ctx[p].left \in SUBSET Nat
    BY <1>1, <1>9 DEF Body, Local, Context
  <2>2. n \in ctx[p].left
    BY <2>1, MinExists
  <2>3. ASSUME told' = told \cup {n}, Goto(p, l, c), UNCHANGED <<outbox, faults>>
        PROVE  TypeInv'
    <3>1. BoxRight'
      BY <1>2, <1>7, <2>2, <2>3 DEF TypeInv, BoxRight
    <3>2. faults' \in 0..MaxFaults
      BY <2>3 DEF TypeInv, CountsRight, NotesRight, notes
    <3>3. Local(pc[p], ctx[p], shown', queued')
      BY <1>3, OwnLocalGrows
    <3>4. c \in Context
      BY <1>1, <2>1 DEF Context
    <3>5. Local(l, c, shown', queued')
      <4> HIDE DEF n
      <4> QED
        BY <1>1, <2>2, <3>3 DEF Local, Context, Alerting, Flushing, Inside
    <3>6. l \in PCs
      BY DEF PCs
    <3> HIDE DEF c, l, n
    <3>7. LocalsRight'
      BY <1>3, <2>3, <3>4, <3>5, <3>6, GotoMoves
    <3> QED
      BY <1>5, <3>1, <3>2, <3>7
  <2> QED
    BY <1>6, <1>9, <2>3 DEF Body
<1>10. CASE Mark(p)
  <2>1. LocalsRight'
    BY <1>3, <1>10, AfterFlushMoves DEF Mark
  <2>2. BoxRight' /\ faults' \in 0..MaxFaults
    BY <1>2, <1>10 DEF Mark, TypeInv, BoxRight, CountsRight, NotesRight, notes, bad
  <2> QED
    BY <1>5, <2>1, <2>2
<1> QED
  BY <1>8, <1>9, <1>10

\* So does the start of a pass.
LEMMA StartPassTypes ==
  ASSUME TypeInv, StartPass
  PROVE  TypeInv'
<1>1. UNCHANGED <<hour, rows, box, purse, notes, uses, bad>> /\ FlushThen(Job, "run", Nothing)
  BY DEF StartPass
<1>2. Grows
  BY <1>1, StaysGrows DEF rows, box
<1>3. "run" \in PCs \ Inside /\ Job \in Procs
  BY DEF PCs, Flushing, Inside, Procs
<1>4. LocalsRight'
  BY <1>1, <1>2, <1>3, NothingIsRight, FlushMoves
<1>5. RowsRight'
  BY <1>1 DEF rows, uses, TypeInv, RowsRight
<1> QED
  BY <1>1, <1>4, <1>5 DEF TypeInv, BoxRight, PurseRight, CountsRight, NotesRight, notes, rows, box, purse, bad, uses

\* Rows that are written all at once, none of which counts or owns anything new.
LEMMA RowsMarked ==
  ASSUME TypeInv, UNCHANGED <<shown, reports>>, row' \in [Events -> Event],
         \A e \in Events : row'[e].count = row[e].count /\ row'[e].msg = row[e].msg
  PROVE  RowsRight'
BY DEF TypeInv, RowsRight

\* So does a resolution.
LEMMA ResolveTypes ==
  ASSUME TypeInv, Resolve
  PROVE  TypeInv'
<1> DEFINE open == {e \in Fetch : row[e].state \in {"unacked", "acked"}}
           todo == {<<e, row[e].msg>> : e \in {d \in open : row[d].msg # 0}}
           gone(e) == [row[e] EXCEPT !.state = "resolved", !.streak = 0]
<1>1. UNCHANGED <<hour, shown, box, purse, uses, bad>> /\ NotesRight'
  BY EventsAssumption DEF Resolve, TypeInv, CountsRight, NotesRight
<1>2. Grows /\ Job \in Procs
  BY <1>1, StaysGrows DEF box, Procs
<1>3. \A e \in Events : row[e] \in Event /\ row[e].msg \in Nat /\ row[e].msg <= Len(shown[e])
  BY DEF TypeInv, RowsRight, Event
<1>4. \A e \in Events : gone(e) \in Event /\ gone(e).count = row[e].count /\ gone(e).msg = row[e].msg
  BY <1>3 DEF Event, States
<1>5. row' = [e \in Events |-> IF e \in open THEN gone(e) ELSE row[e]]
  BY DEF Resolve
<1>6. RowsRight'
  <2> HIDE DEF open, gone
  <2>1. row' \in [Events -> Event]
        /\ \A e \in Events : row'[e].count = row[e].count /\ row'[e].msg = row[e].msg
    BY <1>3, <1>4, <1>5
  <2> QED
    BY <1>1, <2>1, RowsMarked DEF uses
<1>7. \A t \in todo : t \in Events \X Nat /\ t[2] <= Len(shown'[t[1]])
  BY <1>1, <1>3, EventsAssumption
<1>8. LocalsRight'
  <2>1. CASE todo = {}
    <3>1. Done(Job)
      BY <2>1 DEF Resolve
    <3> QED
      BY <1>2, <3>1, DoneMoves
  <2>2. CASE todo # {}
    <3>1. PICK t \in todo :
            Goto(Job, "edit", [Nothing EXCEPT !.event = t[1], !.msg = t[2],
                                              !.todo = todo \ {t}, !.text = "resolved"])
      BY <2>2 DEF Resolve
    <3> HIDE DEF todo
    <3> DEFINE c == [Nothing EXCEPT !.event = t[1], !.msg = t[2],
                                    !.todo = todo \ {t}, !.text = "resolved"]
    <3>2. t[1] \in Events /\ t[2] \in Nat /\ t[2] <= Len(shown'[t[1]])
      BY <1>7
    <3>3. todo \in SUBSET (Events \X Nat)
      BY <1>7
    <3>4. c \in Context
      BY <3>2, <3>3, NothingIsRight DEF Context, States
    <3>5. /\ c.now = 0 /\ c.raw = None /\ c.batch = {} /\ c.left = {} /\ c.then = "off"
          /\ c.event = t[1] /\ c.msg = t[2] /\ c.todo = todo \ {t}
      BY DEF Nothing
    <3>6. Goto(Job, "edit", c) /\ "edit" \in PCs
      BY <3>1 DEF PCs
    <3> HIDE DEF c
    <3>7. Local("edit", c, shown', queued')
      BY <1>7, <3>2, <3>5, NoneAssumption, NumbersAssumption DEF Local, Alerting, Flushing, Inside, PCs
    <3> QED
      BY <1>2, <3>4, <3>6, <3>7, GotoMoves
  <2> QED
    BY <2>1, <2>2
<1> QED
  BY <1>1, <1>6, <1>8 DEF TypeInv, BoxRight, PurseRight, CountsRight, NotesRight, notes, box, purse, bad, uses

\* So does the deletion of old events, which nobody has in hand.
LEMMA EndPassTypes ==
  ASSUME TypeInv, EndPass
  PROVE  TypeInv'
<1>1. UNCHANGED <<hour, box, purse, uses, bad>> /\ Goto(Job, "off", Nothing)
  BY DEF EndPass
<1>2. PICK Old \in SUBSET {e \in Events : row[e].state = "resolved"
                                          /\ \A p \in Procs : e \notin InHand(p)} :
        /\ row' = [e \in Events |-> IF e \in Old THEN Absent ELSE row[e]]
        /\ shown' = [e \in Events |-> IF e \in Old THEN <<>> ELSE shown[e]]
        /\ extra' = [e \in Events |-> IF e \in Old THEN 0 ELSE extra[e]]
        /\ blurred' = blurred \ Old
  BY DEF EndPass
<1>10. NotesRight'
  BY <1>2 DEF TypeInv, CountsRight, NotesRight
<1>3. row \in [Events -> Event] /\ shown \in [Events -> Seq(States)] /\ reports \in Nat
      /\ queued \in Nat /\ pc \in [Procs -> PCs] /\ ctx \in [Procs -> Context] /\ Job \in Procs
  BY DEF TypeInv, RowsRight, CountsRight, NotesRight, notes, BoxRight, LocalsRight, Procs
<1>4. Absent \in Event /\ Absent.count = 0 /\ Absent.msg = 0
  BY NoneAssumption DEF Absent, Event, States
<1>5. <<>> \in Seq(States) /\ Len(<<>>) = 0
  OBVIOUS
<1>6. shown' \in [Events -> Seq(States)]
  BY <1>2, <1>3, <1>5
<1>7. RowsRight'
  <2>1. row' \in [Events -> Event]
    BY <1>2, <1>3, <1>4
  <2>2. ASSUME NEW e \in Events
        PROVE  row'[e].count <= reports' /\ row'[e].msg <= Len(shown'[e])
    <3>1. reports' = reports
      BY <1>1 DEF uses
    <3>2. CASE e \in Old
      <4>1. row'[e] = Absent /\ shown'[e] = <<>>
        BY <1>2, <3>2
      <4> QED
        BY <1>3, <1>4, <1>5, <3>1, <4>1
    <3>3. CASE e \notin Old
      <4>1. row'[e] = row[e] /\ shown'[e] = shown[e]
        BY <1>2, <3>3
      <4> QED
        BY <3>1, <4>1 DEF TypeInv, RowsRight
    <3> QED
      BY <3>2, <3>3
  <2> QED
    BY <1>6, <2>1, <2>2 DEF RowsRight
<1>8. ASSUME NEW q \in Procs PROVE Local(pc'[q], ctx'[q], shown', queued')
  <2>1. CASE q = Job
    <3>1. pc'[q] = "off" /\ ctx'[q] = Nothing
      BY <1>1, <1>3, <2>1 DEF Goto
    <3> QED
      BY <3>1, NothingIsRight
  <2>2. CASE q # Job
    <3>1. pc'[q] = pc[q] /\ ctx'[q] = ctx[q]
      BY <1>1, <1>3, <2>2 DEF Goto
    <3>2. ASSUME NEW e \in Events, e = ctx[q].event \/ \E t \in ctx[q].todo : t[1] = e
          PROVE  Len(shown[e]) <= Len(shown'[e])
      <4>1. e \in InHand(q)
        BY <3>2, NoneAssumption DEF InHand
      <4>2. shown'[e] = shown[e]
        BY <1>2, <4>1
      <4> QED
        BY <4>2, LengthsKnown
    <3>3. pc[q] \in PCs /\ ctx[q] \in Context /\ Local(pc[q], ctx[q], shown, queued)
      BY LocalKnown
    <3>4. queued' \in Nat /\ queued <= queued'
      BY <1>1, <1>3 DEF box
    <3>5. \A e \in Events : (e = ctx[q].event \/ \E t \in ctx[q].todo : t[1] = e)
                            => Len(shown[e]) <= Len(shown'[e])
      BY <3>2
    <3>6. Local(pc[q], ctx[q], shown', queued')
      BY <1>3, <1>6, <3>3, <3>4, <3>5, LocalGrows, Zenon
    <3> QED
      BY <3>1, <3>6
  <2> QED
    BY <2>1, <2>2
<1>9. LocalsRight'
  BY <1>1, <1>3, <1>8, NothingIsRight DEF LocalsRight, Goto, PCs
<1> QED
  BY <1>1, <1>2, <1>7, <1>9, <1>10 DEF TypeInv, BoxRight, PurseRight, CountsRight, box, purse, bad, uses

\* So does an ack.
LEMMA AckTypes ==
  ASSUME TypeInv, NEW h \in Handlers, NEW e \in Events, Ack(h, e)
  PROVE  TypeInv'
<1> DEFINE r == [row[e] EXCEPT !.state = "acked", !.acker = h]
           c == [Nothing EXCEPT !.event = e, !.msg = row[e].msg, !.text = "acked"]
<1>1. UNCHANGED <<hour, shown, box, purse, uses, bad>> /\ NotesRight'
  BY DEF Ack, TypeInv, CountsRight, NotesRight, notes
<1>2. Grows /\ h \in Procs
  BY <1>1, StaysGrows DEF box, Procs
<1>3. row[e] \in Event /\ row[e].count <= reports /\ row[e].msg <= Len(shown[e])
      /\ reports \in Nat /\ row \in [Events -> Event] /\ row[e].msg \in Nat
  BY DEF TypeInv, RowsRight, CountsRight, NotesRight, notes, Event
<1>4. r \in Event /\ r.count = row[e].count /\ r.msg = row[e].msg
  BY <1>3 DEF Event, States
<1>5. row' = [row EXCEPT ![e] = r]
  BY DEF Ack
<1>6. RowsRight'
  <2>1. reports' \in Nat /\ reports <= reports' /\ r.count <= reports' /\ r.msg <= Len(shown'[e])
    BY <1>1, <1>3, <1>4 DEF uses
  <2> HIDE DEF r
  <2> QED
    BY <1>2, <1>4, <1>5, <2>1, RowWritten, Zenon
<1>7. c \in Context
  BY <1>3, NothingIsRight DEF Context, States
<1>8. Local("edit", c, shown', queued')
  BY <1>1, <1>3, NoneAssumption, NumbersAssumption DEF Local, Nothing, Alerting, Flushing, Inside, PCs
<1>9. LocalsRight'
  <2>1. CASE row[e].msg = 0
    BY <1>2, <2>1, DoneMoves DEF Ack
  <2>2. CASE row[e].msg # 0
    <3>1. Goto(h, "edit", c) /\ "edit" \in PCs
      BY <2>2 DEF Ack, PCs
    <3> HIDE DEF c
    <3> QED
      BY <1>2, <1>7, <1>8, <3>1, GotoMoves
  <2> QED
    BY <2>1, <2>2
<1> QED
  BY <1>1, <1>6, <1>9 DEF TypeInv, BoxRight, PurseRight, CountsRight, NotesRight, notes, box, purse, bad, uses

\* So does an ack of all.
LEMMA AckAllTypes ==
  ASSUME TypeInv, NEW h \in Handlers, AckAll(h)
  PROVE  TypeInv'
<1> DEFINE acked(e) == [row[e] EXCEPT !.state = "acked", !.acker = h]
<1>1. UNCHANGED <<hour, shown, box, purse, notes, uses, bad, pc, ctx>>
  BY DEF AckAll
<1>2. LocalsRight'
  BY <1>1, StaysGrows, StayMoves DEF box
<1>3. \A e \in Events : row[e] \in Event
  BY DEF TypeInv, RowsRight
<1>4. \A e \in Events : acked(e) \in Event /\ acked(e).count = row[e].count /\ acked(e).msg = row[e].msg
  BY <1>3 DEF Event, States
<1>5. row' = [e \in Events |-> IF row[e].state = "unacked" /\ row[e].acker = None
                               THEN acked(e) ELSE row[e]]
  BY DEF AckAll
<1> HIDE DEF acked
<1>6. row' \in [Events -> Event]
      /\ \A e \in Events : row'[e].count = row[e].count /\ row'[e].msg = row[e].msg
  BY <1>3, <1>4, <1>5
<1>7. RowsRight'
  BY <1>1, <1>6, RowsMarked DEF uses
<1> QED
  BY <1>1, <1>2, <1>7 DEF TypeInv, BoxRight, PurseRight, CountsRight, NotesRight, notes, box, purse, bad, uses

\* So does a mute.
LEMMA MuteTypes ==
  ASSUME TypeInv, NEW h \in Handlers, Mute(h)
  PROVE  TypeInv'
<1> DEFINE muted(e, u) == [row[e] EXCEPT !.until = u]
<1>1. UNCHANGED <<hour, shown, box, purse, notes, reports, bad, pc, ctx>>
      /\ mutes' \in 0..MaxMutes
  BY NumbersAssumption DEF Mute, TypeInv, CountsRight, NotesRight, notes
<1>2. LocalsRight'
  BY <1>1, StaysGrows, StayMoves DEF box
<1>3. \A e \in Events : row[e] \in Event
  BY DEF TypeInv, RowsRight
<1>4. \A e \in Events, u \in {0, hour + 1} :
        muted(e, u) \in Event /\ muted(e, u).count = row[e].count /\ muted(e, u).msg = row[e].msg
  BY <1>3, NumbersAssumption DEF Event, TypeInv, CountsRight, NotesRight, notes
<1>5. PICK S \in {{e} : e \in Events} \cup {Fetch}, u \in {0, hour + 1} :
        row' = [e \in Events |-> IF e \in S /\ row[e].state # "none"
                                THEN muted(e, u) ELSE row[e]]
  BY DEF Mute
<1> HIDE DEF muted
<1>6. row' \in [Events -> Event]
      /\ \A e \in Events : row'[e].count = row[e].count /\ row'[e].msg = row[e].msg
  BY <1>3, <1>4, <1>5
<1>7. RowsRight'
  BY <1>1, <1>6, RowsMarked
<1> QED
  BY <1>1, <1>2, <1>7 DEF TypeInv, BoxRight, PurseRight, CountsRight, NotesRight, notes, box, purse, bad

\* So does a crash.
LEMMA CrashTypes ==
  ASSUME TypeInv, NEW p \in Procs, Crash(p)
  PROVE  TypeInv'
<1>1. UNCHANGED <<hour, rows, box, purse, uses, faults>> /\ Goto(p, "off", Nothing)
      /\ crashes' \in 0..MaxCrashes
  BY NumbersAssumption DEF Crash, TypeInv, CountsRight, NotesRight, notes
<1>2. Grows
  BY <1>1, StaysGrows DEF rows, box
<1>3. "off" \in PCs
  BY DEF PCs
<1>4. LocalsRight'
  BY <1>1, <1>2, <1>3, NothingIsRight, GotoMoves
<1>5. ctx[p].event \in Events \cup {None} /\ \A t \in ctx[p].todo : t[1] \in Events
  BY LocalKnown DEF Context
<1>6. NotesRight'
  <2>1. InHand(p) \subseteq Events /\ extra \in [Events -> Nat] /\ blurred \subseteq Events
    BY <1>5 DEF InHand, TypeInv, CountsRight, NotesRight
  <2>2. blurred' \subseteq Events
    BY <2>1 DEF Crash, Blur
  <2>3. extra' \in [Events -> Nat]
    <3>1. CASE Sent(p)
      <4>1. ctx[p].event \in Events /\ Extra(ctx[p].event)
        BY <3>1, LocalKnown DEF Crash, Sent, Local, Alerting, Flushing, PCs, Context
      <4>2. extra[ctx[p].event] + 1 \in Nat
        BY <2>1, <4>1
      <4> QED
        BY <2>1, <4>1, <4>2 DEF Extra
    <3>2. CASE ~Sent(p)
      BY <2>1, <3>2 DEF Crash
    <3> QED
      BY <3>1, <3>2
  <2> QED
    BY <2>2, <2>3 DEF NotesRight
<1>7. RowsRight'
  BY <1>1 DEF rows, uses, TypeInv, RowsRight
<1> QED
  BY <1>1, <1>4, <1>6, <1>7 DEF TypeInv, BoxRight, PurseRight, CountsRight, NotesRight, notes, rows, box, purse, uses

\* So does the time that passes.
LEMMA TickTypes ==
  ASSUME TypeInv, Tick
  PROVE  TypeInv'
<1>1. UNCHANGED <<rows, box, purse, notes, uses, bad, pc, ctx>> /\ hour' \in 0..MaxHour
  BY NumbersAssumption DEF Tick, TypeInv, CountsRight, NotesRight, notes
<1>2. LocalsRight'
  BY <1>1, StaysGrows, StayMoves DEF rows, box
<1>3. RowsRight'
  BY <1>1 DEF rows, uses, TypeInv, RowsRight
<1> QED
  BY <1>1, <1>2, <1>3 DEF TypeInv, BoxRight, PurseRight, CountsRight, NotesRight, notes, rows, box, purse, bad, uses

\* What p does by itself keeps the types.
LEMMA StepTypes ==
  ASSUME TypeInv, NEW p \in Procs, Step(p)
  PROVE  TypeInv'
BY EscalateTypes, ReadBudgetTypes, SpendTypes, NoticeTypes, WarnTypes, SendTypes, NotedTypes,
   EditTypes, FlushTypes DEF Step

\* Every step keeps the types.
LEMMA TypeStep ==
  ASSUME TypeInv, [Next]_vars
  PROVE  TypeInv'
<1>1. CASE Pass
  <2>1. Job \in Procs
    BY DEF Procs
  <2> QED
    BY <1>1, <2>1, StartPassTypes, ResolveTypes, EndPassTypes, StepTypes, RecordTypes DEF Pass
<1>2. CASE Tick
  BY <1>2, TickTypes
<1>3. ASSUME NEW h \in Handlers, Request(h) \/ Step(h) PROVE TypeInv'
  <2>1. h \in Procs
    BY DEF Procs
  <2> QED
    BY <1>3, <2>1, RecordTypes, AckTypes, AckAllTypes, MuteTypes, StepTypes DEF Request
<1>4. ASSUME NEW p \in Procs, Crash(p) PROVE TypeInv'
  BY <1>4, CrashTypes
<1>5. CASE UNCHANGED vars
  <2>1. UNCHANGED <<row, shown, outbox, queued, told, budget, booked, raced, hour, extra, blurred,
                    reports, mutes, faults, crashes, pc, ctx>>
    BY <1>5 DEF vars, rows, box, purse, notes, uses, bad
  <2> QED
    BY <2>1 DEF TypeInv, LocalsRight, RowsRight, BoxRight, PurseRight, CountsRight, NotesRight
<1> QED
  BY <1>1, <1>2, <1>3, <1>4, <1>5 DEF Next

\* The types hold at first.
LEMMA TypeInit ==
  ASSUME Init
  PROVE  TypeInv
<1>1. LocalsRight
  BY NothingIsRight DEF Init, LocalsRight, PCs
<1>2. RowsRight
  <2>1. Absent \in Event /\ Absent.count = 0 /\ Absent.msg = 0
    BY NoneAssumption DEF Absent, Event, States
  <2>2. <<>> \in Seq(States) /\ Len(<<>>) = 0
    OBVIOUS
  <2> QED
    BY <2>1, <2>2 DEF Init, RowsRight
<1>3. BoxRight /\ PurseRight /\ CountsRight
  BY NumbersAssumption DEF Init, BoxRight, PurseRight, CountsRight, NotesRight, notes
<1> QED
  BY <1>1, <1>2, <1>3 DEF TypeInv

\* The types hold always.
LEMMA TypesAlways == Spec => []TypeInv
BY TypeInit, TypeStep, PTL DEF Spec

\* Every variable keeps its type, no row owns a message that was not sent, and
\* none counts more errors than there were.
THEOREM TypeCorrect == Spec => []TypeOK
<1>1. TypeInv => TypeOK
  BY DEF TypeInv, LocalsRight, RowsRight, BoxRight, PurseRight, CountsRight, NotesRight, notes, TypeOK
<1> QED
  BY <1>1, TypesAlways, PTL

-----------------------------------------------------------------------------
(* The first acker.                                                        *)

\* Whoever acked an event first stays its acker until it is forgotten.
THEOREM FirstAckerStands == Spec => AckerStands
<1> DEFINE Stands == \A e \in Events : row[e].acker # None =>
                       row'[e].acker = row[e].acker \/ row'[e].state = "none"
<1>1. ASSUME TypeInv, [Next]_vars PROVE Stands
  <2>1. ASSUME NEW p \in Procs, NEW e \in Events, Record(p, e) PROVE Stands
    <3>1. row' = [row EXCEPT ![e] = Recorded(row[e])] /\ row \in [Events -> Event]
      BY <1>1, <2>1 DEF Record, TypeInv, RowsRight
    <3>2. Recorded(row[e]).acker = row[e].acker
      BY <3>1 DEF Recorded, Event
    <3> QED
      BY <3>1, <3>2
  <2>2. ASSUME NEW p \in Procs, Step(p) PROVE Stands
    <3>1. row \in [Events -> Event]
      BY <1>1 DEF TypeInv, RowsRight
    <3>2. \A e \in Events : row'[e].acker = row[e].acker
      <4>1. CASE Escalate(p)
        BY <3>1, <4>1 DEF Escalate, Event
      <4>2. CASE Own(p)
        BY <3>1, <4>2 DEF Own, Event
      <4>3. CASE Adopt(p)
        BY <3>1, <4>3 DEF Adopt, Event
      <4>4. CASE Count(p)
        BY <3>1, <4>4 DEF Count, Event
      <4>5. CASE ReadBudget(p) \/ Spend(p) \/ Notice(p) \/ Warn(p)
                 \/ Header(p) \/ Body(p) \/ Mark(p)
        BY <4>5 DEF ReadBudget, Spend, Notice, Warn, Header, Body, Mark, rows
      <4>6. CASE Send(p) \/ Edit(p) \/ Resend(p)
        BY <4>6 DEF Send, Edit, Resend, SendFresh
      <4> QED
        BY <2>2, <4>1, <4>2, <4>3, <4>4, <4>5, <4>6 DEF Step
    <3> QED
      BY <3>2
  <2>3. CASE StartPass \/ Tick
    BY <2>3 DEF StartPass, Tick, rows
  <2>4. CASE Resolve
    BY <1>1, <2>4 DEF Resolve, TypeInv, RowsRight, Event
  <2>5. CASE EndPass
    BY <2>5 DEF EndPass, Absent
  <2>6. ASSUME NEW h \in Handlers, NEW e \in Events, Ack(h, e) PROVE Stands
    BY <1>1, <2>6 DEF Ack, TypeInv, RowsRight, Event
  <2>7. ASSUME NEW h \in Handlers, AckAll(h) PROVE Stands
    BY <1>1, <2>7 DEF AckAll, TypeInv, RowsRight, Event
  <2>8. ASSUME NEW h \in Handlers, Mute(h) PROVE Stands
    BY <1>1, <2>8 DEF Mute, TypeInv, RowsRight, Event
  <2>9. ASSUME NEW p \in Procs, Crash(p) PROVE Stands
    BY <2>9 DEF Crash, rows
  <2>10. CASE UNCHANGED vars
    BY <2>10 DEF vars, rows
  <2>11. Job \in Procs /\ Handlers \subseteq Procs
    BY DEF Procs
  <2> HIDE DEF Stands
  <2>12. CASE Pass
    BY <2>1, <2>2, <2>3, <2>4, <2>5, <2>11, <2>12 DEF Pass
  <2>13. ASSUME NEW h \in Handlers, Request(h) \/ Step(h) PROVE Stands
    BY <2>1, <2>2, <2>6, <2>7, <2>8, <2>11, <2>13 DEF Request
  <2> QED
    BY <1>1, <2>3, <2>9, <2>10, <2>12, <2>13 DEF Next
<1>2. TypeInv /\ [Next]_vars => [Stands]_vars
  BY <1>1
<1>3. Spec => [][Stands]_vars
  BY <1>2, TypesAlways, PTL DEF Spec
<1> QED
  BY <1>3 DEF AckerStands

-----------------------------------------------------------------------------
(* Where processes go.                                                     *)

\* p goes somewhere where it is not about to send, to mark or to write.
Goes(p) == \E l, c : l \notin {"body", "mark", "spend", "notice"} /\ Goto(p, l, c)

\* What p does to the others: nothing.
Alone(p) == \A q \in Procs \ {p} : pc'[q] = pc[q] /\ ctx'[q] = ctx[q]

\* A process that goes somewhere goes alone.
LEMMA GotoAlone ==
  ASSUME TypeInv, NEW p \in Procs, NEW l, NEW c, Goto(p, l, c)
  PROVE  Alone(p) /\ pc'[p] = l /\ ctx'[p] = c
BY DEF TypeInv, LocalsRight, Goto, Alone

\* So does one that goes elsewhere.
LEMMA GoesAlone ==
  ASSUME TypeInv, NEW p \in Procs, Goes(p)
  PROVE  Alone(p) /\ pc'[p] \notin {"body", "mark", "spend", "notice"}
BY GotoAlone DEF Goes

\* A process that is done goes elsewhere.
LEMMA DoneGoes ==
  ASSUME NEW p \in Procs, Done(p)
  PROVE  Goes(p)
BY HubIsRight DEF Done, Goes

\* A flush that begins goes elsewhere.
LEMMA FlushGoes ==
  ASSUME NEW p \in Procs, NEW l \in PCs \ Inside, NEW c, FlushThen(p, l, c)
  PROVE  Goes(p)
BY DEF FlushThen, Goes, Inside, Flushing

\* A flush that ends goes elsewhere.
LEMMA AfterFlushGoes ==
  ASSUME TypeInv, NEW p \in Procs, AfterFlush(p)
  PROVE  Goes(p)
BY LocalKnown DEF AfterFlush, Goes, Local, Inside, Flushing

\* A resolution that goes on goes elsewhere.
LEMMA GoOnGoes ==
  ASSUME NEW p \in Procs, GoOn(p)
  PROVE  Goes(p)
BY DoneGoes DEF GoOn, Goes

\* An edit that worked goes elsewhere.
LEMMA EditedGoes ==
  ASSUME NEW p \in Procs, Edited(p)
  PROVE  Goes(p)
BY GoOnGoes DEF Edited, Goes

\* A message that is sent goes elsewhere.
LEMMA SendFreshGoes ==
  ASSUME NEW p \in Procs, NEW l \in {"own", "adopt"}, SendFresh(p, l)
  PROVE  Goes(p)
<1>1. l \in PCs \ Inside
  BY DEF PCs, Inside, Flushing
<1> QED
  BY <1>1, FlushGoes, GoOnGoes DEF SendFresh

\* Only three steps lead to where something is sent, marked or written next.
LEMMA StepGoes ==
  ASSUME TypeInv, NEW p \in Procs, Step(p)
  PROVE  Goes(p) \/ Header(p) \/ Body(p) \/ ReadBudget(p)
<1>1. CASE Escalate(p)
  <2>1. ctx[p].then \notin Inside
    BY LocalKnown DEF Local
  <2> QED
    BY <1>1, <2>1, DoneGoes DEF Escalate, Goes, Inside, Flushing
<1>2. CASE Spend(p) \/ Notice(p)
  BY <1>2 DEF Spend, Notice, Goes
<1>3. CASE Warn(p)
  <2>1. Hub(p) \in PCs \ Inside
    BY HubIsRight DEF Inside, Flushing
  <2> QED
    BY <1>3, <2>1, FlushGoes, DoneGoes DEF Warn
<1>4. CASE Send(p) \/ Resend(p)
  BY <1>4, SendFreshGoes DEF Send, Resend
<1>5. CASE Own(p) \/ Count(p)
  BY <1>5, DoneGoes DEF Own, Count
<1>6. CASE Edit(p)
  <2>1. Edited(p) \/ GoOn(p) \/ Goto(p, "resend", ctx[p])
    BY <1>6 DEF Edit
  <2> QED
    BY <2>1, EditedGoes, GoOnGoes DEF Goes
<1>7. CASE Adopt(p)
  BY <1>7, EditedGoes DEF Adopt
<1>8. CASE Mark(p)
  BY <1>8, AfterFlushGoes DEF Mark
<1> QED
  BY <1>1, <1>2, <1>3, <1>4, <1>5, <1>6, <1>7, <1>8 DEF Step

\* Every step of p leaves the others alone.
LEMMA StepAlone ==
  ASSUME TypeInv, NEW p \in Procs, Step(p)
  PROVE  Alone(p)
<1>1. CASE Goes(p)
  BY <1>1, GoesAlone
<1>2. CASE Header(p)
  BY <1>2, GotoAlone DEF Header, AfterFlush
<1>3. CASE Body(p)
  BY <1>3, GotoAlone DEF Body, AfterFlush
<1>4. CASE ReadBudget(p)
  BY <1>4, GotoAlone DEF ReadBudget, Done
<1> QED
  BY <1>1, <1>2, <1>3, <1>4, StepGoes

\* A report begins at the hub and goes elsewhere.
LEMMA RecordGoes ==
  ASSUME NEW p \in Procs, NEW e \in Events, Record(p, e)
  PROVE  pc[p] = Hub(p) /\ Goes(p)
<1> DEFINE new == Recorded(row[e])
           r == [new EXCEPT !.raised = @ \/ Escalates(e, new)]
           notifying == Notifying(r, Escalates(e, new), hour)
           to == Route(p, e, r, notifying, hour)
<1>1. to \in {"off", "run", "budget", "edit", "send"}
  BY RouteKnown, HubIsRight
<1>2. \E l \in {"escalate", to} : \E c : Goto(p, l, c)
  BY DEF Record
<1> HIDE DEF to
<1> QED
  BY <1>1, <1>2 DEF Record, Goes

\* Where the rest of the actions lead.
LEMMA OthersGo ==
  ASSUME NEW p \in Procs,
         \/ p = Job /\ (StartPass \/ Resolve \/ EndPass)
         \/ p \in Handlers /\ \E e \in Events : Ack(p, e)
         \/ Crash(p)
  PROVE  Goes(p)
<1>1. CASE p = Job /\ StartPass
  <2>1. "run" \in PCs \ Inside
    BY DEF PCs, Inside, Flushing
  <2> QED
    BY <1>1, <2>1, FlushGoes DEF StartPass
<1>2. CASE p = Job /\ Resolve
  BY <1>2, DoneGoes DEF Resolve, Goes
<1>3. CASE (p = Job /\ EndPass) \/ Crash(p)
  BY <1>3 DEF EndPass, Crash, Goes
<1>4. CASE p \in Handlers /\ \E e \in Events : Ack(p, e)
  BY <1>4, DoneGoes DEF Ack, Goes
<1> QED
  BY <1>1, <1>2, <1>3, <1>4

-----------------------------------------------------------------------------
(* What is marked was told.                                                *)

\* A flush has told what it is about to mark, and what it has sent so far.
Told(l, c, t) ==
  /\ l = "mark" => c.batch \subseteq t
  /\ l = "body" => c.batch \ c.left \subseteq t

ToldInv == NothingMarkedUntold /\ \A p \in Procs : Told(pc[p], ctx[p], told)

\* What a step of p must show for the invariant.
LEMMA ToldByOne ==
  ASSUME ToldInv, NEW p \in Procs, Alone(p), told \subseteq told', NothingMarkedUntold',
         Told(pc'[p], ctx'[p], told')
  PROVE  ToldInv'
<1>1. ASSUME NEW q \in Procs, q # p PROVE Told(pc'[q], ctx'[q], told')
  <2>1. pc'[q] = pc[q] /\ ctx'[q] = ctx[q]
    BY <1>1 DEF Alone
  <2>2. Told(pc[q], ctx[q], told)
    BY DEF ToldInv
  <2> QED
    BY <2>1, <2>2 DEF Told
<1> QED
  BY <1>1 DEF ToldInv

\* An entry that is queued is not marked.
LEMMA QueueUntold ==
  ASSUME TypeInv, ToldInv, Queue \/ UNCHANGED box
  PROVE  told \subseteq told' /\ NothingMarkedUntold'
BY DEF TypeInv, BoxRight, ToldInv, NothingMarkedUntold, Queue, box

\* A step that goes elsewhere keeps what was told.
LEMMA ElsewhereTold ==
  ASSUME TypeInv, ToldInv, NEW p \in Procs, Goes(p), Queue \/ UNCHANGED box
  PROVE  ToldInv'
<1>1. Told(pc'[p], ctx'[p], told')
  BY GoesAlone DEF Told
<1> QED
  BY <1>1, GoesAlone, QueueUntold, ToldByOne

\* The steps of a flush do.
LEMMA FlushTold ==
  ASSUME TypeInv, ToldInv, NEW p \in Procs, Header(p) \/ Body(p) \/ Mark(p)
  PROVE  ToldInv'
<1>1. queued' = queued
  BY DEF Header, Body, Mark
<1>2. ctx[p] \in Context /\ Local(pc[p], ctx[p], shown, queued) /\ Told(pc[p], ctx[p], told)
  BY LocalKnown DEF ToldInv
<1>3. ASSUME AfterFlush(p), UNCHANGED <<outbox, told>> PROVE ToldInv'
  BY <1>1, <1>3, AfterFlushGoes, ElsewhereTold DEF box
<1>4. CASE Mark(p)
  <2>1. pc[p] = "mark" /\ outbox' = outbox \ ctx[p].batch /\ told' = told /\ AfterFlush(p)
    BY <1>4 DEF Mark
  <2>2. NothingMarkedUntold'
    BY <1>1, <1>2, <2>1 DEF ToldInv, NothingMarkedUntold, Told
  <2>3. Told(pc'[p], ctx'[p], told')
    BY <2>1, AfterFlushGoes, GoesAlone DEF Told
  <2> QED
    BY <2>1, <2>2, <2>3, AfterFlushGoes, GoesAlone, ToldByOne
<1>5. CASE Header(p)
  <2> DEFINE all == Cardinality(ctx[p].batch) > BodyLimit
  <2>1. ASSUME Goto(p, IF all THEN "mark" ELSE "body", ctx[p]),
               told' = IF all THEN told \cup ctx[p].batch ELSE told, outbox' = outbox
        PROVE  ToldInv'
    <3> HIDE DEF all
    <3>1. told \subseteq told' /\ NothingMarkedUntold'
      BY <1>1, <2>1 DEF ToldInv, NothingMarkedUntold
    <3>2. Alone(p) /\ pc'[p] = (IF all THEN "mark" ELSE "body") /\ ctx'[p] = ctx[p]
      BY <2>1, GotoAlone
    <3>3. ctx[p].left = ctx[p].batch
      BY <1>2, <1>5 DEF Header, Local
    <3>4. Told(pc'[p], ctx'[p], told')
      BY <2>1, <3>2, <3>3 DEF Told
    <3> QED
      BY <3>1, <3>2, <3>4, ToldByOne
  <2> QED
    BY <1>3, <1>5, <2>1 DEF Header
<1>6. CASE Body(p)
  <2> DEFINE n == Min(ctx[p].left)
             l == IF ctx[p].left = {n} THEN "mark" ELSE "body"
             c == [ctx[p] EXCEPT !.left = @ \ {n}]
  <2>1. ASSUME told' = told \cup {n}, Goto(p, l, c), outbox' = outbox
        PROVE  ToldInv'
    <3>1. told \subseteq told' /\ NothingMarkedUntold'
      BY <1>1, <2>1 DEF ToldInv, NothingMarkedUntold
    <3>2. Alone(p) /\ pc'[p] = l /\ ctx'[p] = c
      <4> HIDE DEF l, c
      <4> QED
        BY <2>1, GotoAlone
    <3>3. c.batch = ctx[p].batch /\ c.left = ctx[p].left \ {n}
      BY <1>2 DEF Context
    <3>4. ctx[p].batch \ ctx[p].left \subseteq told
      BY <1>2, <1>6 DEF Body, Told
    <3>5. Told(pc'[p], ctx'[p], told')
      <4> HIDE DEF n, c
      <4> QED
        BY <2>1, <3>2, <3>3, <3>4 DEF Told
    <3> QED
      BY <3>1, <3>2, <3>5, ToldByOne
  <2> QED
    BY <1>3, <1>6, <2>1 DEF Body
<1> QED
  BY <1>4, <1>5, <1>6

\* Every step does.
LEMMA ToldStep ==
  ASSUME TypeInv, ToldInv, [Next]_vars
  PROVE  ToldInv'
<1>1. ASSUME NEW p \in Procs, NEW e \in Events, Record(p, e) PROVE ToldInv'
  BY <1>1, RecordGoes, ElsewhereTold DEF Record
<1>2. ASSUME NEW p \in Procs, Step(p) PROVE ToldInv'
  <2>1. CASE Header(p) \/ Body(p) \/ Mark(p)
    BY <2>1, FlushTold
  <2>2. CASE ~(Header(p) \/ Body(p) \/ Mark(p))
    <3>1. Queue \/ UNCHANGED box
      BY <1>2, <2>2 DEF Step, Escalate, ReadBudget, Spend, Notice, Warn, Send, SendFresh, Own,
                        Edit, Resend, Adopt, Count
    <3>2. CASE Goes(p)
      BY <3>1, <3>2, ElsewhereTold
    <3>3. CASE ReadBudget(p)
      <4>1. \E l \in {"spend", "notice", Hub(p)} : \E c : Goto(p, l, c)
        BY <3>3 DEF ReadBudget, Done
      <4>2. Alone(p) /\ pc'[p] \notin {"body", "mark"}
        BY <4>1, HubIsRight, GotoAlone
      <4>3. told' = told
        BY <3>3 DEF ReadBudget, box
      <4> QED
        BY <3>1, <4>2, <4>3, QueueUntold, ToldByOne DEF Told
    <3> QED
      BY <1>2, <2>2, <3>2, <3>3, StepGoes
  <2> QED
    BY <2>1, <2>2
<1>3. ASSUME NEW p \in Procs,
             \/ p = Job /\ (StartPass \/ Resolve \/ EndPass)
             \/ p \in Handlers /\ \E e \in Events : Ack(p, e)
             \/ Crash(p)
      PROVE  ToldInv'
  <2>1. UNCHANGED box
    BY <1>3 DEF StartPass, Resolve, EndPass, Ack, Crash
  <2> QED
    BY <1>3, <2>1, OthersGo, ElsewhereTold
<1>4. ASSUME UNCHANGED <<box, pc, ctx>> PROVE ToldInv'
  BY <1>4 DEF ToldInv, NothingMarkedUntold, Told, box
<1>5. CASE Tick
  BY <1>4, <1>5 DEF Tick
<1>6. ASSUME NEW h \in Handlers, AckAll(h) \/ Mute(h) PROVE ToldInv'
  BY <1>4, <1>6 DEF AckAll, Mute
<1>7. CASE UNCHANGED vars
  BY <1>4, <1>7 DEF vars
<1>8. Job \in Procs /\ Handlers \subseteq Procs
  BY DEF Procs
<1>9. CASE Pass
  BY <1>1, <1>2, <1>3, <1>8, <1>9 DEF Pass
<1>10. ASSUME NEW h \in Handlers, Request(h) \/ Step(h) PROVE ToldInv'
  <2>1. h \in Procs
    BY <1>8
  <2> QED
    BY <1>1, <1>2, <1>3, <1>6, <1>10, <2>1 DEF Request
<1> QED
  BY <1>3, <1>5, <1>7, <1>9, <1>10 DEF Next

\* No entry of the outbox is marked delivered before the chat was told of it, with
\* entries queued in the meantime, flushes that overlap, and crashes in between.
THEOREM MarkedWasTold == Spec => []NothingMarkedUntold
<1>1. Init => ToldInv
  BY DEF Init, ToldInv, NothingMarkedUntold, Told
<1>2. ToldInv => NothingMarkedUntold
  BY DEF ToldInv
<1> QED
  BY <1>1, <1>2, TypesAlways, ToldStep, PTL DEF Spec

-----------------------------------------------------------------------------
(* Long streaks.                                                           *)

\* Two sets that differ in p at most.
LEMMA OneApart ==
  ASSUME NEW S, NEW T, NEW p, IsFiniteSet(S), T \ {p} = S \ {p}
  PROVE  /\ IsFiniteSet(T) /\ Cardinality(S) \in Nat /\ Cardinality(T) \in Nat
         /\ (p \in S <=> p \in T) => Cardinality(T) = Cardinality(S)
         /\ (p \notin S /\ p \in T) => Cardinality(T) = Cardinality(S) + 1
         /\ (p \in S /\ p \notin T) => Cardinality(T) = Cardinality(S) - 1
<1> DEFINE U == S \ {p}
<1>1. IsFiniteSet(U) /\ p \notin U /\ Cardinality(U) \in Nat
  BY FS_Subset, FS_CardinalityType
<1>2. IsFiniteSet(U \cup {p}) /\ Cardinality(U \cup {p}) = Cardinality(U) + 1
  BY <1>1, FS_AddElement
<1>3. S = IF p \in S THEN U \cup {p} ELSE U
  OBVIOUS
<1>4. T = IF p \in T THEN U \cup {p} ELSE U
  <2>1. T = IF p \in T THEN (T \ {p}) \cup {p} ELSE T \ {p}
    OBVIOUS
  <2> QED
    BY <2>1
<1> HIDE DEF U
<1>5. /\ p \in S => S = U \cup {p}
      /\ p \notin S => S = U
      /\ p \in T => T = U \cup {p}
      /\ p \notin T => T = U
  BY <1>3, <1>4, Zenon
<1>6. /\ p \in S => Cardinality(S) = Cardinality(U) + 1
      /\ p \notin S => Cardinality(S) = Cardinality(U)
  BY <1>2, <1>5, Zenon
<1>7. /\ p \in T => Cardinality(T) = Cardinality(U) + 1
      /\ p \notin T => Cardinality(T) = Cardinality(U)
      /\ IsFiniteSet(T)
  BY <1>1, <1>2, <1>5, Zenon
<1>8. Cardinality(U) \in Nat
  BY <1>1
<1> HIDE <1>1, <1>2, <1>3, <1>4
<1> QED
  BY <1>6, <1>7, <1>8

\* There are finitely many processes.
LEMMA ProcsAreFinite ==
  ASSUME NEW S \in SUBSET Procs
  PROVE  /\ IsFiniteSet(S) /\ Cardinality(S) \in Nat
         /\ S # {} => 1 <= Cardinality(S)
         /\ S = {} => Cardinality(S) = 0
<1>1. Procs = Handlers \cup {Job}
  BY DEF Procs
<1>2. IsFiniteSet(Procs)
  BY <1>1, ProcsAssumption, FS_AddElement
<1>3. IsFiniteSet(S) /\ Cardinality(S) \in Nat
  BY <1>2, FS_Subset, FS_CardinalityType
<1> QED
  BY <1>3, FS_EmptySet

\* Those that are about to raise the severity of e.
Waiting(e) == {q \in Procs : pc[q] = "escalate" /\ ctx[q].event = e}

\* A streak that is long has one occurrence for each crash and for each process that is about to
\* raise the severity, the first that was long included.
StreakSeen(e) ==
  (row[e].streak >= EscalateAfter /\ ~row[e].raised) =>
    row[e].streak + 1 <= EscalateAfter + crashes + Cardinality(Waiting(e))

\* How many they are is a number.
LEMMA WaitingKnown ==
  ASSUME NEW e
  PROVE  /\ Cardinality(Waiting(e)) \in Nat /\ Cardinality(Waiting(e)') \in Nat
         /\ Waiting(e) # {} => 1 <= Cardinality(Waiting(e))
         /\ Waiting(e) = {} => Cardinality(Waiting(e)) = 0
<1>1. Waiting(e) \in SUBSET Procs /\ Waiting(e)' \in SUBSET Procs
  BY DEF Waiting
<1> QED
  BY <1>1, ProcsAreFinite

\* A step of p alone makes a difference of one.
LEMMA WaitingMoves ==
  ASSUME NEW p \in Procs, Alone(p), NEW e
  PROVE  /\ (pc[p] = "escalate" /\ ctx[p].event = e) =>
              Cardinality(Waiting(e)) <= Cardinality(Waiting(e)') + 1
         /\ ~(pc[p] = "escalate" /\ ctx[p].event = e) =>
              Cardinality(Waiting(e)) <= Cardinality(Waiting(e)')
         /\ (~(pc[p] = "escalate" /\ ctx[p].event = e) /\ pc'[p] = "escalate" /\ ctx'[p].event = e) =>
              Cardinality(Waiting(e)') = Cardinality(Waiting(e)) + 1
<1> DEFINE S == Waiting(e)
           T == Waiting(e)'
<1>1. T \ {p} = S \ {p}
  BY DEF Waiting, Alone
<1>2. IsFiniteSet(S)
  BY ProcsAreFinite DEF Waiting
<1>3. (p \in S <=> (pc[p] = "escalate" /\ ctx[p].event = e))
      /\ (p \in T <=> (pc'[p] = "escalate" /\ ctx'[p].event = e))
  BY DEF Waiting
<1> HIDE DEF S, T
<1>4. /\ Cardinality(S) \in Nat /\ Cardinality(T) \in Nat
      /\ (p \in S <=> p \in T) => Cardinality(T) = Cardinality(S)
      /\ (p \notin S /\ p \in T) => Cardinality(T) = Cardinality(S) + 1
      /\ (p \in S /\ p \notin T) => Cardinality(T) = Cardinality(S) - 1
  BY <1>1, <1>2, OneApart
<1>5. /\ p \in S => Cardinality(S) <= Cardinality(T) + 1
      /\ p \notin S => Cardinality(S) <= Cardinality(T)
      /\ (p \notin S /\ p \in T) => Cardinality(T) = Cardinality(S) + 1
  BY <1>4
<1> QED
  BY <1>3, <1>5 DEF S, T

\* A step that raises the severity of e, ends its streak or leaves both alone.
LEMMA StreakKept ==
  ASSUME TypeInv, TypeInv', NEW e \in Events, StreakSeen(e),
         crashes + Cardinality(Waiting(e)) <= crashes' + Cardinality(Waiting(e)'),
         \/ row'[e].streak = row[e].streak /\ row'[e].raised = row[e].raised
         \/ row'[e].streak < EscalateAfter
         \/ row'[e].raised
  PROVE  StreakSeen(e)'
<1>1. row[e].streak \in Nat /\ row'[e].streak \in Nat /\ crashes \in Nat /\ crashes' \in Nat
      /\ EscalateAfter \in Nat
  BY NumbersAssumption, SMTT(30) DEF TypeInv, RowsRight, Event, CountsRight
<1>2. CASE row'[e].streak < EscalateAfter
  BY <1>1, <1>2 DEF StreakSeen
<1>3. CASE row'[e].streak = row[e].streak /\ row'[e].raised = row[e].raised
  BY <1>1, <1>3, WaitingKnown DEF StreakSeen
<1> QED
  BY <1>2, <1>3 DEF StreakSeen

\* Who moves does not wait, unless about to raise the severity of e.
LEMMA OthersWait ==
  ASSUME TypeInv, TypeInv', NEW p \in Procs, Alone(p), NEW e \in Events, crashes <= crashes',
         ~(pc[p] = "escalate" /\ ctx[p].event = e)
  PROVE  crashes + Cardinality(Waiting(e)) <= crashes' + Cardinality(Waiting(e)')
<1>1. Cardinality(Waiting(e)) <= Cardinality(Waiting(e)')
  BY WaitingMoves
<1>2. crashes \in Nat /\ crashes' \in Nat
  BY DEF TypeInv, CountsRight
<1> QED
  BY <1>1, <1>2, WaitingKnown

\* The report of a long streak goes on to raise its severity.
LEMMA RecordEscalates ==
  ASSUME NEW p \in Procs, NEW e \in Events, Record(p, e), Escalates(e, Recorded(row[e]))
  PROVE  \E c : Goto(p, "escalate", c) /\ c.event = e
<1> DEFINE new == Recorded(row[e])
           escalated == Escalates(e, new)
           r == [new EXCEPT !.raised = @ \/ escalated]
           notifying == Notifying(r, escalated, hour)
           to == Route(p, e, r, notifying, hour)
           c == [Nothing EXCEPT !.event = e, !.now = hour, !.text = r.state,
                                !.msg = r.msg, !.notifying = notifying, !.then = to]
<1>1. Goto(p, "escalate", c)
  BY DEF Record
<1> HIDE DEF r, notifying, to
<1>2. c.event = e
  BY DEF Nothing
<1> HIDE DEF c
<1> QED
  BY <1>1, <1>2

\* An occurrence makes a streak one longer, or begins one.
LEMMA RecordedStreak ==
  ASSUME NEW r \in Event
  PROVE  /\ Recorded(r).raised = r.raised
         /\ Recorded(r).streak = 1 \/ Recorded(r).streak = r.streak + 1
BY DEF Recorded, Event

\* An occurrence that makes the streak of e long has its reporter raise the severity.
LEMMA RecordStreak ==
  ASSUME TypeInv, TypeInv', NEW e \in Escalating, e \in Events, StreakSeen(e), NEW p \in Procs, Record(p, e)
  PROVE  StreakSeen(e)'
<1> DEFINE new == Recorded(row[e])
<1>1. row[e] \in Event /\ row' = [row EXCEPT ![e] = new] /\ crashes' = crashes
  BY DEF TypeInv, RowsRight, Record, bad
<1>2. row'[e] = new
  BY <1>1 DEF TypeInv, RowsRight
<1>3. new.raised = row[e].raised /\ (new.streak = 1 \/ new.streak = row[e].streak + 1)
  BY <1>1, RecordedStreak
<1>4. row[e].streak \in Nat /\ crashes \in Nat /\ EscalateAfter \in Nat \ {0}
  BY <1>1, NumbersAssumption DEF TypeInv, Event, CountsRight
<1>5. CASE Escalates(e, new)
  <2>1. \E c : Goto(p, "escalate", c) /\ c.event = e
    BY <1>5, RecordEscalates
  <2>2. pc'[p] = "escalate" /\ ctx'[p].event = e /\ Alone(p) /\ pc[p] # "escalate"
    BY <2>1, GotoAlone, HubIsRight DEF Record
  <2>3. Cardinality(Waiting(e)') = Cardinality(Waiting(e)) + 1
    BY <2>2, WaitingMoves
  <2> HIDE DEF new
  <2> QED
    BY <1>1, <1>2, <1>3, <1>4, <2>3, WaitingKnown DEF StreakSeen
<1>6. CASE ~Escalates(e, new)
  <2>1. ~(new.streak >= EscalateAfter) \/ new.raised
    BY <1>6 DEF Escalates
  <2> HIDE DEF new
  <2> QED
    BY <1>2, <2>1 DEF StreakSeen
<1> QED
  BY <1>5, <1>6

\* Every step keeps what is known of the streak of an event.
LEMMA StreakStep ==
  ASSUME TypeInv, TypeInv', NEW e \in Escalating, StreakSeen(e), [Next]_vars
  PROVE  StreakSeen(e)'
<1>2. e \in Events /\ row \in [Events -> Event] /\ 0 < EscalateAfter
  BY EventsAssumption, NumbersAssumption DEF TypeInv, RowsRight
<1>3. crashes \in Nat
  BY DEF TypeInv, CountsRight
<1>4. ASSUME NEW p \in Procs, NEW d \in Events, Record(p, d) PROVE StreakSeen(e)'
  <2>1. pc[p] \in {"off", "run"} /\ Alone(p) /\ crashes' = crashes
    BY <1>4, RecordGoes, GoesAlone, HubIsRight DEF Record, bad
  <2>2. row' = [row EXCEPT ![d] = Recorded(row[d])]
    BY <1>4 DEF Record
  <2>3. CASE e # d
    <3>1. row'[e] = row[e]
      BY <1>2, <2>2, <2>3
    <3> QED
      BY <1>2, <1>3, <2>1, <3>1, OthersWait, StreakKept
  <2> QED
    BY <1>2, <1>4, <2>3, RecordStreak
<1>5. ASSUME NEW p \in Procs, Step(p) PROVE StreakSeen(e)'
  <2>1. Alone(p) /\ crashes' = crashes
    BY <1>5, StepAlone
       DEF Step, Escalate, ReadBudget, Spend, Notice, Warn, Send, SendFresh, Own, Edit,
           Resend, Adopt, Count, Header, Body, Mark, bad
  <2>2. CASE Escalate(p)
    <3>1. row' = [row EXCEPT ![ctx[p].event] = [row[ctx[p].event] EXCEPT !.raised = TRUE]]
      BY <2>2 DEF Escalate
    <3>2. CASE ctx[p].event = e
      BY <1>2, <3>1, <3>2 DEF StreakSeen, Event
    <3>3. CASE ctx[p].event # e
      <4>1. row'[e] = row[e]
        BY <1>2, <3>1, <3>3
      <4> QED
        BY <1>2, <1>3, <2>1, <3>3, <4>1, OthersWait, StreakKept
    <3> QED
      BY <3>2, <3>3
  <2>3. CASE ~Escalate(p)
    <3>1. pc[p] # "escalate"
      BY <1>5, <2>3 DEF Step, ReadBudget, Spend, Notice, Warn, Send, Own, Edit,
                        Resend, Adopt, Count, Header, Body, Mark
    <3>2. row'[e].streak = row[e].streak /\ row'[e].raised = row[e].raised
      <4>1. CASE Own(p)
        BY <1>2, <4>1 DEF Own, Event
      <4>2. CASE Adopt(p)
        BY <1>2, <4>2 DEF Adopt, Event
      <4>3. CASE Count(p)
        BY <1>2, <4>3 DEF Count, Event
      <4>4. CASE ~(Own(p) \/ Adopt(p) \/ Count(p))
        BY <1>5, <2>3, <4>4 DEF Step, ReadBudget, Spend, Notice, Warn, Send, SendFresh, Edit,
                                Resend, Header, Body, Mark, rows
      <4> QED
        BY <4>1, <4>2, <4>3, <4>4
    <3> QED
      BY <1>2, <1>3, <2>1, <3>1, <3>2, OthersWait, StreakKept
  <2> QED
    BY <2>2, <2>3
<1>6. CASE Resolve \/ EndPass
  <2>1. pc[Job] = "run" /\ Job \in Procs /\ crashes' = crashes
    BY <1>6 DEF Resolve, EndPass, Procs, bad
  <2>2. Alone(Job)
    BY <1>6, <2>1, OthersGo, GoesAlone
  <2>3. row'[e] = row[e] \/ row'[e].streak = 0
    <3>1. CASE Resolve
      BY <1>2, <3>1 DEF Resolve, Event
    <3>2. CASE EndPass
      BY <1>2, <3>2 DEF EndPass, Absent
    <3> QED
      BY <1>6, <3>1, <3>2
  <2> QED
    BY <1>2, <1>3, <2>1, <2>2, <2>3, OthersWait, StreakKept
<1>8. ASSUME NEW h \in Handlers, NEW d \in Events, Ack(h, d) PROVE StreakSeen(e)'
  <2>1. pc[h] = "off" /\ h \in Procs /\ crashes' = crashes
    BY <1>8 DEF Ack, Procs, bad
  <2>2. Alone(h)
    BY <1>8, <2>1, OthersGo, GoesAlone
  <2>3. row'[e].streak = row[e].streak /\ row'[e].raised = row[e].raised
    BY <1>2, <1>8 DEF Ack, Event
  <2> QED
    BY <1>2, <1>3, <2>1, <2>2, <2>3, OthersWait, StreakKept
<1>9. ASSUME NEW h \in Handlers, AckAll(h) \/ Mute(h) PROVE StreakSeen(e)'
  <2>1. UNCHANGED <<crashes, pc, ctx>>
    BY <1>9 DEF AckAll, Mute, bad
  <2>2. row'[e].streak = row[e].streak /\ row'[e].raised = row[e].raised
    <3>1. CASE AckAll(h)
      BY <1>2, <3>1 DEF AckAll, Event
    <3>2. CASE Mute(h)
      BY <1>2, <3>2 DEF Mute, Event
    <3> QED
      BY <1>9, <3>1, <3>2
  <2>3. Waiting(e)' = Waiting(e)
    BY <2>1 DEF Waiting
  <2> QED
    BY <1>2, <1>3, <2>1, <2>2, <2>3, StreakKept, WaitingKnown
<1>10. ASSUME NEW p \in Procs, Crash(p) PROVE StreakSeen(e)'
  <2>1. row' = row /\ crashes' = crashes + 1 /\ Alone(p)
    BY <1>10, OthersGo, GoesAlone DEF Crash, rows
  <2>2. Cardinality(Waiting(e)) <= Cardinality(Waiting(e)') + 1
    BY <2>1, WaitingMoves, WaitingKnown
  <2>3. crashes + Cardinality(Waiting(e)) <= crashes' + Cardinality(Waiting(e)')
    BY <1>3, <2>1, <2>2, WaitingKnown
  <2> QED
    BY <1>2, <2>1, <2>3, StreakKept
<1>11. CASE StartPass
  <2>1. pc[Job] = "off" /\ Job \in Procs /\ UNCHANGED <<row, crashes>>
    BY <1>11 DEF StartPass, Procs, rows, bad
  <2>2. Alone(Job)
    BY <1>11, <2>1, OthersGo, GoesAlone
  <2> QED
    BY <1>2, <1>3, <2>1, <2>2, OthersWait, StreakKept
<1>12. CASE Tick \/ UNCHANGED vars
  <2>1. UNCHANGED <<row, crashes, pc, ctx>>
    BY <1>12 DEF Tick, vars, rows, bad
  <2>2. Waiting(e)' = Waiting(e)
    BY <2>1 DEF Waiting
  <2> QED
    BY <1>2, <1>3, <2>1, <2>2, StreakKept, WaitingKnown
<1>13. Job \in Procs /\ Handlers \subseteq Procs
  BY DEF Procs
<1>14. CASE Pass
  BY <1>4, <1>5, <1>6, <1>11, <1>13, <1>14 DEF Pass
<1>15. ASSUME NEW h \in Handlers, Request(h) \/ Step(h) PROVE StreakSeen(e)'
  <2>1. h \in Procs
    BY <1>13
  <2> QED
    BY <1>4, <1>5, <1>8, <1>9, <1>15, <2>1 DEF Request
<1> QED
  BY <1>10, <1>12, <1>14, <1>15 DEF Next

\* No event that keeps occurring stays below the severity that its rule raises it to, from
\* escalate_after occurrences in a row on, and one more for each process that was killed.
THEOREM LongStreaksRaised == Spec => []LongStreaksAreRaised
<1> DEFINE I == \A e \in Escalating : StreakSeen(e)
<1>1. Init => I
  <2>1. SUFFICES ASSUME Init, NEW e \in Escalating PROVE StreakSeen(e)
    OBVIOUS
  <2>2. row[e].streak = 0
    BY <2>1, EventsAssumption DEF Init, Absent
  <2> QED
    BY <2>2, NumbersAssumption DEF StreakSeen
<1>2. TypeInv /\ I /\ [Next]_vars => I'
  BY TypeStep, StreakStep
<1>3. TypeInv /\ I => LongStreaksAreRaised
  <2>1. SUFFICES ASSUME TypeInv, NEW e \in Escalating, StreakSeen(e), row[e].streak >= EscalateAfter + crashes
                 PROVE  row[e].raised \/ \E p \in Procs : pc[p] = "escalate" /\ ctx[p].event = e
    BY DEF LongStreaksAreRaised
  <2>5. e \in Events /\ EscalateAfter \in Nat
    BY EventsAssumption, NumbersAssumption
  <2>6. row[e] \in Event /\ crashes \in Nat
    BY <2>1, <2>5 DEF TypeInv, RowsRight, CountsRight
  <2>2. row[e].streak \in Nat /\ crashes \in Nat /\ EscalateAfter \in Nat
    BY <2>5, <2>6 DEF Event
  <2>3. CASE Waiting(e) = {}
    <3>1. Cardinality(Waiting(e)) = 0
      BY <2>3, WaitingKnown
    <3> QED
      BY <2>1, <2>2, <3>1 DEF StreakSeen
  <2>4. CASE Waiting(e) # {}
    BY <2>4 DEF Waiting
  <2> QED
    BY <2>3, <2>4
<1> HIDE DEF I
<1> QED
  BY <1>1, <1>2, <1>3, TypesAlways, PTL DEF Spec

-----------------------------------------------------------------------------
(* The budget.                                                             *)

\* The alerts and notices of window h that the row b accounts for: those it has
\* counted in its own window, all that were allowed in earlier ones, none in later.
Charged(b, h) ==
  IF b = None \/ b.start < h THEN 0 ELSE IF b.start = h THEN b.count ELSE MaxAlerts
Noted(b, h) ==
  IF b = None \/ b.start < h \/ (b.start = h /\ ~b.noticed) THEN 0 ELSE 1

\* What a process that is about to write the budget has made sure of.
Sure(l, c) ==
  LET b == BudgetAt(c.raw, c.now) IN
    /\ l = "spend" => b.count < MaxAlerts
    /\ l = "notice" => b.count <= MaxAlerts /\ ~b.noticed

\* Beyond what the row accounts for, a window holds what was given away by writes
\* that undid another: each hides at most a full budget and a notice.
BudgetInv ==
  /\ budget # None => budget.count <= MaxAlerts
  /\ \A h \in 0..MaxHour :
       /\ booked[h].alerts <= MaxAlerts * raced + Charged(budget, h)
       /\ booked[h].notices <= raced + Noted(budget, h)
  /\ \A p \in Procs : Sure(pc[p], ctx[p])

\* One write that undid another gives away one budget more.
LEMMA OneMore ==
  ASSUME NEW r \in Nat
  PROVE  /\ MaxAlerts * r \in Nat
         /\ MaxAlerts * (r + 1) = MaxAlerts * r + MaxAlerts
         /\ MaxAlerts * (1 + r) = MaxAlerts * r + MaxAlerts
BY NumbersAssumption

\* A row accounts for at most a full budget and one notice.
LEMMA ChargedKnown ==
  ASSUME NEW b \in Budget \cup {None}, NEW h \in 0..MaxHour, b # None => b.count <= MaxAlerts
  PROVE  Charged(b, h) \in 0..MaxAlerts /\ Noted(b, h) \in 0..1
BY NumbersAssumption DEF Charged, Noted, Budget

\* The window that holds now accounts for no less than the row did.
LEMMA ChargedAt ==
  ASSUME NEW b \in Budget \cup {None}, NEW h \in 0..MaxHour, b # None => b.count <= MaxAlerts,
         NEW now \in 0..MaxHour
  PROVE  /\ Charged(b, h) <= Charged(BudgetAt(b, now), h)
         /\ Noted(b, h) <= Noted(BudgetAt(b, now), h)
         /\ BudgetAt(b, now).count <= MaxAlerts
<1> DEFINE new == [start |-> now, count |-> 0, noticed |-> FALSE]
<1>1. new \in Budget /\ new # None /\ new.start = now /\ new.count = 0 /\ ~new.noticed
  <2>1. now \in Nat
    BY NumbersAssumption
  <2>2. new \in Budget
    BY <2>1 DEF Budget
  <2> QED
    BY <2>2, NoneAssumption
<1> HIDE DEF new
<1>2. CASE b = None \/ b.start < now
  <2>1. BudgetAt(b, now) = new
    BY <1>2 DEF BudgetAt, new
  <2>2. Charged(b, h) \in 0..MaxAlerts /\ Noted(b, h) \in 0..1
    BY ChargedKnown
  <2> QED
    BY <1>1, <1>2, <2>1, <2>2, NumbersAssumption DEF Charged, Noted, Budget
<1>3. CASE ~(b = None \/ b.start < now)
  <2>1. BudgetAt(b, now) = b
    BY <1>3 DEF BudgetAt
  <2>2. Charged(b, h) \in 0..MaxAlerts /\ Noted(b, h) \in 0..1
    BY ChargedKnown
  <2> QED
    BY <1>3, <2>1, <2>2
<1> QED
  BY <1>2, <1>3

\* A write by p, which may undo another, of the window b to which it adds at most
\* one alert or one notice, the window k that it books them in being b's.
LEMMA WriteKeeps ==
  ASSUME TypeInv, BudgetInv, NEW p \in Procs, pc[p] \in {"spend", "notice"},
         NEW b2 \in Budget, WriteBudget(p, b2), b2.count <= MaxAlerts,
         NEW b, b = BudgetAt(ctx[p].raw, ctx[p].now), NEW a \in 0..1, NEW n \in 0..1,
         b2.start = b.start, b2.count = b.count + a,
         b2.noticed = (b.noticed \/ n = 1), n = 1 => ~b.noticed,
         \A h \in 0..MaxHour : h # b.start => booked'[h] = booked[h],
         booked'[b.start].alerts = booked[b.start].alerts + a,
         booked'[b.start].notices = booked[b.start].notices + n
  PROVE  \A h \in 0..MaxHour :
           /\ booked'[h].alerts <= MaxAlerts * raced' + Charged(budget', h)
           /\ booked'[h].notices <= raced' + Noted(budget', h)
<1> DEFINE owed == MaxAlerts * raced
           owed2 == MaxAlerts * raced'
<1>1. b \in Budget /\ b.start \in 0..MaxHour /\ ctx[p].now \in 0..MaxHour
  BY AskerKnown
<1>2. budget' = b2 /\ raced' = IF budget = ctx[p].raw THEN raced ELSE raced + 1
  BY DEF WriteBudget
<1>3. raced \in Nat /\ MaxAlerts \in Nat /\ budget \in Budget \cup {None}
  BY NumbersAssumption DEF TypeInv, PurseRight
<1>4. owed \in Nat /\ owed2 = IF budget = ctx[p].raw THEN owed ELSE owed + MaxAlerts
  BY <1>2, <1>3, OneMore
<1>5. SUFFICES ASSUME NEW h \in 0..MaxHour
               PROVE  /\ booked'[h].alerts <= owed2 + Charged(b2, h)
                      /\ booked'[h].notices <= raced' + Noted(b2, h)
  BY <1>2
<1>6. booked[h].alerts \in Nat /\ booked[h].notices \in Nat
  BY DEF TypeInv, PurseRight
<1>7. /\ booked'[h].alerts = booked[h].alerts + IF h = b.start THEN a ELSE 0
      /\ booked'[h].notices = booked[h].notices + IF h = b.start THEN n ELSE 0
  BY <1>6
<1>8. /\ booked[h].alerts <= owed + Charged(budget, h)
      /\ booked[h].notices <= raced + Noted(budget, h)
  BY DEF BudgetInv
<1>9. Charged(budget, h) \in 0..MaxAlerts /\ Noted(budget, h) \in 0..1
  BY <1>3, ChargedKnown DEF BudgetInv
<1>10. b2.start = b.start /\ b2.count = b.count + a /\ b2.noticed = (b.noticed \/ n = 1)
       /\ (n = 1 => ~b.noticed) /\ b # None /\ b2 # None /\ b.count \in Nat
  BY <1>1, NoneAssumption DEF Budget
<1>11. /\ Charged(b2, h) = Charged(b, h) + IF h = b.start THEN a ELSE 0
       /\ Noted(b2, h) = Noted(b, h) + IF h = b.start THEN n ELSE 0
  <2>1. b.start \in Nat /\ h \in Nat
    BY <1>1, NumbersAssumption
  <2>2. CASE h < b.start
    BY <1>3, <1>10, <2>1, <2>2 DEF Charged, Noted
  <2>3. CASE h = b.start
    <3>1. Charged(b2, h) = b2.count /\ Charged(b, h) = b.count
      BY <1>10, <2>1, <2>3 DEF Charged
    <3>2. CASE n = 0
      <4>1. b2.noticed = b.noticed
        BY <1>1, <1>10, <3>2 DEF Budget
      <4>2. Noted(b2, h) = Noted(b, h) /\ Noted(b, h) \in 0..1
        BY <1>10, <2>1, <2>3, <4>1 DEF Noted
      <4> QED
        BY <1>10, <2>3, <3>1, <3>2, <4>2
    <3>3. CASE n = 1
      <4>1. b2.noticed /\ ~b.noticed
        BY <1>1, <1>10, <3>3 DEF Budget
      <4>2. Noted(b2, h) = 1 /\ Noted(b, h) = 0
        BY <1>10, <2>1, <2>3, <4>1 DEF Noted
      <4> QED
        BY <1>10, <2>3, <3>1, <3>3, <4>2
    <3> QED
      BY <3>2, <3>3
  <2>4. CASE h > b.start
    BY <1>3, <1>10, <2>1, <2>4 DEF Charged, Noted
  <2> QED
    BY <2>1, <2>2, <2>3, <2>4
<1>12. Charged(b, h) \in 0..MaxAlerts /\ Noted(b, h) \in 0..1
  <2>1. b.count <= MaxAlerts
    BY <1>3, <1>10
  <2> QED
    BY <1>1, <2>1, ChargedKnown
<1>13. CASE budget = ctx[p].raw
  <2>1. Charged(budget, h) <= Charged(b, h) /\ Noted(budget, h) <= Noted(b, h)
    BY <1>1, <1>3, <1>13, ChargedAt DEF BudgetInv
  <2> HIDE DEF owed, owed2
  <2> QED
    BY <1>2, <1>3, <1>4, <1>6, <1>7, <1>8, <1>9, <1>11, <1>12, <1>13, <2>1, SMTT(30)
<1>14. CASE budget # ctx[p].raw
  <2> HIDE DEF owed, owed2
  <2> QED
    BY <1>2, <1>3, <1>4, <1>6, <1>7, <1>8, <1>9, <1>11, <1>12, <1>14
<1> QED
  BY <1>13, <1>14

\* A step of p alone that leads to no write.
LEMMA PurseKept ==
  ASSUME TypeInv, BudgetInv, NEW p \in Procs, Goes(p), UNCHANGED purse
  PROVE  BudgetInv'
<1>1. \A q \in Procs : Sure(pc'[q], ctx'[q])
  <2>1. Sure(pc'[p], ctx'[p])
    BY GoesAlone DEF Sure
  <2>2. \A q \in Procs \ {p} : Sure(pc'[q], ctx'[q])
    BY GoesAlone DEF Alone, BudgetInv
  <2> QED
    BY <2>1, <2>2
<1> QED
  BY <1>1 DEF BudgetInv, purse

\* Who has read the budget is sure of it.
LEMMA ReadBudgetSure ==
  ASSUME TypeInv, BudgetInv, NEW p \in Procs, ReadBudget(p)
  PROVE  BudgetInv'
<1> DEFINE b == BudgetAt(budget, ctx[p].now)
           c == [ctx[p] EXCEPT !.raw = budget]
<1>1. UNCHANGED purse
  BY DEF ReadBudget
<1>2. ctx[p] \in Context /\ ctx[p].now \in 0..MaxHour /\ budget \in Budget \cup {None}
      /\ (budget # None => budget.start \in 0..MaxHour)
  BY AskerKnown DEF ReadBudget, TypeInv, PurseRight
<1>3. c.raw = budget /\ c.now = ctx[p].now
  BY <1>2 DEF Context
<1>4. b \in Budget
  BY <1>2, BudgetAtKnown
<1>5. b.count <= MaxAlerts
  <2>1. 0 \in 0..MaxHour
    BY NumbersAssumption
  <2> QED
    BY <1>2, <2>1, ChargedAt DEF BudgetInv
<1>6. \/ b.count < MaxAlerts /\ Goto(p, "spend", c)
      \/ Done(p)
      \/ ~b.noticed /\ Goto(p, "notice", c)
  BY DEF ReadBudget
<1> HIDE DEF c
<1>7. Alone(p) /\ Sure(pc'[p], ctx'[p])
  <2>1. CASE b.count < MaxAlerts /\ Goto(p, "spend", c)
    <3>1. Alone(p) /\ pc'[p] = "spend" /\ ctx'[p] = c
      BY <2>1, GotoAlone
    <3> QED
      BY <1>3, <2>1, <3>1 DEF Sure
  <2>2. CASE Done(p)
    BY <2>2, DoneGoes, GoesAlone DEF Sure
  <2>3. CASE ~b.noticed /\ Goto(p, "notice", c)
    <3>1. Alone(p) /\ pc'[p] = "notice" /\ ctx'[p] = c
      BY <2>3, GotoAlone
    <3> QED
      BY <1>3, <1>5, <2>3, <3>1 DEF Sure
  <2> QED
    BY <1>6, <2>1, <2>2, <2>3
<1>8. \A q \in Procs : Sure(pc'[q], ctx'[q])
  BY <1>7 DEF Alone, BudgetInv
<1> QED
  BY <1>1, <1>8 DEF BudgetInv, purse

\* The two writes keep the account.
LEMMA WriteSure ==
  ASSUME TypeInv, BudgetInv, NEW p \in Procs, Spend(p) \/ Notice(p)
  PROVE  BudgetInv'
<1> DEFINE b == BudgetAt(ctx[p].raw, ctx[p].now)
           spent == [b EXCEPT !.count = @ + 1]
           noticed == [b EXCEPT !.noticed = TRUE]
<1>1. Goes(p) /\ pc[p] \in {"spend", "notice"}
  BY DEF Spend, Notice, Goes
<1>2. b \in Budget /\ b.start \in 0..MaxHour
  BY <1>1, AskerKnown
<1>3. Sure(pc[p], ctx[p])
  BY DEF BudgetInv
<1>4. \A q \in Procs : Sure(pc'[q], ctx'[q])
  <2>1. Sure(pc'[p], ctx'[p])
    BY <1>1, GoesAlone DEF Sure
  <2>2. \A q \in Procs \ {p} : Sure(pc'[q], ctx'[q])
    BY <1>1, GoesAlone DEF Alone, BudgetInv
  <2> QED
    BY <2>1, <2>2
<1>5. booked \in [0..MaxHour -> [alerts : Nat, notices : Nat]]
  BY DEF TypeInv, PurseRight
<1>6. ASSUME NEW b2 \in Budget, budget' = b2, b2.count <= MaxAlerts,
             \A h \in 0..MaxHour :
               /\ booked'[h].alerts <= MaxAlerts * raced' + Charged(budget', h)
               /\ booked'[h].notices <= raced' + Noted(budget', h)
      PROVE  BudgetInv'
  BY <1>4, <1>6 DEF BudgetInv
<1>7. CASE Spend(p)
  <2>1. b.count < MaxAlerts
    BY <1>3, <1>7 DEF Spend, Sure
  <2>2. spent \in Budget /\ spent.start = b.start /\ spent.count = b.count + 1
        /\ spent.noticed = b.noticed /\ spent.count <= MaxAlerts
    BY <1>2, <2>1, NumbersAssumption DEF Budget
  <2>3. WriteBudget(p, spent)
    BY <1>7 DEF Spend
  <2>4. /\ \A h \in 0..MaxHour : h # b.start => booked'[h] = booked[h]
        /\ booked'[b.start].alerts = booked[b.start].alerts + 1
        /\ booked'[b.start].notices = booked[b.start].notices + 0
    <3> HIDE DEF b
    <3>1. booked' = [booked EXCEPT ![b.start].alerts = @ + 1]
      BY <1>7 DEF Spend, b
    <3> QED
      BY <1>2, <1>5, <3>1
  <2>5. spent.noticed = (b.noticed \/ 0 = 1)
    BY <1>2, <2>2 DEF Budget
  <2>6. b = BudgetAt(ctx[p].raw, ctx[p].now) /\ 0 \in 0..1 /\ 1 \in 0..1
    OBVIOUS
  <2>7. ~(0 = 1)
    OBVIOUS
  <2> HIDE DEF spent, b
  <2>8. \A h \in 0..MaxHour :
          /\ booked'[h].alerts <= MaxAlerts * raced' + Charged(budget', h)
          /\ booked'[h].notices <= raced' + Noted(budget', h)
    BY <1>1, <2>2, <2>3, <2>4, <2>5, <2>6, <2>7, WriteKeeps, Zenon
  <2> QED
    BY <1>6, <2>2, <2>3, <2>8 DEF WriteBudget
<1>8. CASE Notice(p)
  <2>1. b.count <= MaxAlerts /\ ~b.noticed
    BY <1>3, <1>8 DEF Notice, Sure
  <2>2. noticed \in Budget /\ noticed.start = b.start /\ noticed.count = b.count + 0
        /\ noticed.noticed /\ noticed.count <= MaxAlerts
    <3>1. b.count + 0 = b.count
      BY <1>2 DEF Budget
    <3> HIDE DEF b
    <3>2. noticed = [b EXCEPT !.noticed = TRUE]
      BY DEF b
    <3> HIDE DEF noticed
    <3> QED
      BY <1>2, <2>1, <3>1, <3>2 DEF Budget
  <2>3. WriteBudget(p, noticed)
    BY <1>8 DEF Notice
  <2>4. /\ \A h \in 0..MaxHour : h # b.start => booked'[h] = booked[h]
        /\ booked'[b.start].alerts = booked[b.start].alerts + 0
        /\ booked'[b.start].notices = booked[b.start].notices + 1
    <3> HIDE DEF b
    <3>1. booked' = [booked EXCEPT ![b.start].notices = @ + 1]
      BY <1>8 DEF Notice, b
    <3> QED
      BY <1>2, <1>5, <3>1
  <2>5. noticed.noticed = (b.noticed \/ 1 = 1)
    BY <2>2 DEF Budget
  <2>6. b = BudgetAt(ctx[p].raw, ctx[p].now) /\ 0 \in 0..1 /\ 1 \in 0..1
    OBVIOUS
  <2> HIDE DEF noticed, b
  <2>7. \A h \in 0..MaxHour :
          /\ booked'[h].alerts <= MaxAlerts * raced' + Charged(budget', h)
          /\ booked'[h].notices <= raced' + Noted(budget', h)
    BY <1>1, <2>1, <2>2, <2>3, <2>4, <2>5, <2>6, WriteKeeps, Zenon
  <2> QED
    BY <1>6, <2>2, <2>3, <2>7 DEF WriteBudget
<1> QED
  BY <1>7, <1>8

\* Every step does.
LEMMA BudgetStep ==
  ASSUME TypeInv, BudgetInv, [Next]_vars
  PROVE  BudgetInv'
<1>1. ASSUME NEW p \in Procs, NEW e \in Events, Record(p, e) PROVE BudgetInv'
  BY <1>1, RecordGoes, PurseKept DEF Record
<1>2. ASSUME NEW p \in Procs, Step(p) PROVE BudgetInv'
  <2>1. CASE ReadBudget(p)
    BY <2>1, ReadBudgetSure
  <2>2. CASE Spend(p) \/ Notice(p)
    BY <2>2, WriteSure
  <2>3. CASE ~(ReadBudget(p) \/ Spend(p) \/ Notice(p))
    <3>1. UNCHANGED purse
      BY <1>2, <2>3 DEF Step, Escalate, Warn, Send, SendFresh, Own, Edit, Resend, Adopt, Count,
                        Header, Body, Mark
    <3>2. Goes(p) \/ (Alone(p) /\ pc'[p] \notin {"spend", "notice"})
      <4>1. CASE Header(p)
        BY <4>1, GotoAlone, AfterFlushGoes DEF Header
      <4>2. CASE Body(p)
        BY <4>2, GotoAlone, AfterFlushGoes DEF Body
      <4> QED
        BY <1>2, <2>3, <4>1, <4>2, StepGoes
    <3>3. Alone(p) /\ pc'[p] \notin {"spend", "notice"}
      BY <3>2, GoesAlone
    <3>4. \A q \in Procs : Sure(pc'[q], ctx'[q])
      BY <3>3 DEF Alone, Sure, BudgetInv
    <3> QED
      BY <3>1, <3>4 DEF BudgetInv, purse
  <2> QED
    BY <2>1, <2>2, <2>3
<1>3. ASSUME NEW p \in Procs,
             \/ p = Job /\ (StartPass \/ Resolve \/ EndPass)
             \/ p \in Handlers /\ \E e \in Events : Ack(p, e)
             \/ Crash(p)
      PROVE  BudgetInv'
  <2>1. UNCHANGED purse
    BY <1>3 DEF StartPass, Resolve, EndPass, Ack, Crash
  <2> QED
    BY <1>3, <2>1, OthersGo, PurseKept
<1>4. ASSUME UNCHANGED <<purse, pc, ctx>> PROVE BudgetInv'
  BY <1>4 DEF BudgetInv, purse
<1>5. CASE Tick
  BY <1>4, <1>5 DEF Tick
<1>6. ASSUME NEW h \in Handlers, AckAll(h) \/ Mute(h) PROVE BudgetInv'
  BY <1>4, <1>6 DEF AckAll, Mute
<1>7. CASE UNCHANGED vars
  BY <1>4, <1>7 DEF vars
<1>8. Job \in Procs /\ Handlers \subseteq Procs
  BY DEF Procs
<1>9. CASE Pass
  BY <1>1, <1>2, <1>3, <1>8, <1>9 DEF Pass
<1>10. ASSUME NEW h \in Handlers, Request(h) \/ Step(h) PROVE BudgetInv'
  <2>1. h \in Procs
    BY <1>8
  <2> QED
    BY <1>1, <1>2, <1>3, <1>6, <1>10, <2>1 DEF Request
<1> QED
  BY <1>3, <1>5, <1>7, <1>9, <1>10 DEF Next

\* No hour sees more alerts than its budget and one suppression notice, but for a
\* budget and a notice for every write that undid another process's.
THEOREM BudgetCorrect == Spec => []BudgetHolds
<1>1. ASSUME Init PROVE BudgetInv
  <2>1. MaxAlerts * 0 = 0
    BY OneMore, NumbersAssumption
  <2>2. \A h \in 0..MaxHour : Charged(budget, h) = 0 /\ Noted(budget, h) = 0
                              /\ booked[h].alerts = 0 /\ booked[h].notices = 0
    BY <1>1 DEF Init, Charged, Noted
  <2>3. \A p \in Procs : Sure(pc[p], ctx[p])
    BY <1>1 DEF Init, Sure
  <2>4. budget = None /\ raced = 0
    BY <1>1 DEF Init
  <2> QED
    BY <2>1, <2>2, <2>3, <2>4 DEF BudgetInv
<1>2. ASSUME TypeInv, BudgetInv PROVE BudgetHolds
  <2>1. SUFFICES ASSUME NEW h \in 0..MaxHour
                 PROVE  /\ booked[h].alerts <= MaxAlerts * (1 + raced)
                        /\ booked[h].notices <= 1 + raced
    BY DEF BudgetHolds
  <2>2. booked[h].alerts \in Nat /\ booked[h].notices \in Nat /\ raced \in Nat
        /\ budget \in Budget \cup {None}
    BY <1>2 DEF TypeInv, PurseRight
  <2>3. Charged(budget, h) \in 0..MaxAlerts /\ Noted(budget, h) \in 0..1
    BY <1>2, <2>2, ChargedKnown DEF BudgetInv
  <2>4. MaxAlerts * raced \in Nat /\ MaxAlerts * (1 + raced) = MaxAlerts * raced + MaxAlerts
    BY <2>2, OneMore
  <2>5. /\ booked[h].alerts <= MaxAlerts * raced + Charged(budget, h)
        /\ booked[h].notices <= raced + Noted(budget, h)
    BY <1>2 DEF BudgetInv
  <2> DEFINE owed == MaxAlerts * raced
             most == MaxAlerts * (1 + raced)
  <2>6. booked[h].alerts <= owed + Charged(budget, h) /\ owed \in Nat /\ most = owed + MaxAlerts
    BY <2>4, <2>5
  <2> HIDE DEF owed, most
  <2>7. booked[h].alerts <= most /\ booked[h].notices <= 1 + raced
    BY <2>2, <2>3, <2>5, <2>6, NumbersAssumption
  <2> QED
    BY <2>7 DEF most
<1> QED
  BY <1>1, <1>2, TypesAlways, BudgetStep, PTL DEF Spec
=============================================================================
