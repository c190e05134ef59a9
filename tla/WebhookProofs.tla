--------------------------- MODULE WebhookProofs ---------------------------
(***************************************************************************)
(* Proofs about Webhook, for any updates, users, replicas, requests and    *)
(* faults.                                                                 *)
(***************************************************************************)
EXTENDS Webhook, TLAPS

-----------------------------------------------------------------------------
(* Types *)

Mailed == [kind : Kinds, sender : Users, age : SentAges]
Request == [update : Updates \cup {None}, replica : Replicas \cup {None},
            open : BOOLEAN, late : BOOLEAN]

\* What a request works on has been sent, and it is some replica's.
TasksOK ==
  /\ pc \in [Tasks -> PCs] /\ ctx \in [Tasks -> Request]
  /\ \A q \in Tasks :
       IF pc[q] = "idle" THEN ctx[q] = Idle
       ELSE /\ ctx[q].update \in Updates /\ tg[ctx[q].update] # "unsent"
            /\ ctx[q].replica \in Replicas

MailOK ==
  /\ tg \in [Updates -> {"unsent", "waiting", "answered"}]
  /\ mail \in [Updates -> Mailed \cup {None}]
  /\ \A u \in Updates : tg[u] # "unsent" => mail[u] \in Mailed

RowsOK ==
  /\ admins \subseteq Users /\ changed \in [Users -> CacheAges]
  /\ seen \in [Updates -> SeenAges \cup {None}]
  /\ fate \in [Updates -> AMO!Fates]
  /\ ruling \in [Updates -> Ruling \cup {None}]
  /\ audited \subseteq Updates

FaultsOK ==
  /\ rt \in [Replicas -> Runtime]
  /\ hit \subseteq Updates /\ faults \in 0..MaxFaults

Typed == TasksOK /\ MailOK /\ RowsOK /\ FaultsOK

\* Nothing is FALSE already of what a request that is over held.
LEMMA IdleStays ==
  /\ [Idle EXCEPT !.late = FALSE] = Idle
  /\ [Idle EXCEPT !.open = FALSE] = Idle
<1>1. Idle \in Request /\ Idle.late = FALSE /\ Idle.open = FALSE
  BY DEF Idle, Request
<1> HIDE DEF Idle
<1> QED
  BY <1>1 DEF Request

\* A request in progress has an update that was sent.
LEMMA InProgress ==
  ASSUME Typed, NEW q \in Tasks, pc[q] # "idle"
  PROVE  /\ ctx[q] \in Request
         /\ ctx[q].update \in Updates /\ tg[ctx[q].update] # "unsent"
         /\ mail[ctx[q].update] \in Mailed
         /\ ctx[q].replica \in Replicas
BY DEF Typed, TasksOK, MailOK

\* Updates in hand are updates.
LEMMA InHandType ==
  ASSUME Typed, NEW r
  PROVE  InHand(r) \subseteq Updates
BY InProgress DEF InHand

\* The initial states.
LEMMA InitTyped == Init => Typed
BY UsersAssumption, NumbersAssumption
   DEF Init, Typed, TasksOK, MailOK, RowsOK, FaultsOK, Runtime, NoRuntime, CacheAges, AMO!Fates,
       PCs, Request, Idle

\* A request moves on to another label.
LEMMA Moves ==
  ASSUME TasksOK, UNCHANGED <<tg, ctx>>, NEW q \in Tasks, pc[q] # "idle",
         NEW label \in PCs \ {"idle"}, Goto(q, label)
  PROVE  TasksOK'
BY DEF TasksOK, Goto

\* A request ends.
LEMMA Ends ==
  ASSUME TasksOK, NEW q \in Tasks, Refused(q),
         \A u \in Updates : tg[u] # "unsent" => tg'[u] # "unsent"
  PROVE  TasksOK'
BY DEF TasksOK, Refused, PCs, Request, Idle

\* Runtimes and faults when one is found, built or not to be had.
LEMMA RebuiltType ==
  ASSUME FaultsOK, NEW r \in Replicas, Rebuilt(r) \/ NotRebuilt(r), UNCHANGED hit
  PROVE  FaultsOK'
<1>0. NoRuntime \in Runtime
  BY NumbersAssumption DEF NoRuntime, Runtime, CacheAges
<1>1. NoRuntime \in Runtime /\ Built \in Runtime
  BY <1>0 DEF Built, Runtime
<1>2. rt' = rt \/ rt' = [rt EXCEPT ![r] = Built] \/ rt' = [rt EXCEPT ![r] = NoRuntime]
  BY DEF Rebuilt, NotRebuilt
<1>3. rt' \in [Replicas -> Runtime]
  BY <1>1, <1>2 DEF FaultsOK
<1>4. faults' \in 0..MaxFaults
  BY NumbersAssumption DEF FaultsOK, Rebuilt, NotRebuilt, Fault
<1> QED
  BY <1>3, <1>4 DEF FaultsOK

\* A session that is closed under requests leaves them as they are otherwise.
LEMMA ClosedType ==
  ASSUME TasksOK, NEW r
  PROVE  /\ Closed(r) \in [Tasks -> Request]
         /\ \A p \in Tasks : /\ Closed(r)[p].update = ctx[p].update
                             /\ Closed(r)[p].replica = ctx[p].replica
                             /\ Closed(r)[p].late = ctx[p].late
                             /\ Closed(r)[p].open => ctx[p].open
BY DEF TasksOK, Closed, Request

\* The lost session of a statement.
LEMMA CutType ==
  ASSUME Typed, NEW r \in Replicas, NEW u \in Updates, Cut(r, u)
  PROVE  FaultsOK'
<1>1. [rt[r] EXCEPT !.up = FALSE] \in Runtime
  BY DEF Typed, FaultsOK, Runtime
<1>2. rt' = [rt EXCEPT ![r] = [rt[r] EXCEPT !.up = FALSE]]
  BY DEF Cut
<1>3. rt' \in [Replicas -> Runtime]
  BY <1>1, <1>2 DEF Typed, FaultsOK
<1>4. hit' \subseteq Updates
  BY InHandType DEF Typed, FaultsOK, Cut
<1>5. faults' \in 0..MaxFaults
  BY NumbersAssumption DEF Typed, FaultsOK, Cut, Fault
<1> QED
  BY <1>3, <1>4, <1>5 DEF FaultsOK

\* Users and the clock.
LEMMA WorldType == ASSUME Typed, (\E w \in Users : ChangeRole(w)) \/ (\E u \in Updates : Send(u)) \/ Purge
                   PROVE  Typed'
<1>1. ASSUME NEW w \in Users, ChangeRole(w) PROVE Typed'
  BY <1>1, NumbersAssumption
     DEF ChangeRole, Typed, TasksOK, MailOK, RowsOK, FaultsOK, users, results, failures, CacheAges
<1>2. ASSUME NEW u \in Updates, Send(u) PROVE Typed'
  <2>1. PICK k \in Mail[u] : mail' = [mail EXCEPT ![u] = [kind |-> k[1], sender |-> k[2], age |-> 0]]
    BY <1>2 DEF Send
  <2>2. [kind |-> k[1], sender |-> k[2], age |-> 0] \in Mailed
    BY MailAssumption, NumbersAssumption DEF Mailed, SentAges
  <2>3. MailOK' /\ TasksOK'
    BY <1>2, <2>1, <2>2 DEF Send, Typed, TasksOK, MailOK
  <2> QED
    BY <1>2, <2>3 DEF Send, Typed, RowsOK, FaultsOK, roles, results, failures
<1>3. ASSUME Purge PROVE Typed'
  BY <1>3 DEF Purge, Typed, TasksOK, MailOK, RowsOK, FaultsOK, roles, users, results, failures
<1> QED
  BY <1>1, <1>2, <1>3

\* Ages stay within what makes a difference.
LEMMA OlderType ==
  ASSUME NEW limit \in Nat, NEW age \in 0..limit
  PROVE  Older(age, limit) \in 0..limit
BY NoneAssumption DEF Older

\* Time passes.
LEMMA TickType == ASSUME Typed, Tick PROVE Typed'
<1>1. UNCHANGED <<admins, tg, fate, ruling, audited, hit, faults, pc>>
  BY DEF Tick, results, failures
<1>2. changed' \in [Users -> CacheAges]
  BY OlderType, NumbersAssumption DEF Tick, Typed, RowsOK, CacheAges
<1>3. MailOK'
  <2>1. \A u \in Updates : mail[u] \in Mailed => [mail[u] EXCEPT !.age = Older(@, Window)] \in Mailed
    BY OlderType, NumbersAssumption DEF Mailed, SentAges
  <2> QED
    BY <1>1, <2>1 DEF Tick, Typed, MailOK
<1>4. seen' \in [Updates -> SeenAges \cup {None}]
  <2>1. \A u \in Updates : seen[u] \in SeenAges => Older(seen[u], Window + 1) \in SeenAges
    BY OlderType, NumbersAssumption DEF SeenAges
  <2>2. Older(None, Window + 1) = None
    BY DEF Older
  <2> QED
    BY <2>1, <2>2 DEF Tick, Typed, RowsOK
<1>5. rt' \in [Replicas -> Runtime]
  <2>1. \A r \in Replicas : [rt[r] EXCEPT !.age = Older(@, CacheTime)] \in Runtime
    BY OlderType, NumbersAssumption DEF Runtime, CacheAges, Typed, FaultsOK
  <2> QED
    BY <2>1 DEF Tick
<1>6. TasksOK'
  <2>1. \A q \in Tasks : [ctx[q] EXCEPT !.late = pc[q] # "idle"] \in Request
    BY DEF Typed, TasksOK, Request
  <2>2. \A q \in Tasks : pc[q] = "idle" => [ctx[q] EXCEPT !.late = pc[q] # "idle"] = Idle
    <3>1. [Idle EXCEPT !.late = FALSE] = Idle
      BY IdleStays
    <3>2. ASSUME NEW q \in Tasks, pc[q] = "idle"
          PROVE  [ctx[q] EXCEPT !.late = FALSE] = Idle
      BY <3>1, <3>2 DEF Typed, TasksOK
    <3> QED
      BY <3>2
  <2>3. \A q \in Tasks : ctx'[q].update = ctx[q].update /\ ctx'[q].replica = ctx[q].replica
    BY DEF Tick, Typed, TasksOK, Request
  <2> QED
    BY <1>1, <2>1, <2>2, <2>3 DEF Tick, Typed, TasksOK
<1> QED
  BY <1>1, <1>2, <1>3, <1>4, <1>5, <1>6 DEF Typed, RowsOK, FaultsOK

\* A decision of _is_writer, and where it leads.
LEMMA RuleType ==
  ASSUME Typed, NEW q \in Tasks, pc[q] # "idle", NEW granted \in BOOLEAN, NEW stale \in BOOLEAN,
         Rule(q, granted, stale), UNCHANGED <<tg, ctx>>
  PROVE  /\ TasksOK'
         /\ fate' \in [Updates -> AMO!Fates]
         /\ ruling' \in [Updates -> Ruling \cup {None}]
<1> DEFINE u == ctx[q].update
           just == IF granted THEN Could(mail[u].sender) ELSE CouldNot(mail[u].sender)
<1>1. u \in Updates
  BY InProgress
<1>2. \E label \in PCs \ {"idle"} : Goto(q, label)
  BY DEF Rule, PCs
<1>3. TasksOK'
  BY <1>2, Moves DEF Typed
<1>4. fate' = fate \/ fate' = [fate EXCEPT ![u] = "acted"] \/ fate' = [fate EXCEPT ![u] = "denied"]
  BY DEF Rule
<1>5. fate' \in [Updates -> AMO!Fates]
  BY <1>1, <1>4 DEF Typed, RowsOK, AMO!Fates
<1>6. just \in BOOLEAN
  BY DEF Could, CouldNot
<1>7. [granted |-> granted, stale |-> stale, just |-> just] \in Ruling
  BY <1>6, Zenon DEF Ruling
<1>8. \/ ruling' = ruling
      \/ ruling' = [ruling EXCEPT ![u] = [granted |-> granted, stale |-> stale, just |-> just]]
  BY DEF Rule
<1> HIDE DEF just
<1>9. ruling' \in [Updates -> Ruling \cup {None}]
  BY <1>1, <1>7, <1>8 DEF Typed, RowsOK
<1> QED
  BY <1>3, <1>5, <1>9

\* An exception of a handler.
LEMMA FailType ==
  ASSUME Typed, NEW q \in Tasks, pc[q] # "idle", Fail(q), UNCHANGED <<tg, ctx>>
  PROVE  TasksOK' /\ fate' \in [Updates -> AMO!Fates]
<1>1. TasksOK'
  BY Moves DEF Fail, PCs, Typed
<1> QED
  BY <1>1, InProgress DEF Fail, Typed, RowsOK, AMO!Fates

\* Requests up to the gate.
LEMMA ArrivalType ==
  ASSUME Typed, NEW r \in Replicas,
         (\E q \in Tasks, u \in Updates : Deliver(q, u, r)) \/ Probe(r)
  PROVE  Typed'
<1>1. UNCHANGED <<admins, changed, tg, mail, seen, fate, ruling, audited, hit>>
  BY DEF Deliver, Probe, roles, users, results
<1>2. Rebuilt(r) \/ NotRebuilt(r)
  BY DEF Deliver, Probe
<1>3. FaultsOK' /\ MailOK' /\ RowsOK'
  BY <1>1, <1>2, RebuiltType DEF Typed, MailOK, RowsOK
<1>4. Closed(r) \in [Tasks -> Request]
      /\ \A p \in Tasks : pc[p] = "idle" => Closed(r)[p] = Idle
  <2>1. [Idle EXCEPT !.open = FALSE] = Idle
    BY IdleStays
  <2> QED
    BY <2>1, ClosedType DEF Typed, TasksOK, Closed
<1>5. ASSUME ctx' = Closed(r), UNCHANGED pc PROVE TasksOK'
  <2>1. \A p \in Tasks : ctx'[p].update = ctx[p].update /\ ctx'[p].replica = ctx[p].replica
    BY <1>5, ClosedType DEF Typed
  <2>2. ctx' \in [Tasks -> Request] /\ \A p \in Tasks : pc[p] = "idle" => ctx'[p] = Idle
    BY <1>4, <1>5
  <2> QED
    BY <1>1, <1>5, <2>1, <2>2 DEF Typed, TasksOK
<1>6. ASSUME NEW q \in Tasks, NEW u \in Updates, tg[u] = "waiting",
             \E label \in {"me", "mark"} : Goto(q, label),
             ctx' = [Closed(r) EXCEPT
                       ![q] = [update |-> u, replica |-> r, open |-> TRUE, late |-> FALSE]]
      PROVE  TasksOK'
  <2>1. [update |-> u, replica |-> r, open |-> TRUE, late |-> FALSE] \in Request
    BY DEF Request
  <2>2. ctx' \in [Tasks -> Request] /\ pc' \in [Tasks -> PCs] /\ pc'[q] # "idle"
    BY <1>4, <1>6, <2>1 DEF Typed, TasksOK, Goto, PCs
  <2>3. ASSUME NEW p \in Tasks, p # q
        PROVE  /\ pc'[p] = pc[p]
               /\ pc[p] = "idle" => ctx'[p] = Idle
               /\ ctx'[p].update = ctx[p].update /\ ctx'[p].replica = ctx[p].replica
    BY <1>4, <1>6, <2>3, ClosedType DEF Typed, TasksOK, Goto
  <2>4. ctx'[q].update = u /\ ctx'[q].replica = r
    BY <1>4, <1>6
  <2> QED
    BY <1>1, <1>6, <2>2, <2>3, <2>4 DEF Typed, TasksOK
<1>7. TasksOK'
  <2>1. CASE Probe(r)
    BY <1>5, <2>1 DEF Probe
  <2>2. ASSUME NEW q \in Tasks, NEW u \in Updates, Deliver(q, u, r) PROVE TasksOK'
    <3>1. tg[u] = "waiting"
      BY <2>2 DEF Deliver
    <3>2. CASE ctx' = Closed(r) /\ UNCHANGED pc
      BY <1>5, <3>2
    <3>3. CASE /\ Goto(q, IF mail[u].kind = "press" \/ rt'[r].me THEN "mark" ELSE "me")
               /\ ctx' = [Closed(r) EXCEPT
                     ![q] = [update |-> u, replica |-> r, open |-> TRUE, late |-> FALSE]]
      BY <1>6, <3>1, <3>3
    <3> QED
      BY <2>2, <3>2, <3>3 DEF Deliver
  <2> QED
    BY <2>1, <2>2
<1> QED
  BY <1>3, <1>7 DEF Typed

\* A request that asks for the bot's name or takes its update.
LEMMA EarlyType ==
  ASSUME Typed, NEW q \in Tasks, EnsureMe(q) \/ Mark(q)
  PROVE  Typed'
<1> DEFINE u == ctx[q].update
           r == ctx[q].replica
<1>1. pc[q] # "idle"
  BY DEF EnsureMe, Mark, At
<1>2. u \in Updates /\ r \in Replicas
  BY <1>1, InProgress
<1>3. UNCHANGED <<admins, changed, tg, mail, ruling, audited>>
  BY DEF EnsureMe, Mark, roles, users, results
<1>4. MailOK'
  BY <1>3 DEF Typed, MailOK
<1>5. CASE EnsureMe(q)
  <2>1. RowsOK'
    BY <1>3, <1>5 DEF EnsureMe, Typed, RowsOK, results
  <2>2. (Goto(q, "mark") /\ UNCHANGED ctx) \/ Refused(q)
    BY <1>5 DEF EnsureMe
  <2>3. TasksOK'
    BY <1>1, <1>3, <2>2, Moves, Ends DEF Typed, PCs
  <2>4. rt' = rt \/ rt' = [rt EXCEPT ![r] = [rt[r] EXCEPT !.me = TRUE]]
    BY <1>5 DEF EnsureMe
  <2>5. rt' \in [Replicas -> Runtime]
    <3>1. [rt[r] EXCEPT !.me = TRUE] \in Runtime
      BY <1>2 DEF Typed, FaultsOK, Runtime
    <3> QED
      BY <1>2, <2>4, <3>1 DEF Typed, FaultsOK
  <2>6. faults' \in 0..MaxFaults /\ hit' = hit
    BY <1>5, NumbersAssumption DEF EnsureMe, Fault, Typed, FaultsOK
  <2> QED
    BY <1>4, <2>1, <2>3, <2>5, <2>6 DEF Typed, FaultsOK
<1>6. CASE Mark(q)
  <2>1. seen' = seen \/ seen' = [seen EXCEPT ![u] = 0]
    BY <1>6 DEF Mark, Take
  <2>2. fate' = fate \/ fate' = [fate EXCEPT ![u] = "taken"] \/ fate' = [fate EXCEPT ![u] = "lost"]
    BY <1>6 DEF Mark, Take
  <2>3. RowsOK'
    BY <1>2, <1>3, <2>1, <2>2, NumbersAssumption DEF Typed, RowsOK, SeenAges, AMO!Fates
  <2>4. \/ \E label \in PCs \ {"idle"} : Goto(q, label) /\ UNCHANGED ctx
        \/ Refused(q)
    BY <1>6 DEF Mark, PCs
  <2>5. TasksOK'
    BY <1>1, <1>3, <2>4, Moves, Ends DEF Typed
  <2>6. Cut(r, u) \/ UNCHANGED <<rt, failures>>
    BY <1>6 DEF Mark
  <2>7. FaultsOK'
    BY <1>2, <2>6, CutType DEF Typed, FaultsOK, failures
  <2> QED
    BY <1>4, <2>3, <2>5, <2>7 DEF Typed
<1> QED
  BY <1>5, <1>6

\* A request that is ruled upon.
LEMMA RulingType ==
  ASSUME Typed, NEW q \in Tasks, Gate(q) \/ Lookup(q)
  PROVE  Typed'
<1> DEFINE u == ctx[q].update
           r == ctx[q].replica
           sender == mail[u].sender
<1>1. pc[q] # "idle"
  BY DEF Gate, Lookup, At
<1>2. u \in Updates /\ r \in Replicas
  BY <1>1, InProgress
<1>3. UNCHANGED <<admins, changed, tg, mail, seen, audited, hit, ctx>>
  BY DEF Gate, Lookup, roles, users, failures
<1>4. MailOK'
  BY <1>3 DEF Typed, MailOK
<1>5. rt[r].ids \subseteq Users /\ rt[r].stale \in BOOLEAN
  BY <1>2 DEF Typed, FaultsOK, Runtime
<1>6. CASE Gate(q)
  <2>1. FaultsOK'
    BY <1>6 DEF Gate, Typed, FaultsOK, failures
  <2>2. \/ Fail(q) /\ UNCHANGED ruling
        \/ Goto(q, "answer") /\ fate' = [fate EXCEPT ![u] = "ignored"] /\ UNCHANGED ruling
        \/ Rule(q, TRUE, FALSE)
        \/ Rule(q, sender \in rt[r].ids, rt[r].stale)
        \/ Goto(q, "lookup") /\ UNCHANGED <<fate, ruling>>
    BY <1>6 DEF Gate
  <2>3. TasksOK' /\ fate' \in [Updates -> AMO!Fates] /\ ruling' \in [Updates -> Ruling \cup {None}]
    <3>1. CASE Fail(q) /\ UNCHANGED ruling
      BY <1>1, <1>3, <3>1, FailType DEF Typed, RowsOK
    <3>2. CASE Goto(q, "answer") /\ fate' = [fate EXCEPT ![u] = "ignored"] /\ UNCHANGED ruling
      BY <1>1, <1>2, <1>3, <3>2, Moves DEF Typed, RowsOK, AMO!Fates, PCs
    <3>3. CASE Rule(q, TRUE, FALSE)
      BY <1>1, <1>3, <3>3, RuleType
    <3>4. CASE Rule(q, sender \in rt[r].ids, rt[r].stale)
      <4>1. (sender \in rt[r].ids) \in BOOLEAN
        OBVIOUS
      <4> QED
        BY <1>1, <1>3, <1>5, <3>4, <4>1, RuleType
    <3>5. CASE Goto(q, "lookup") /\ UNCHANGED <<fate, ruling>>
      BY <1>1, <1>3, <3>5, Moves DEF Typed, RowsOK, PCs
    <3> QED
      BY <2>2, <3>1, <3>2, <3>3, <3>4, <3>5
  <2> QED
    BY <1>3, <1>4, <2>1, <2>3 DEF Typed, RowsOK
<1>7. CASE Lookup(q)
  <2>1. \/ rt' = rt
        \/ rt' = [rt EXCEPT ![r] = [@ EXCEPT !.age = 0, !.ids = admins, !.stale = FALSE]]
        \/ rt' = [rt EXCEPT ![r] = [@ EXCEPT !.age = 0, !.stale = TRUE]]
    BY <1>7 DEF Lookup
  <2>2. rt' \in [Replicas -> Runtime]
    <3>0. rt[r] \in Runtime /\ 0 \in CacheAges /\ admins \in SUBSET Users
      BY <1>2, NumbersAssumption DEF Typed, FaultsOK, RowsOK, CacheAges
    <3>1. [rt[r] EXCEPT !.age = 0, !.ids = admins, !.stale = FALSE] \in Runtime
      BY <3>0 DEF Runtime
    <3>2. [rt[r] EXCEPT !.age = 0, !.stale = TRUE] \in Runtime
      BY <3>0 DEF Runtime
    <3> QED
      BY <1>2, <2>1, <3>1, <3>2 DEF Typed, FaultsOK
  <2>3. faults' \in 0..MaxFaults
    <3>1. faults' = faults \/ (faults < MaxFaults /\ faults' = faults + 1)
      <4>1. UNCHANGED faults \/ UNCHANGED <<rt, faults>> \/ Fault
        BY <1>7, Zenon DEF Lookup
      <4> QED
        BY <4>1 DEF Fault
    <3> QED
      BY <3>1, NumbersAssumption DEF Typed, FaultsOK
  <2>4. rt'[r].stale \in BOOLEAN /\ (sender \in rt'[r].ids) \in BOOLEAN
    BY <1>2, <2>2 DEF Runtime
  <2>5. \/ Fail(q) /\ UNCHANGED ruling
        \/ Rule(q, sender \in rt'[r].ids, rt'[r].stale)
        \/ \E granted \in BOOLEAN : Rule(q, granted, TRUE)
    BY <1>7 DEF Lookup
  <2>6. TasksOK' /\ fate' \in [Updates -> AMO!Fates] /\ ruling' \in [Updates -> Ruling \cup {None}]
    <3>1. CASE Fail(q) /\ UNCHANGED ruling
      BY <1>1, <1>3, <3>1, FailType DEF Typed, RowsOK
    <3>2. CASE Rule(q, sender \in rt'[r].ids, rt'[r].stale)
      BY <1>1, <1>3, <2>4, <3>2, RuleType
    <3>3. CASE \E granted \in BOOLEAN : Rule(q, granted, TRUE)
      BY <1>1, <1>3, <3>3, RuleType
    <3> QED
      BY <2>5, <3>1, <3>2, <3>3
  <2> QED
    BY <1>3, <1>4, <2>2, <2>3, <2>6 DEF Typed, RowsOK, FaultsOK
<1> QED
  BY <1>6, <1>7

\* A request that acts, refuses, audits and answers.
LEMMA LateType ==
  ASSUME Typed, NEW q \in Tasks, Act(q) \/ Refuse(q) \/ Audit(q) \/ Answer(q)
  PROVE  Typed'
<1> DEFINE u == ctx[q].update
           r == ctx[q].replica
<1>1. pc[q] # "idle"
  BY DEF Act, Refuse, Audit, Answer, At
<1>2. u \in Updates /\ r \in Replicas /\ mail[u] \in Mailed
  BY <1>1, InProgress
<1>3. CASE Act(q)
  <2>1. UNCHANGED <<admins, changed, tg, mail, seen, ruling, audited, ctx>>
    BY <1>3 DEF Act, roles, users
  <2>2. \E label \in PCs \ {"idle"} : Goto(q, label)
    BY <1>3 DEF Act, Fail, PCs
  <2>3. \E f \in {"acted", "lost"} : fate' = [fate EXCEPT ![u] = f]
    BY <1>3 DEF Act, Fail
  <2>4. Cut(r, u) \/ UNCHANGED <<rt, failures>>
    BY <1>3 DEF Act
  <2>5. TasksOK'
    BY <1>1, <2>1, <2>2, Moves DEF Typed
  <2>6. RowsOK'
    BY <1>2, <2>1, <2>3 DEF Typed, RowsOK, AMO!Fates
  <2>7. FaultsOK'
    BY <1>2, <2>4, CutType DEF Typed, FaultsOK, failures
  <2> QED
    BY <2>1, <2>5, <2>6, <2>7 DEF Typed, MailOK
<1>4. CASE Refuse(q)
  <2>1. UNCHANGED <<roles, users, seen, rt, results, failures, ctx>>
    BY <1>4 DEF Refuse
  <2>2. \E label \in PCs \ {"idle"} : Goto(q, label)
    BY <1>4 DEF Refuse, PCs
  <2>3. TasksOK'
    BY <1>1, <2>1, <2>2, Moves DEF Typed, users
  <2> QED
    BY <2>1, <2>3 DEF Typed, MailOK, RowsOK, FaultsOK, roles, users, results, failures
<1>5. CASE Audit(q)
  <2>1. UNCHANGED <<admins, changed, tg, mail, seen, fate, ruling, ctx>>
    BY <1>5 DEF Audit, roles, users
  <2>2. Goto(q, "answer")
    BY <1>5 DEF Audit
  <2>3. Cut(r, u) \/ UNCHANGED <<rt, failures>>
    BY <1>5 DEF Audit
  <2>4. audited' \subseteq Updates
    BY <1>2, <1>5 DEF Audit, Typed, RowsOK
  <2>5. TasksOK'
    BY <1>1, <2>1, <2>2, Moves DEF Typed, PCs
  <2>6. FaultsOK'
    BY <1>2, <2>3, CutType DEF Typed, FaultsOK, failures
  <2> QED
    BY <2>1, <2>4, <2>5, <2>6 DEF Typed, MailOK, RowsOK
<1>6. CASE Answer(q)
  <2>1. UNCHANGED <<admins, changed, seen, rt, fate, ruling, audited, hit>> /\ Refused(q)
    BY <1>6 DEF Answer, roles, results
  <2>2. \/ tg' = [tg EXCEPT ![u] = "answered"] /\ mail' = [mail EXCEPT ![u].age = 0]
        \/ UNCHANGED users
    BY <1>6 DEF Answer
  <2>3. [mail[u] EXCEPT !.age = 0] \in Mailed
    BY <1>2, NumbersAssumption DEF Mailed, SentAges
  <2>4. MailOK' /\ \A v \in Updates : tg[v] # "unsent" => tg'[v] # "unsent"
    <3>1. CASE tg' = [tg EXCEPT ![u] = "answered"] /\ mail' = [mail EXCEPT ![u].age = 0]
      <4>1. mail' = [mail EXCEPT ![u] = [mail[u] EXCEPT !.age = 0]]
        BY <3>1
      <4> QED
        BY <1>2, <2>3, <3>1, <4>1 DEF Typed, MailOK
    <3>2. CASE UNCHANGED users
      BY <3>2 DEF Typed, MailOK, users
    <3> QED
      BY <2>2, <3>1, <3>2
  <2>5. TasksOK'
    BY <2>1, <2>4, Ends DEF Typed
  <2>6. faults' \in 0..MaxFaults
    BY <1>6, NumbersAssumption DEF Answer, Fault, Typed, FaultsOK
  <2> QED
    BY <2>1, <2>4, <2>5, <2>6 DEF Typed, RowsOK, FaultsOK
<1> QED
  BY <1>3, <1>4, <1>5, <1>6

\* Dropped sessions and replicas that die.
LEMMA FaultType ==
  ASSUME Typed, NEW r \in Replicas, DropSession(r) \/ CrashReplica(r)
  PROVE  Typed'
<1>1. faults' \in 0..MaxFaults /\ hit' \subseteq Updates
  BY InHandType, NumbersAssumption DEF DropSession, CrashReplica, Fault, Typed, FaultsOK
<1>2. UNCHANGED <<admins, changed, tg, mail, seen, ruling, audited>>
  BY DEF DropSession, CrashReplica, roles, users, results
<1>3. [rt[r] EXCEPT !.up = FALSE] \in Runtime /\ NoRuntime \in Runtime
  <2>1. rt[r] \in Runtime
    BY DEF Typed, FaultsOK
  <2>2. [rt[r] EXCEPT !.up = FALSE] \in Runtime
    BY <2>1 DEF Runtime
  <2>3. NoRuntime \in Runtime
    BY NumbersAssumption DEF Runtime, NoRuntime, CacheAges
  <2> QED
    BY <2>2, <2>3
<1>4. rt' = [rt EXCEPT ![r] = [rt[r] EXCEPT !.up = FALSE]] \/ rt' = [rt EXCEPT ![r] = NoRuntime]
  BY DEF DropSession, CrashReplica
<1>5. rt' \in [Replicas -> Runtime]
  BY <1>3, <1>4 DEF Typed, FaultsOK
<1>6. fate' \in [Updates -> AMO!Fates]
  BY DEF DropSession, CrashReplica, results, Typed, RowsOK, AMO!Fates
<1>7. TasksOK'
  <2>1. CASE DropSession(r)
    BY <1>2, <2>1 DEF DropSession, Typed, TasksOK
  <2>2. CASE CrashReplica(r)
    <3>1. Idle \in Request
      BY DEF Idle, Request
    <3>2. \A q \in Tasks : (pc'[q] = "idle" /\ ctx'[q] = Idle) \/ (pc'[q] = pc[q] /\ ctx'[q] = ctx[q])
      BY <2>2 DEF CrashReplica
    <3>3. pc' \in [Tasks -> PCs] /\ ctx' \in [Tasks -> Request]
      BY <2>2, <3>1 DEF CrashReplica, Typed, TasksOK, PCs
    <3> QED
      BY <1>2, <3>2, <3>3 DEF Typed, TasksOK
  <2> QED
    BY <2>1, <2>2
<1> QED
  BY <1>1, <1>2, <1>5, <1>6, <1>7 DEF Typed, MailOK, RowsOK, FaultsOK

\* Every step keeps the types.
LEMMA StepTyped == Typed /\ [Next]_vars => Typed'
<1> SUFFICES ASSUME Typed, [Next]_vars PROVE Typed'
  OBVIOUS
<1>1. CASE \E q \in Tasks : Step(q)
  BY <1>1, EarlyType, RulingType, LateType DEF Step
<1>2. CASE \E q \in Tasks, u \in Updates, r \in Replicas : Deliver(q, u, r)
  BY <1>2, ArrivalType
<1>3. CASE (\E u \in Updates : Send(u)) \/ (\E w \in Users : ChangeRole(w)) \/ Purge
  BY <1>3, WorldType
<1>4. CASE \E r \in Replicas : Probe(r) \/ DropSession(r) \/ CrashReplica(r)
  BY <1>4, ArrivalType, FaultType
<1>5. CASE Tick
  BY <1>5, TickType
<1>6. CASE UNCHANGED vars
  BY <1>6 DEF vars, roles, users, results, failures, Typed, TasksOK, MailOK, RowsOK, FaultsOK
<1> QED
  BY <1>1, <1>2, <1>3, <1>4, <1>5, <1>6 DEF Next

\* Whatever users, Telegram, replicas and PostgreSQL do, every state is well typed.
THEOREM TypeCorrect == Spec => []TypeOK
<1>1. Typed => TypeOK
  BY DEF Typed, TasksOK, MailOK, RowsOK, FaultsOK, Mailed, Request, TypeOK
<1> QED
  BY <1>1, InitTyped, StepTyped, PTL DEF Spec

-----------------------------------------------------------------------------
(* The gate: why an update that was taken is not taken again *)

Early == {"me", "mark"}
Holding == {"gate", "lookup", "act"}
Closing == {"refuse", "audit"}

\* seen_updates has u since no longer than that.
Remembered(u, age) == seen[u] # None /\ seen[u] <= age

\* While Telegram may deliver u, or a request with it is on its way to the gate, the row of a taken
\* update is too young to be purged: it is not older than the first delivery, a delivery is younger than
\* Window, and a request is over before the clock ticks twice.
GateInv ==
  /\ \A u \in Updates : tg[u] = "unsent" => fate[u] = "new"
  /\ \A u \in Updates : tg[u] = "waiting" /\ mail[u].age < Window =>
       fate[u] = "new" \/ Remembered(u, mail[u].age)
  /\ \A q \in Tasks : pc[q] \in Early =>
       \/ fate[ctx[q].update] = "new"
       \/ Remembered(ctx[q].update, IF ctx[q].late THEN Window ELSE Window - 1)
  /\ \A u \in Updates : seen[u] # None => fate[u] # "new"
  /\ \A q \in Tasks : pc[q] \in Holding => fate[ctx[q].update] = "taken"
  /\ \A p, q \in Tasks :
       pc[p] \in Holding /\ pc[q] \in Holding /\ ctx[p].update = ctx[q].update => p = q
  /\ \A q \in Tasks : pc[q] \notin Early \cup {"idle"} => fate[ctx[q].update] # "new"
  /\ \A q \in Tasks : pc[q] \in Closing => fate[ctx[q].update] \in {"acted", "denied"}

\* What has become of the updates changes as AtMostOnce says, if at all.
Promised == AMO!Next \/ UNCHANGED fate

\* Nothing has been sent.
LEMMA InitGate == Init => GateInv
BY DEF Init, GateInv, Early, Holding, Closing

\* A taken update is settled or lost.
LEMMA Settled ==
  ASSUME NEW u \in Updates, fate \in [Updates -> AMO!Fates],
         NEW f \in {"acted", "denied", "ignored", "lost"},
         fate[u] = "taken" \/ (fate[u] = "new" /\ f = "lost"), fate' = [fate EXCEPT ![u] = f]
  PROVE  AMO!Next
<1>1. CASE f = "lost"
  <2>1. {u} \in SUBSET {v \in Updates : fate[v] \in {"new", "taken"}}
    OBVIOUS
  <2>2. fate' = [v \in Updates |-> IF v \in {u} THEN "lost" ELSE fate[v]]
    BY <1>1
  <2>3. AMO!Lose
    BY <2>1, <2>2 DEF AMO!Lose
  <2> QED
    BY <2>3 DEF AMO!Next
<1>2. CASE f # "lost"
  BY <1>2 DEF AMO!Next, AMO!Settle, AMO!Become
<1> QED
  BY <1>1, <1>2

\* A request that is past the gate goes on: it holds its update no longer than the update is taken.
LEMMA GoesOn ==
  ASSUME Typed, GateInv, UNCHANGED <<tg, mail, seen, ctx>>, NEW q \in Tasks,
         pc[q] \notin Early \cup {"idle"}, NEW label \in PCs \ (Early \cup {"idle"}), Goto(q, label),
         \/ /\ fate' = fate /\ (label \in Holding => pc[q] \in Holding)
            /\ label \in Closing => pc[q] \in Closing
         \/ /\ pc[q] \in Holding /\ label \notin Holding
            /\ \E f \in {"acted", "denied", "ignored", "lost"} :
                 /\ fate' = [fate EXCEPT ![ctx[q].update] = f]
                 /\ label \in Closing => f \in {"acted", "denied"}
  PROVE  GateInv' /\ Promised
<1> DEFINE u == ctx[q].update
<1>1. u \in Updates
  BY InProgress
<1>2. pc' \in [Tasks -> PCs] /\ pc'[q] = label /\ \A p \in Tasks \ {q} : pc'[p] = pc[p]
  BY DEF Typed, TasksOK, Goto
<1>3. fate \in [Updates -> AMO!Fates]
  BY DEF Typed, RowsOK
<1>4. CASE /\ fate' = fate /\ (label \in Holding => pc[q] \in Holding)
           /\ label \in Closing => pc[q] \in Closing
  BY <1>2, <1>4 DEF GateInv, Remembered, Promised
<1>5. ASSUME pc[q] \in Holding, label \notin Holding,
             NEW f \in {"acted", "denied", "ignored", "lost"}, fate' = [fate EXCEPT ![u] = f],
             label \in Closing => f \in {"acted", "denied"}
      PROVE  GateInv' /\ Promised
  <2>1. fate[u] = "taken"
    BY <1>5 DEF GateInv
  <2>2. Promised
    BY <1>1, <1>3, <1>5, <2>1, Settled DEF Promised
  <2>3. fate'[u] = f /\ \A v \in Updates \ {u} : fate'[v] = fate[v]
    BY <1>1, <1>3, <1>5
  <2>4. \A p \in Tasks : pc[p] \in Holding /\ p # q => ctx[p].update # u
    BY <1>5 DEF GateInv
  <2>5. \A p \in Tasks : pc[p] # "idle" => ctx[p].update \in Updates
    BY InProgress
  <2>6. "idle" \notin Holding /\ "idle" \notin Early
    BY DEF Holding, Early
  <2>7. \A v \in Updates : tg'[v] = "unsent" => fate'[v] = "new"
    BY <2>1, <2>3 DEF GateInv
  <2>8. \A v \in Updates : tg'[v] = "waiting" /\ mail'[v].age < Window =>
          fate'[v] = "new" \/ Remembered(v, mail[v].age)'
    BY <2>1, <2>3 DEF GateInv, Remembered
  <2>9. \A p \in Tasks : pc'[p] \in Early =>
          \/ fate'[ctx'[p].update] = "new"
          \/ Remembered(ctx[p].update, IF ctx[p].late THEN Window ELSE Window - 1)'
    BY <1>2, <2>1, <2>3, <2>5, <2>6 DEF GateInv, Remembered
  <2>10. \A v \in Updates : seen'[v] # None => fate'[v] # "new"
    BY <2>3 DEF GateInv
  <2>11. \A p \in Tasks : pc'[p] \in Holding => fate'[ctx'[p].update] = "taken"
    BY <1>2, <1>5, <2>3, <2>4, <2>5, <2>6 DEF GateInv
  <2>12. \A p, s \in Tasks :
           pc'[p] \in Holding /\ pc'[s] \in Holding /\ ctx'[p].update = ctx'[s].update => p = s
    BY <1>2, <1>5 DEF GateInv
  <2>13. \A p \in Tasks : pc'[p] \notin Early \cup {"idle"} => fate'[ctx'[p].update] # "new"
    BY <1>2, <2>3, <2>5 DEF GateInv
  <2>14. \A p \in Tasks : pc'[p] \in Closing => fate'[ctx'[p].update] \in {"acted", "denied"}
    <3>1. \A p \in Tasks : pc[p] \in Closing => ctx[p].update # u
      BY <2>1 DEF GateInv
    <3> QED
      BY <1>2, <1>5, <2>3, <2>5, <3>1 DEF GateInv, Closing
  <2> QED
    BY <2>2, <2>7, <2>8, <2>9, <2>10, <2>11, <2>12, <2>13, <2>14 DEF GateInv
<1> QED
  BY <1>4, <1>5

\* Requests after the gate.
LEMMA PastGate ==
  ASSUME Typed, GateInv, NEW q \in Tasks,
         Gate(q) \/ Lookup(q) \/ Act(q) \/ Refuse(q) \/ Audit(q)
  PROVE  GateInv' /\ Promised
<1> DEFINE u == ctx[q].update
<1>1. UNCHANGED <<tg, mail, seen, ctx>>
  BY DEF Gate, Lookup, Act, Refuse, Audit, users
<1>2. ASSUME pc[q] \in {"gate", "lookup"}, NEW granted, NEW stale, Rule(q, granted, stale)
      PROVE  GateInv' /\ Promised
  <2>1. CASE \E f \in {"acted", "denied"}, label \in {"answer", "refuse"} :
               Goto(q, label) /\ fate' = [fate EXCEPT ![u] = f]
    BY <1>1, <1>2, <2>1, GoesOn DEF Early, Holding, Closing, PCs
  <2>2. CASE Goto(q, "act") /\ UNCHANGED fate
    BY <1>1, <1>2, <2>2, GoesOn DEF Early, Holding, Closing, PCs
  <2> QED
    BY <1>2, <2>1, <2>2 DEF Rule
<1>3. ASSUME pc[q] \in Holding, Fail(q) PROVE GateInv' /\ Promised
  BY <1>1, <1>3, GoesOn DEF Fail, Early, Holding, Closing, PCs
<1>4. CASE Gate(q)
  <2>1. pc[q] = "gate"
    BY <1>4 DEF Gate, At
  <2>2. CASE Fail(q)
    BY <1>3, <2>1, <2>2 DEF Holding
  <2>3. CASE Goto(q, "answer") /\ fate' = [fate EXCEPT ![u] = "ignored"]
    BY <1>1, <2>1, <2>3, GoesOn DEF Early, Holding, Closing, PCs
  <2>4. CASE Goto(q, "lookup") /\ UNCHANGED fate
    BY <1>1, <2>1, <2>4, GoesOn DEF Early, Holding, Closing, PCs
  <2>5. CASE Rule(q, TRUE, FALSE)
    BY <1>2, <2>1, <2>5
  <2>6. CASE Rule(q, mail[u].sender \in rt[ctx[q].replica].ids, rt[ctx[q].replica].stale)
    BY <1>2, <2>1, <2>6
  <2> QED
    BY <1>4, <2>2, <2>3, <2>4, <2>5, <2>6 DEF Gate
<1>5. CASE Lookup(q)
  <2>1. pc[q] = "lookup"
    BY <1>5 DEF Lookup, At
  <2>2. Fail(q) \/ \E granted, stale : Rule(q, granted, stale)
    BY <1>5 DEF Lookup
  <2> QED
    BY <1>2, <1>3, <2>1, <2>2 DEF Holding
<1>6. CASE Act(q)
  <2>1. pc[q] = "act"
    BY <1>6 DEF Act, At
  <2>2. \E f \in {"acted", "lost"}, label \in {"answer", "audit"} :
           /\ Goto(q, label) /\ fate' = [fate EXCEPT ![u] = f]
           /\ label = "audit" => f = "acted"
    BY <1>6 DEF Act, Fail
  <2> QED
    BY <1>1, <2>1, <2>2, GoesOn DEF Early, Holding, Closing, PCs
<1>7. CASE Refuse(q) \/ Audit(q)
  <2>1. pc[q] \in {"refuse", "audit"} /\ fate' = fate
    BY <1>7 DEF Refuse, Audit, At, results
  <2>2. \E label \in {"answer", "audit"} : Goto(q, label)
    BY <1>7 DEF Refuse, Audit
  <2> QED
    BY <1>1, <2>1, <2>2, GoesOn DEF Early, Holding, Closing, PCs
<1> QED
  BY <1>4, <1>5, <1>6, <1>7

\* Users and the purge.  The purge forgets nothing that may still be delivered.
LEMMA WorldGate ==
  ASSUME Typed, GateInv, (\E w \in Users : ChangeRole(w)) \/ (\E u \in Updates : Send(u)) \/ Purge
  PROVE  GateInv' /\ Promised
<1>1. CASE \E w \in Users : ChangeRole(w)
  BY <1>1 DEF ChangeRole, users, results, GateInv, Remembered, Promised
<1>2. ASSUME NEW u \in Updates, Send(u) PROVE GateInv' /\ Promised
  <2>1. UNCHANGED <<seen, fate, pc, ctx>> /\ fate[u] = "new"
    BY <1>2 DEF Send, results, GateInv
  <2>2. tg'[u] = "waiting" /\ \A v \in Updates \ {u} : tg'[v] = tg[v] /\ mail'[v] = mail[v]
    BY <1>2 DEF Send, Typed, MailOK
  <2> QED
    BY <2>1, <2>2 DEF GateInv, Remembered, Promised
<1>3. CASE Purge
  <2>1. UNCHANGED <<tg, mail, fate, pc, ctx>>
    BY <1>3 DEF Purge, users, results
  <2>2. \A u \in Updates : seen'[u] = None \/ seen'[u] = seen[u]
    BY <1>3 DEF Purge
  <2>3. \A u \in Updates, age \in 0..Window : Remembered(u, age) => Remembered(u, age)'
    BY <1>3, NumbersAssumption DEF Purge, Remembered, Typed, RowsOK, SeenAges
  <2>4. \A u \in Updates : tg[u] = "waiting" => mail[u].age \in 0..Window
    BY DEF Typed, MailOK, Mailed, SentAges
  <2>5. Window \in 0..Window /\ Window - 1 \in 0..Window
    BY NumbersAssumption
  <2>6. \A q \in Tasks : pc[q] \in Early => ctx[q].update \in Updates
    BY InProgress DEF Early
  <2>7. \A u \in Updates : tg[u] = "waiting" /\ mail[u].age < Window =>
          fate[u] = "new" \/ Remembered(u, mail[u].age)'
    BY <2>1, <2>3, <2>4 DEF GateInv
  <2>8. \A q \in Tasks : pc[q] \in Early =>
          \/ fate[ctx[q].update] = "new"
          \/ Remembered(ctx[q].update, IF ctx[q].late THEN Window ELSE Window - 1)'
    BY <2>1, <2>3, <2>5, <2>6 DEF GateInv
  <2> QED
    BY <2>1, <2>2, <2>7, <2>8 DEF GateInv, Promised
<1> QED
  BY <1>1, <1>2, <1>3

\* Time passes: the row of an update grows no older than the update, and a request is late but once.
LEMMA TickGate == ASSUME Typed, GateInv, Tick PROVE GateInv' /\ Promised
<1>1. UNCHANGED <<tg, fate, pc>> /\ \A q \in Tasks : ~ctx[q].late
  BY DEF Tick, results
<1>2. \A q \in Tasks : ctx'[q].update = ctx[q].update /\ (pc[q] # "idle" => ctx'[q].late)
  BY DEF Tick, Typed, TasksOK, Request
<1>3. \A u \in Updates : seen[u] \in SeenAges \cup {None} /\ seen'[u] = Older(seen[u], Window + 1)
  BY DEF Tick, Typed, RowsOK
<1>4. \A u \in Updates : seen'[u] # None => seen[u] # None
  BY <1>3 DEF Older
<1>5. \A u \in Updates : tg[u] = "waiting" =>
        mail[u].age \in 0..Window /\ mail'[u].age = Older(mail[u].age, Window)
  BY DEF Tick, Typed, MailOK, Mailed, SentAges
<1>6. ASSUME NEW u \in Updates, tg'[u] = "waiting", mail'[u].age < Window
      PROVE  fate'[u] = "new" \/ Remembered(u, mail[u].age)'
  <2> DEFINE age == mail[u].age
  <2>1. age \in 0..(Window - 1) /\ mail'[u].age = age + 1
    BY <1>1, <1>5, <1>6, NumbersAssumption, NoneAssumption DEF Older
  <2>2. fate[u] = "new" \/ Remembered(u, age)
    BY <1>1, <1>6, <2>1, NumbersAssumption DEF GateInv
  <2>3. Remembered(u, age) => seen'[u] # None /\ seen'[u] <= age + 1
    BY <1>3, <2>1, NumbersAssumption, NoneAssumption DEF Remembered, Older, SeenAges
  <2>4. fate'[u] = "new" \/ (seen'[u] # None /\ seen'[u] <= mail'[u].age)
    BY <1>1, <2>1, <2>2, <2>3
  <2> QED
    BY <2>4 DEF Remembered
<1>7. ASSUME NEW q \in Tasks, pc'[q] \in Early
      PROVE  \/ fate'[ctx'[q].update] = "new"
             \/ Remembered(ctx[q].update, IF ctx[q].late THEN Window ELSE Window - 1)'
  <2>1. pc[q] \in Early /\ ctx[q].update \in Updates /\ ~ctx[q].late /\ ctx'[q].late
    BY <1>1, <1>2, <1>7, InProgress DEF Early
  <2>2. fate[ctx[q].update] = "new" \/ Remembered(ctx[q].update, Window - 1)
    BY <2>1 DEF GateInv
  <2>3. Remembered(ctx[q].update, Window - 1) => seen'[ctx[q].update] # None /\ seen'[ctx[q].update] <= Window
    BY <1>3, <2>1, NumbersAssumption, NoneAssumption DEF Remembered, Older, SeenAges
  <2> QED
    BY <1>1, <1>2, <2>1, <2>2, <2>3 DEF Remembered
<1> QED
  BY <1>1, <1>2, <1>4, <1>6, <1>7 DEF GateInv, Promised

\* A delivery is younger than Window; requests whose session is closed are no different to the gate.
LEMMA ArrivalGate ==
  ASSUME Typed, GateInv, NEW r \in Replicas,
         (\E q \in Tasks, u \in Updates : Deliver(q, u, r)) \/ Probe(r)
  PROVE  GateInv' /\ Promised
<1>1. UNCHANGED <<tg, mail, seen, fate>>
  BY DEF Deliver, Probe, users, results
<1>2. \A p \in Tasks : Closed(r)[p].update = ctx[p].update /\ Closed(r)[p].late = ctx[p].late
  BY ClosedType DEF Typed
<1>3. Closed(r) \in [Tasks -> Request]
  BY ClosedType DEF Typed
<1>4. ASSUME ctx' = Closed(r), UNCHANGED pc PROVE GateInv'
  BY <1>1, <1>2, <1>4 DEF GateInv, Remembered
<1>5. ASSUME NEW q \in Tasks, NEW u \in Updates, pc[q] = "idle", tg[u] = "waiting", mail[u].age < Window,
             NEW label \in Early, Goto(q, label),
             ctx' = [Closed(r) EXCEPT
                       ![q] = [update |-> u, replica |-> r, open |-> TRUE, late |-> FALSE]]
      PROVE  GateInv'
  <2>1. pc'[q] = label /\ \A p \in Tasks \ {q} : pc'[p] = pc[p]
    BY <1>5 DEF Typed, TasksOK, Goto
  <2>2. /\ ctx'[q].update = u /\ ~ctx'[q].late
        /\ \A p \in Tasks \ {q} : ctx'[p].update = ctx[p].update /\ ctx'[p].late = ctx[p].late
    BY <1>2, <1>3, <1>5
  <2>3. mail[u].age \in 0..Window
    BY <1>5 DEF Typed, MailOK, Mailed, SentAges
  <2>4. fate[u] = "new" \/ Remembered(u, Window - 1)
    BY <1>5, <2>3, NumbersAssumption, NoneAssumption DEF GateInv, Remembered, Typed, RowsOK, SeenAges
  <2>5. /\ "idle" \notin Holding /\ label \notin Holding
        /\ "idle" \notin Closing /\ label \notin Closing
    BY DEF Holding, Closing, Early
  <2>6. \A p \in Tasks : pc'[p] \in Early =>
          \/ fate'[ctx'[p].update] = "new"
          \/ Remembered(ctx[p].update, IF ctx[p].late THEN Window ELSE Window - 1)'
    BY <1>1, <2>1, <2>2, <2>4 DEF GateInv, Remembered
  <2> QED
    BY <1>1, <2>1, <2>2, <2>5, <2>6 DEF GateInv, Remembered
<1>6. GateInv'
  <2>1. CASE Probe(r)
    BY <1>4, <2>1 DEF Probe
  <2>2. ASSUME NEW q \in Tasks, NEW u \in Updates, Deliver(q, u, r) PROVE GateInv'
    <3>1. pc[q] = "idle" /\ tg[u] = "waiting" /\ mail[u].age < Window
      BY <2>2 DEF Deliver
    <3>2. CASE ctx' = Closed(r) /\ UNCHANGED pc
      BY <1>4, <3>2
    <3>3. CASE /\ Goto(q, IF mail[u].kind = "press" \/ rt'[r].me THEN "mark" ELSE "me")
               /\ ctx' = [Closed(r) EXCEPT
                     ![q] = [update |-> u, replica |-> r, open |-> TRUE, late |-> FALSE]]
      BY <1>5, <3>1, <3>3 DEF Early
    <3> QED
      BY <2>2, <3>2, <3>3 DEF Deliver
  <2> QED
    BY <2>1, <2>2
<1> QED
  BY <1>1, <1>6 DEF Promised

\* A request that ends leaves what is said of the others.
LEMMA EndsGate ==
  ASSUME Typed, GateInv, NEW q \in Tasks, pc[q] # "idle", Refused(q), UNCHANGED <<seen, fate>>,
         \A u \in Updates : tg[u] # "unsent" => tg'[u] # "unsent",
         \A u \in Updates : tg'[u] # "unsent" => tg[u] # "unsent",
         \A u \in Updates : tg'[u] = "waiting" => tg[u] = "waiting" /\ mail'[u].age = mail[u].age
  PROVE  GateInv'
<1>1. /\ pc'[q] = "idle" /\ ctx'[q] = Idle
      /\ \A p \in Tasks \ {q} : pc'[p] = pc[p] /\ ctx'[p] = ctx[p]
  BY DEF Refused, Typed, TasksOK
<1>2. "idle" \notin Early /\ "idle" \notin Holding /\ "idle" \notin Closing
  BY DEF Early, Holding, Closing
<1>3. \A u \in Updates : tg[u] \in {"unsent", "waiting", "answered"}
  BY DEF Typed, MailOK
<1> QED
  BY <1>1, <1>2, <1>3 DEF GateInv, Remembered

\* The gate itself.
LEMMA EarlyGate ==
  ASSUME Typed, GateInv, NEW q \in Tasks, EnsureMe(q) \/ Mark(q)
  PROVE  GateInv' /\ Promised
<1> DEFINE u == ctx[q].update
<1>1. pc[q] \in Early /\ u \in Updates
  BY InProgress DEF EnsureMe, Mark, At, Early
<1>2. UNCHANGED <<tg, mail>>
  BY DEF EnsureMe, Mark, users
<1>3. ASSUME UNCHANGED <<seen, fate>>, Refused(q) PROVE GateInv' /\ Promised
  BY <1>1, <1>2, <1>3, EndsGate DEF Promised, Early
<1>4. ASSUME UNCHANGED <<seen, fate, ctx>>, NEW label \in {"mark", "answer"}, Goto(q, label),
             label = "answer" => seen[u] # None
      PROVE  GateInv' /\ Promised
  <2>1. pc'[q] = label /\ \A p \in Tasks \ {q} : pc'[p] = pc[p]
    BY <1>4 DEF Typed, TasksOK, Goto
  <2>2. "answer" \notin Holding /\ "mark" \notin Holding /\ "mark" \in Early /\ "answer" \notin Early
        /\ "answer" \notin Closing /\ "mark" \notin Closing
    BY DEF Holding, Closing, Early
  <2> QED
    BY <1>1, <1>2, <1>4, <2>1, <2>2 DEF GateInv, Remembered, Promised
<1>5. ASSUME seen[u] = None, seen' = [seen EXCEPT ![u] = 0], NEW f \in {"taken", "lost"},
             fate' = [fate EXCEPT ![u] = f],
             \/ f = "taken" /\ UNCHANGED ctx /\ \E label \in {"gate", "act"} : Goto(q, label)
             \/ f = "lost" /\ Refused(q)
      PROVE  GateInv' /\ Promised
  <2>1. fate[u] = "new"
    BY <1>1, <1>5 DEF GateInv, Remembered
  <2>2. Promised
    <3>1. fate \in [Updates -> AMO!Fates]
      BY DEF Typed, RowsOK
    <3>2. CASE f = "lost"
      BY <1>1, <1>5, <2>1, <3>1, <3>2, Settled DEF Promised
    <3>3. CASE f = "taken"
      BY <1>1, <1>5, <2>1, <3>3 DEF Promised, AMO!Next, AMO!Take, AMO!Become
    <3> QED
      BY <3>2, <3>3
  <2>3. /\ seen'[u] = 0 /\ fate'[u] = f
        /\ \A v \in Updates \ {u} : seen'[v] = seen[v] /\ fate'[v] = fate[v]
    BY <1>1, <1>5 DEF Typed, RowsOK
  <2>4. \A p \in Tasks \ {q} : pc'[p] = pc[p] /\ ctx'[p] = ctx[p]
    BY <1>5 DEF Typed, TasksOK, Goto, Refused
  <2>5. \/ f = "taken" /\ ctx'[q] = ctx[q] /\ pc'[q] \in {"gate", "act"}
        \/ f = "lost" /\ pc'[q] = "idle"
    BY <1>5 DEF Typed, TasksOK, Goto, Refused
  <2>6. \A p \in Tasks : pc[p] # "idle" => ctx[p].update \in Updates
    BY InProgress
  <2>7. \A p \in Tasks : pc[p] \in Holding => ctx[p].update # u
    BY <2>1 DEF GateInv
  <2>8. \A v \in Updates : tg'[v] = "unsent" => fate'[v] = "new"
    <3>1. tg[u] # "unsent"
      BY <1>1, InProgress DEF Early
    <3> QED
      BY <1>2, <2>3, <3>1 DEF GateInv
  <2>9. \A v \in Updates : tg'[v] = "waiting" /\ mail'[v].age < Window =>
          fate'[v] = "new" \/ Remembered(v, mail[v].age)'
    <3>1. tg[u] = "waiting" => 0 <= mail[u].age
      BY <1>1 DEF Typed, MailOK, Mailed, SentAges
    <3>2. 0 # None
      BY NoneAssumption
    <3> QED
      BY <1>2, <2>3, <3>1, <3>2 DEF GateInv, Remembered
  <2>10. \A p \in Tasks : pc'[p] \in Early =>
           \/ fate'[ctx'[p].update] = "new"
           \/ Remembered(ctx[p].update, IF ctx[p].late THEN Window ELSE Window - 1)'
    <3>1. 0 # None /\ 0 <= Window /\ 0 <= Window - 1
      BY NoneAssumption, NumbersAssumption
    <3>2. ASSUME NEW p \in Tasks, pc'[p] \in Early PROVE p # q /\ pc[p] \in Early /\ ctx'[p] = ctx[p]
      BY <2>4, <2>5, <3>2 DEF Early
    <3>3. ASSUME NEW p \in Tasks, pc[p] \in Early, ctx[p].update = u
          PROVE  seen'[u] # None /\ seen'[u] <= (IF ctx[p].late THEN Window ELSE Window - 1)
      BY <2>3, <3>1
    <3>4. ASSUME NEW p \in Tasks, pc[p] \in Early, ctx[p].update # u
          PROVE  /\ fate'[ctx[p].update] = fate[ctx[p].update] /\ seen'[ctx[p].update] = seen[ctx[p].update]
      BY <2>3, <2>6, <3>4 DEF Early
    <3> QED
      BY <3>2, <3>3, <3>4 DEF GateInv, Remembered
  <2>11. \A v \in Updates : seen'[v] # None => fate'[v] # "new"
    BY <2>3 DEF GateInv
  <2>12. \A p \in Tasks : pc'[p] \in Holding => fate'[ctx'[p].update] = "taken"
    <3>1. ASSUME NEW p \in Tasks \ {q}, pc'[p] \in Holding PROVE fate'[ctx'[p].update] = "taken"
      BY <2>3, <2>4, <2>6, <2>7, <3>1 DEF GateInv, Holding
    <3>2. pc'[q] \in Holding => fate'[ctx'[q].update] = "taken"
      BY <2>3, <2>5 DEF Holding
    <3> QED
      BY <3>1, <3>2
  <2>13. \A p, s \in Tasks :
           pc'[p] \in Holding /\ pc'[s] \in Holding /\ ctx'[p].update = ctx'[s].update => p = s
    <3>1. pc'[q] \in Holding => ctx'[q].update = u
      BY <2>5 DEF Holding
    <3> QED
      BY <2>4, <2>7, <3>1 DEF GateInv
  <2>14. \A p \in Tasks : pc'[p] \notin Early \cup {"idle"} => fate'[ctx'[p].update] # "new"
    <3>1. ASSUME NEW p \in Tasks \ {q}, pc'[p] \notin Early \cup {"idle"} PROVE fate'[ctx'[p].update] # "new"
      BY <2>3, <2>4, <2>6, <3>1 DEF GateInv
    <3>2. pc'[q] \notin Early \cup {"idle"} => fate'[ctx'[q].update] # "new"
      BY <2>3, <2>5
    <3> QED
      BY <3>1, <3>2
  <2>15. \A p \in Tasks : pc'[p] \in Closing => fate'[ctx'[p].update] \in {"acted", "denied"}
    <3>1. ASSUME NEW p \in Tasks, pc'[p] \in Closing
          PROVE  /\ ctx'[p] = ctx[p] /\ ctx[p].update \in Updates
                 /\ fate[ctx[p].update] \in {"acted", "denied"}
      BY <2>4, <2>5, <2>6, <3>1 DEF GateInv, Closing
    <3> QED
      BY <2>1, <2>3, <3>1
  <2> QED
    BY <2>2, <2>8, <2>9, <2>10, <2>11, <2>12, <2>13, <2>14, <2>15 DEF GateInv
<1>6. CASE EnsureMe(q)
  BY <1>3, <1>4, <1>6 DEF EnsureMe, results
<1>7. CASE Mark(q)
  <2>1. CASE seen[u] = None /\ Take(u) /\ UNCHANGED ctx /\ \E label \in {"gate", "act"} : Goto(q, label)
    BY <1>5, <2>1 DEF Take
  <2>2. CASE seen[u] # None /\ Goto(q, "answer") /\ UNCHANGED <<seen, fate, ctx>>
    BY <1>4, <2>2
  <2>3. CASE seen[u] = None /\ Refused(q) /\ seen' = [seen EXCEPT ![u] = 0] /\ fate' = [fate EXCEPT ![u] = "lost"]
    BY <1>5, <2>3
  <2>4. CASE Refused(q) /\ UNCHANGED <<seen, fate>>
    BY <1>3, <2>4
  <2> QED
    BY <1>7, <2>1, <2>2, <2>3, <2>4 DEF Mark
<1> QED
  BY <1>6, <1>7

\* The 200 reaches Telegram or is lost.
LEMMA AnswerGate ==
  ASSUME Typed, GateInv, NEW q \in Tasks, Answer(q)
  PROVE  GateInv' /\ Promised
<1> DEFINE u == ctx[q].update
<1>1. pc[q] = "answer" /\ Refused(q) /\ UNCHANGED <<seen, fate>>
  BY DEF Answer, At, results
<1>2. u \in Updates /\ tg[u] # "unsent"
  BY <1>1, InProgress
<1>3. \/ tg' = tg /\ mail' = mail
      \/ tg' = [tg EXCEPT ![u] = "answered"] /\ mail' = [mail EXCEPT ![u].age = 0]
  BY DEF Answer, users
<1>4. \A v \in Updates : tg[v] # "unsent" <=> tg'[v] # "unsent"
  BY <1>2, <1>3 DEF Typed, MailOK
<1>5. \A v \in Updates : tg'[v] = "waiting" => tg[v] = "waiting" /\ mail'[v].age = mail[v].age
  BY <1>2, <1>3 DEF Typed, MailOK
<1> QED
  BY <1>1, <1>4, <1>5, EndsGate DEF Promised

\* A session dropped says nothing of updates; a crash loses what its replica holds.
LEMMA FaultGate ==
  ASSUME Typed, GateInv, NEW r \in Replicas, DropSession(r) \/ CrashReplica(r)
  PROVE  GateInv' /\ Promised
<1>1. CASE DropSession(r)
  BY <1>1 DEF DropSession, users, results, GateInv, Remembered, Promised
<1>2. CASE CrashReplica(r)
  <2> DEFINE Taken == {u \in InHand(r) : fate[u] = "taken"}
  <2>1. UNCHANGED <<tg, mail, seen>>
    BY <1>2 DEF CrashReplica, users
  <2>2. Taken \in SUBSET {u \in Updates : fate[u] \in {"new", "taken"}}
    BY InHandType
  <2>3. fate' = [u \in Updates |-> IF u \in Taken THEN "lost" ELSE fate[u]]
    BY <1>2 DEF CrashReplica
  <2>4. Promised
    BY <2>2, <2>3 DEF Promised, AMO!Next, AMO!Lose
  <2>5. \A u \in Updates : (fate'[u] = "new") = (fate[u] = "new")
    BY <2>3
  <2>6. \A q \in Tasks :
          \/ ctx[q].replica = r /\ pc'[q] = "idle" /\ ctx'[q] = Idle
          \/ ctx[q].replica # r /\ pc'[q] = pc[q] /\ ctx'[q] = ctx[q]
    BY <1>2 DEF CrashReplica
  <2>7. "idle" \notin Early /\ "idle" \notin Holding /\ "idle" \notin Closing
    BY DEF Early, Holding, Closing
  <2>8. \A q \in Tasks : pc[q] # "idle" => ctx[q].update \in Updates
    BY InProgress
  <2>9. ASSUME NEW q \in Tasks, pc'[q] \in Holding
        PROVE  fate'[ctx'[q].update] = "taken"
    <3>1. ctx[q].replica # r /\ pc[q] \in Holding /\ ctx'[q] = ctx[q]
      BY <2>6, <2>7, <2>9
    <3>2. fate[ctx[q].update] = "taken" /\ ctx[q].update \in Updates
      BY <2>7, <2>8, <3>1 DEF GateInv
    <3>3. ctx[q].update \notin Taken
      <4>1. ASSUME NEW p \in Tasks, ctx[p].replica = r, pc[p] \in Holding, ctx[p].update = ctx[q].update
            PROVE  FALSE
        BY <3>1, <4>1 DEF GateInv
      <4>2. ASSUME NEW p \in Tasks, ctx[p].replica = r, pc[p] \in Closing,
                   ctx[p].update = ctx[q].update
            PROVE  FALSE
        BY <3>2, <4>2 DEF GateInv
      <4> QED
        BY <4>1, <4>2 DEF InHand, Holding, Closing
    <3> QED
      BY <2>3, <3>1, <3>2, <3>3
  <2>10. ASSUME NEW p \in Tasks, NEW q \in Tasks, pc'[p] \in Holding, pc'[q] \in Holding,
                ctx'[p].update = ctx'[q].update
         PROVE  p = q
    BY <2>6, <2>7, <2>10 DEF GateInv
  <2>11. ASSUME NEW q \in Tasks, pc'[q] \in Closing
         PROVE  fate'[ctx'[q].update] \in {"acted", "denied"}
    BY <2>3, <2>6, <2>7, <2>8, <2>11 DEF GateInv
  <2> QED
    BY <2>1, <2>4, <2>5, <2>6, <2>7, <2>8, <2>9, <2>10, <2>11 DEF GateInv, Remembered
<1> QED
  BY <1>1, <1>2

\* Every step keeps the gate and changes fates as promised.
LEMMA StepGate == Typed /\ GateInv /\ [Next]_vars => GateInv' /\ Promised
<1> SUFFICES ASSUME Typed, GateInv, [Next]_vars PROVE GateInv' /\ Promised
  OBVIOUS
<1>1. CASE \E q \in Tasks : Step(q)
  BY <1>1, EarlyGate, PastGate, AnswerGate DEF Step
<1>2. CASE \E q \in Tasks, u \in Updates, r \in Replicas : Deliver(q, u, r)
  BY <1>2, ArrivalGate
<1>3. CASE (\E u \in Updates : Send(u)) \/ (\E w \in Users : ChangeRole(w)) \/ Purge
  BY <1>3, WorldGate
<1>4. CASE \E r \in Replicas : Probe(r) \/ DropSession(r) \/ CrashReplica(r)
  BY <1>4, ArrivalGate, FaultGate
<1>5. CASE Tick
  BY <1>5, TickGate
<1>6. CASE UNCHANGED vars
  BY <1>6 DEF vars, users, results, GateInv, Remembered, Promised
<1> QED
  BY <1>1, <1>2, <1>3, <1>4, <1>5, <1>6 DEF Next

\* Redelivered, raced by another replica, purged, cut off or crashed: an update is taken at most once,
\* and what has been taken is settled or lost for good.
THEOREM Refinement == Spec => ImplementsAtMostOnce
<1>1. Init => AMO!Init
  BY DEF Init, AMO!Init
<1>2. Spec => [](Typed /\ GateInv)
  BY InitTyped, InitGate, StepTyped, StepGate, PTL DEF Spec
<1>3. Typed /\ GateInv /\ [Next]_vars => [AMO!Next]_fate
  BY StepGate DEF Promised
<1> QED
  BY <1>1, <1>2, <1>3, PTL DEF Spec, ImplementsAtMostOnce, AMO!Spec

-----------------------------------------------------------------------------
(* What is in hand: why nothing is swallowed and every write has its row *)

\* What operator_actions owes a row.
Owed(u) ==
  \/ fate[u] = "acted" /\ mail[u].kind \in {"command", "shorthand"}
  \/ fate[u] = "denied" /\ mail[u].kind = "command"

\* A request with a runtime that is gone works on a hit update, only hit updates are lost, and what is
\* taken, or owed a row, is in somebody's hand.
HandInv ==
  /\ \A q \in Tasks : pc[q] \in Holding \cup Closing /\ ~Live(q) => ctx[q].update \in hit
  /\ \A u \in Updates : fate[u] = "lost" => u \in hit
  /\ \A u \in Updates : fate[u] = "taken" =>
       \E q \in Tasks : pc[q] \in Holding /\ ctx[q].update = u
  /\ \A u \in Updates : tg[u] = "answered" => fate[u] # "new"
  /\ \A u \in Updates : Owed(u) =>
       u \in audited \cup hit \/ \E q \in Tasks : pc[q] \in Closing /\ ctx[q].update = u

\* Nothing is in hand at first.
LEMMA InitHand == Init => HandInv
BY DEF Init, HandInv, Holding, Closing, Owed

\* A request makes a step, and no other does.
LEMMA HandMoves ==
  ASSUME Typed, HandInv, NEW q \in Tasks, NEW u \in Updates, ctx[q].update = u,
         \A p \in Tasks \ {q} : pc'[p] = pc[p] /\ ctx'[p] = ctx[p],
         pc'[q] = "idle" \/ ctx'[q] = ctx[q],
         hit \subseteq hit', audited \subseteq audited',
         \A p \in Tasks : pc[p] \in Holding \cup Closing /\ Live(p) /\ ~Live(p)' => ctx[p].update \in hit',
         pc'[q] \in Holding \cup Closing /\ ~Live(q)' => u \in hit',
         \A v \in Updates \ {u} : fate'[v] = fate[v],
         \A v \in Updates : tg'[v] = "answered" => tg[v] = "answered" \/ fate'[v] # "new",
         \A v \in Updates : fate[v] # "new" => mail'[v].kind = mail[v].kind,
         fate'[u] = "new" => fate[u] = "new",
         fate'[u] = "lost" => u \in hit',
         fate'[u] = "taken" => pc'[q] \in Holding \/ (fate[u] = "taken" /\ pc[q] \notin Holding),
         Owed(u)' => u \in audited' \cup hit' \/ pc'[q] \in Closing \/ (Owed(u) /\ pc[q] \notin Closing)
  PROVE  HandInv'
<1>1. "idle" \notin Holding \cup Closing
  BY DEF Holding, Closing
<1>2. \A p \in Tasks : pc'[p] \in Holding \cup Closing /\ ~Live(p)' => ctx'[p].update \in hit'
  <2>1. ASSUME NEW p \in Tasks \ {q}, pc'[p] \in Holding \cup Closing, ~Live(p)'
        PROVE  ctx'[p].update \in hit'
    BY <2>1 DEF HandInv
  <2> QED
    BY <1>1, <2>1
<1>3. \A v \in Updates : fate'[v] = "lost" => v \in hit'
  BY DEF HandInv
<1>4. \A v \in Updates : fate'[v] = "taken" =>
        \E p \in Tasks : pc'[p] \in Holding /\ ctx'[p].update = v
  <2>1. ASSUME NEW v \in Updates, fate[v] = "taken", v # u \/ pc[q] \notin Holding
        PROVE  \E p \in Tasks : pc'[p] \in Holding /\ ctx'[p].update = v
    <3>1. PICK p \in Tasks : pc[p] \in Holding /\ ctx[p].update = v
      BY <2>1 DEF HandInv
    <3> QED
      BY <2>1, <3>1
  <2> QED
    BY <1>1, <2>1
<1>5. \A v \in Updates : tg'[v] = "answered" => fate'[v] # "new"
  BY DEF HandInv
<1>6. \A v \in Updates : Owed(v)' =>
        v \in audited' \cup hit' \/ \E p \in Tasks : pc'[p] \in Closing /\ ctx'[p].update = v
  <2>1. ASSUME NEW v \in Updates, Owed(v), v # u \/ pc[q] \notin Closing
        PROVE  v \in audited' \cup hit' \/ \E p \in Tasks : pc'[p] \in Closing /\ ctx'[p].update = v
    <3>1. CASE v \in audited \cup hit
      BY <3>1
    <3>2. CASE \E p \in Tasks : pc[p] \in Closing /\ ctx[p].update = v
      BY <2>1, <3>2
    <3> QED
      BY <2>1, <3>1, <3>2 DEF HandInv
  <2>2. \A v \in Updates \ {u} : Owed(v)' => Owed(v)
    BY DEF Owed
  <2> QED
    BY <1>1, <2>1, <2>2
<1> QED
  BY <1>2, <1>3, <1>4, <1>5, <1>6 DEF HandInv

\* A session is cut off: whatever its replica had in hand is hit.
LEMMA CutHits ==
  ASSUME Typed, NEW r \in Replicas, NEW u \in Updates, Cut(r, u)
  PROVE  /\ hit \subseteq hit' /\ u \in hit'
         /\ \A p \in Tasks : pc[p] \in Holding \cup Closing /\ ctx[p].replica = r => ctx[p].update \in hit'
         /\ \A s \in Replicas \ {r} : rt'[s] = rt[s]
         /\ rt'[r].up = FALSE
<1>1. rt[r] \in Runtime
  BY DEF Typed, FaultsOK
<1> QED
  BY <1>1 DEF Cut, InHand, Holding, Closing, Typed, FaultsOK, Runtime

\* Up to the gate nothing is in hand; the gate takes u with a runtime that lives.
LEMMA HandEarly ==
  ASSUME Typed, GateInv, HandInv, NEW q \in Tasks, EnsureMe(q) \/ Mark(q)
  PROVE  HandInv'
<1> DEFINE r == ctx[q].replica
<1>0. PICK u \in Updates : ctx[q].update = u
  BY InProgress DEF EnsureMe, Mark, At
<1>1. pc[q] \in Early /\ r \in Replicas /\ ctx[q] \in Request
  BY InProgress DEF EnsureMe, Mark, At, Early
<1>2. UNCHANGED <<tg, mail, audited>>
  BY DEF EnsureMe, Mark, users, results
<1>3. pc[q] \notin Holding /\ pc[q] \notin Closing /\ "idle" \notin Holding \cup Closing
  BY <1>1 DEF Early, Holding, Closing
<1>4. ASSUME UNCHANGED fate, hit \subseteq hit', pc'[q] \notin Holding \cup Closing,
             \A p \in Tasks \ {q} : pc'[p] = pc[p] /\ ctx'[p] = ctx[p],
             pc'[q] = "idle" \/ ctx'[q] = ctx[q], \A s \in Replicas : rt'[s].up = rt[s].up
      PROVE  HandInv'
  <2>1. \A p \in Tasks : pc[p] \in Holding \cup Closing /\ Live(p) /\ ~Live(p)' => ctx[p].update \in hit'
    <3>1. ASSUME NEW p \in Tasks, pc[p] \in Holding \cup Closing PROVE Live(p)' = Live(p)
      <4>1. p # q /\ ctx[p].replica \in Replicas /\ ctx'[p] = ctx[p]
        BY <1>3, <1>4, <3>1, InProgress
      <4> QED
        BY <1>4, <4>1 DEF Live
    <3> QED
      BY <3>1
  <2>2. Owed(u)' = Owed(u)
    BY <1>2, <1>4 DEF Owed
  <2>3. \A v \in Updates : fate[v] = "lost" => v \in hit
    BY DEF HandInv
  <2> QED
    BY <1>0, <1>1, <1>2, <1>3, <1>4, <2>1, <2>2, <2>3, HandMoves
<1>5. CASE EnsureMe(q)
  <2>1. UNCHANGED <<fate, hit>>
    BY <1>5 DEF EnsureMe, results
  <2>2. /\ \A p \in Tasks \ {q} : pc'[p] = pc[p] /\ ctx'[p] = ctx[p]
        /\ pc'[q] = "idle" \/ (pc'[q] = "mark" /\ ctx'[q] = ctx[q])
    BY <1>5 DEF EnsureMe, Refused, Goto, Typed, TasksOK
  <2>3. \A s \in Replicas : rt'[s].up = rt[s].up
    BY <1>5 DEF EnsureMe, Typed, FaultsOK, Runtime
  <2>4. "mark" \notin Holding \cup Closing
    BY DEF Holding, Closing
  <2> QED
    BY <1>3, <1>4, <2>1, <2>2, <2>3, <2>4
<1>6. CASE Mark(q)
  <2>1. CASE Live(q) /\ seen[u] = None /\ Take(u) /\ Goto(q, IF mail[u].kind = "press" THEN "act" ELSE "gate")
             /\ UNCHANGED <<rt, failures, ctx>>
    <3>1. /\ \A p \in Tasks \ {q} : pc'[p] = pc[p] /\ ctx'[p] = ctx[p]
          /\ ctx'[q] = ctx[q] /\ pc'[q] \in {"act", "gate"} /\ UNCHANGED <<hit, rt>>
      BY <2>1 DEF Goto, Typed, TasksOK, failures
    <3>2. \A p \in Tasks : Live(p)' = Live(p)
      BY <2>1 DEF Live
    <3>3. /\ \A v \in Updates \ {u} : fate'[v] = fate[v]
          /\ fate'[u] = "taken"
      BY <1>1, <2>1 DEF Take, Typed, RowsOK
    <3>4. pc'[q] \in Holding
      BY <3>1 DEF Holding
    <3>5. ~Owed(u)'
      BY <3>3 DEF Owed
    <3> QED
      BY <1>0, <1>1, <1>2, <2>1, <3>1, <3>2, <3>3, <3>4, <3>5, HandMoves
  <2>2. CASE Goto(q, "answer") /\ UNCHANGED <<seen, fate, rt, failures, ctx>>
    <3>1. /\ \A p \in Tasks \ {q} : pc'[p] = pc[p] /\ ctx'[p] = ctx[p]
          /\ ctx'[q] = ctx[q] /\ pc'[q] = "answer" /\ UNCHANGED <<hit, rt, fate>>
      BY <2>2 DEF Goto, Typed, TasksOK, failures
    <3>2. "answer" \notin Holding \cup Closing
      BY DEF Holding, Closing
    <3> QED
      BY <1>4, <3>1, <3>2
  <2>3. CASE Live(q) /\ seen[u] = None /\ Cut(r, u) /\ Refused(q) /\ fate' = [fate EXCEPT ![u] = "lost"]
    <3>1. /\ \A p \in Tasks \ {q} : pc'[p] = pc[p] /\ ctx'[p] = ctx[p]
          /\ pc'[q] = "idle"
      BY <2>3 DEF Refused, Typed, TasksOK
    <3>2. /\ \A v \in Updates \ {u} : fate'[v] = fate[v]
          /\ fate'[u] = "lost"
      BY <1>1, <2>3 DEF Typed, RowsOK
    <3>3. \A p \in Tasks : pc[p] \in Holding \cup Closing /\ Live(p) /\ ~Live(p)' => ctx[p].update \in hit'
      <4>1. ASSUME NEW p \in Tasks, pc[p] \in Holding \cup Closing, Live(p), ~Live(p)', ctx[p].replica # r
            PROVE  FALSE
        <5>1. p # q /\ ctx'[p] = ctx[p] /\ ctx[p].replica \in Replicas
          BY <1>3, <3>1, <4>1, InProgress
        <5> QED
          BY <1>1, <2>3, <4>1, <5>1, CutHits DEF Live
      <4> QED
        BY <1>1, <2>3, <4>1, CutHits
    <3>4. ~Owed(u)'
      BY <3>2 DEF Owed
    <3>5. hit \subseteq hit' /\ u \in hit'
      BY <1>1, <2>3, CutHits
    <3> QED
      BY <1>0, <1>1, <1>2, <1>3, <3>1, <3>2, <3>3, <3>4, <3>5, HandMoves
  <2>4. CASE Refused(q) /\ UNCHANGED <<fate, rt, failures>>
    <3>1. /\ \A p \in Tasks \ {q} : pc'[p] = pc[p] /\ ctx'[p] = ctx[p]
          /\ pc'[q] = "idle" /\ UNCHANGED <<hit, rt, fate>>
      BY <2>4 DEF Refused, Typed, TasksOK, failures
    <3> QED
      BY <1>3, <1>4, <3>1
  <2> QED
    BY <1>0, <1>6, <2>1, <2>2, <2>3, <2>4 DEF Mark
<1> QED
  BY <1>5, <1>6

\* Where the live sessions stay, a request past the gate may settle its update, or pass it on as hit.
LEMMA HandGoesOn ==
  ASSUME Typed, GateInv, HandInv, NEW q \in Tasks, pc[q] \notin Early \cup {"idle"},
         NEW u \in Updates, ctx[q].update = u,
         UNCHANGED <<tg, mail, ctx>>,
         hit \subseteq hit', audited \subseteq audited',
         NEW label \in PCs \ (Early \cup {"idle"}), Goto(q, label),
         \A p \in Tasks : pc[p] \in Holding \cup Closing /\ Live(p) /\ ~Live(p)' => ctx[p].update \in hit',
         label \in Holding \cup Closing => pc[q] \in Holding \cup Closing,
         \/ fate' = fate /\ (pc[q] \in Holding => label \in Holding)
         \/ \E f \in {"acted", "denied", "ignored", "lost"} : fate' = [fate EXCEPT ![u] = f],
         fate' # fate /\ fate'[u] = "lost" => u \in hit',
         \/ label \in Closing
         \/ u \in hit' \cup audited'
         \/ fate' = fate /\ pc[q] \notin Closing
         \/ ~Owed(u)'
  PROVE  HandInv'
<1>1. fate \in [Updates -> AMO!Fates]
  BY DEF Typed, RowsOK
<1>2. /\ \A p \in Tasks \ {q} : pc'[p] = pc[p] /\ ctx'[p] = ctx[p]
      /\ pc'[q] = label /\ ctx'[q] = ctx[q]
  BY DEF Goto, Typed, TasksOK
<1>3. label \in Holding \cup Closing /\ ~Live(q)' => u \in hit'
  BY DEF HandInv
<1>4. fate'[u] = "lost" => u \in hit'
  BY DEF HandInv
<1>5. fate[u] # "new"
  BY DEF GateInv
<1>6. \A v \in Updates \ {u} : fate'[v] = fate[v]
  BY <1>1
<1>7. \/ fate' = fate /\ (pc[q] \in Holding => label \in Holding)
      \/ fate'[u] \in {"acted", "denied", "ignored", "lost"}
  BY <1>1
<1>8. fate' = fate => Owed(u)' = Owed(u)
  BY DEF Owed
<1>9. fate'[u] = "taken" => label \in Holding \/ (fate[u] = "taken" /\ pc[q] \notin Holding)
  BY <1>7
<1>10. fate'[u] # "new"
  BY <1>5, <1>7
<1>11. \A v \in Updates : tg'[v] = "answered" => tg[v] = "answered"
  OBVIOUS
<1>12. Owed(u)' => u \in audited' \cup hit' \/ label \in Closing \/ (Owed(u) /\ pc[q] \notin Closing)
  BY <1>8
<1> QED
  BY <1>1, <1>2, <1>3, <1>4, <1>6, <1>9, <1>10, <1>11, <1>12, HandMoves

\* A decision: who is granted goes on with it, who is denied a command is owed a row and is at it.
LEMMA HandRule ==
  ASSUME Typed, GateInv, HandInv, NEW q \in Tasks, pc[q] \in {"gate", "lookup"},
         NEW granted, NEW stale, Rule(q, granted, stale),
         UNCHANGED <<tg, mail, ctx, hit, audited>>, \A s \in Replicas : rt'[s].up = rt[s].up
  PROVE  HandInv'
<1>0. PICK u \in Updates : ctx[q].update = u
  BY InProgress
<1>1. pc[q] \notin Early \cup {"idle"} /\ pc[q] \in Holding
  BY DEF Early, Holding
<1>2. \A p \in Tasks : pc[p] # "idle" => Live(p)' = Live(p)
  BY InProgress DEF Live
<1>3. "idle" \notin Holding \cup Closing
  BY DEF Holding, Closing
<1>4. ASSUME NEW f \in {"acted", "denied"}, NEW label \in {"answer", "refuse"}, Goto(q, label),
             fate' = [fate EXCEPT ![u] = f], label = "refuse" \/ ~Owed(u)'
      PROVE  HandInv'
  <2>1. fate'[u] # "lost"
    BY <1>4 DEF Typed, RowsOK
  <2>2. label \in PCs \ (Early \cup {"idle"}) /\ (label = "refuse" => label \in Closing)
    BY <1>4 DEF PCs, Early, Closing
  <2> QED
    BY <1>0, <1>1, <1>2, <1>3, <1>4, <2>1, <2>2, HandGoesOn
<1>5. CASE Goto(q, "act") /\ UNCHANGED fate
  <2>1. "act" \in PCs \ (Early \cup {"idle"}) /\ "act" \in Holding /\ pc[q] \notin Closing
    BY DEF PCs, Early, Holding, Closing
  <2> QED
    BY <1>0, <1>1, <1>2, <1>3, <1>5, <2>1, HandGoesOn
<1>6. fate \in [Updates -> AMO!Fates]
  BY DEF Typed, RowsOK
<1>7. CASE mail[u].kind = "whoami" /\ Goto(q, "answer") /\ fate' = [fate EXCEPT ![u] = "acted"]
  BY <1>4, <1>6, <1>7 DEF Owed
<1>8. CASE mail[u].kind = "command" /\ Goto(q, "refuse") /\ fate' = [fate EXCEPT ![u] = "denied"]
  BY <1>4, <1>8
<1>9. CASE mail[u].kind = "shorthand" /\ Goto(q, "answer") /\ fate' = [fate EXCEPT ![u] = "denied"]
  BY <1>4, <1>6, <1>9 DEF Owed
<1> QED
  BY <1>0, <1>5, <1>7, <1>8, <1>9 DEF Rule

\* From the gate to the effect.
LEMMA HandGate ==
  ASSUME Typed, GateInv, HandInv, NEW q \in Tasks, Gate(q) \/ Lookup(q)
  PROVE  HandInv'
<1>0. pc[q] \in {"gate", "lookup"}
  BY DEF Gate, Lookup, At
<1>1. PICK u \in Updates : ctx[q].update = u
  BY <1>0, InProgress
<1>2. pc[q] \notin Early \cup {"idle"} /\ pc[q] \in Holding /\ pc[q] \notin Closing
  BY <1>0 DEF Early, Holding, Closing
<1>3. UNCHANGED <<tg, mail, ctx, hit, audited>> /\ \A s \in Replicas : rt'[s].up = rt[s].up
  <2>1. CASE Gate(q)
    BY <2>1 DEF Gate, users, failures
  <2>2. CASE Lookup(q)
    <3>1. UNCHANGED <<tg, mail, ctx, hit, audited>>
      BY <2>2 DEF Lookup, users
    <3>2. \/ rt' = rt
          \/ \E S \in SUBSET Users, b \in BOOLEAN :
               rt' = [rt EXCEPT ![ctx[q].replica] = [rt[ctx[q].replica] EXCEPT !.age = 0, !.ids = S, !.stale = b]]
          \/ rt' = [rt EXCEPT ![ctx[q].replica] = [rt[ctx[q].replica] EXCEPT !.age = 0, !.stale = TRUE]]
      BY <2>2 DEF Lookup, Typed, RowsOK
    <3>3. rt \in [Replicas -> Runtime] /\ ctx[q].replica \in Replicas
      BY <1>0, InProgress DEF Typed, FaultsOK
    <3>4. ASSUME NEW R \in Runtime, NEW S, NEW b
          PROVE  /\ [R EXCEPT !.age = 0, !.ids = S, !.stale = b].up = R.up
                 /\ [R EXCEPT !.age = 0, !.stale = b].up = R.up
      BY DEF Runtime
    <3>5. \A s \in Replicas : rt'[s].up = rt[s].up
      <4>1. rt[ctx[q].replica] \in Runtime
        BY <3>3
      <4>2. CASE rt' = rt
        BY <4>2
      <4>3. ASSUME NEW S, NEW b,
                   rt' = [rt EXCEPT ![ctx[q].replica] = [rt[ctx[q].replica] EXCEPT !.age = 0, !.ids = S, !.stale = b]]
            PROVE  \A s \in Replicas : rt'[s].up = rt[s].up
        BY <3>3, <3>4, <4>1, <4>3
      <4>4. CASE rt' = [rt EXCEPT ![ctx[q].replica] = [rt[ctx[q].replica] EXCEPT !.age = 0, !.stale = TRUE]]
        BY <3>3, <3>4, <4>1, <4>4
      <4> QED
        BY <3>2, <4>2, <4>3, <4>4
    <3> QED
      BY <3>1, <3>5
  <2> QED
    BY <2>1, <2>2
<1>4. \A p \in Tasks : pc[p] # "idle" => Live(p)' = Live(p)
  BY <1>3, InProgress DEF Live
<1>5. "idle" \notin Holding \cup Closing
  BY DEF Holding, Closing
<1>6. fate \in [Updates -> AMO!Fates]
  BY DEF Typed, RowsOK
<1>7. CASE ~Live(q) /\ Fail(q)
  <2>1. u \in hit
    BY <1>1, <1>2, <1>7 DEF HandInv
  <2>2. "answer" \in PCs \ (Early \cup {"idle"})
    BY DEF PCs, Early
  <2> QED
    BY <1>1, <1>2, <1>3, <1>4, <1>5, <1>7, <2>1, <2>2, HandGoesOn DEF Fail
<1>8. CASE Goto(q, "answer") /\ fate' = [fate EXCEPT ![u] = "ignored"]
  <2>1. ~Owed(u)' /\ fate'[u] # "lost"
    BY <1>6, <1>8 DEF Owed
  <2>2. "answer" \in PCs \ (Early \cup {"idle"})
    BY DEF PCs, Early
  <2> QED
    BY <1>1, <1>2, <1>3, <1>4, <1>5, <1>8, <2>1, <2>2, HandGoesOn
<1>9. CASE Goto(q, "lookup") /\ UNCHANGED fate
  <2>1. "lookup" \in PCs \ (Early \cup {"idle"}) /\ "lookup" \in Holding
    BY DEF PCs, Early, Holding
  <2> QED
    BY <1>1, <1>2, <1>3, <1>4, <1>5, <1>9, <2>1, HandGoesOn
<1>10. CASE \E granted, stale : Rule(q, granted, stale)
  BY <1>0, <1>3, <1>10, HandRule
<1>11. CASE Gate(q)
  BY <1>1, <1>7, <1>8, <1>9, <1>10, <1>11 DEF Gate
<1>12. CASE Lookup(q)
  BY <1>7, <1>10, <1>12 DEF Lookup, Live
<1> QED
  BY <1>11, <1>12

\* From the effect to the answer.
LEMMA HandLate ==
  ASSUME Typed, GateInv, HandInv, NEW q \in Tasks, Act(q) \/ Refuse(q) \/ Audit(q)
  PROVE  HandInv'
<1>0. pc[q] \in {"act", "refuse", "audit"}
  BY DEF Act, Refuse, Audit, At
<1>1. PICK u \in Updates : ctx[q].update = u
  BY <1>0, InProgress
<1>2. pc[q] \notin Early \cup {"idle"} /\ pc[q] \in Holding \cup Closing /\ (pc[q] \in Holding => pc[q] = "act")
  BY <1>0 DEF Early, Holding, Closing
<1>3. UNCHANGED <<tg, mail, ctx>> /\ audited \subseteq audited'
  BY DEF Act, Refuse, Audit, users, results
<1>4. ctx[q].replica \in Replicas /\ "idle" \notin Holding \cup Closing
  BY <1>0, InProgress DEF Holding, Closing
<1>5. fate \in [Updates -> AMO!Fates]
  BY DEF Typed, RowsOK
<1>6. "answer" \in PCs \ (Early \cup {"idle"}) /\ "answer" \notin Holding \cup Closing
      /\ "audit" \in PCs \ (Early \cup {"idle"}) /\ "audit" \in Closing
  BY DEF PCs, Early, Holding, Closing
<1>7. ~Live(q) => u \in hit
  BY <1>1, <1>2 DEF HandInv
<1>8. \/ UNCHANGED <<rt, failures>>
      \/ Cut(ctx[q].replica, u)
  BY <1>1 DEF Act, Refuse, Audit
<1>9. /\ hit \subseteq hit'
      /\ \A p \in Tasks : pc[p] \in Holding \cup Closing /\ Live(p) /\ ~Live(p)' => ctx[p].update \in hit'
  <2>1. CASE UNCHANGED <<rt, failures>>
    BY <1>3, <2>1 DEF failures, Live
  <2>2. CASE Cut(ctx[q].replica, u)
    <3>1. ASSUME NEW p \in Tasks, pc[p] \in Holding \cup Closing, Live(p), ~Live(p)',
                 ctx[p].replica # ctx[q].replica
          PROVE  FALSE
      <4>1. ctx[p].replica \in Replicas
        BY <1>4, <3>1, InProgress
      <4> QED
        BY <1>3, <1>4, <2>2, <3>1, <4>1, CutHits DEF Live
    <3> QED
      BY <1>4, <2>2, <3>1, CutHits
  <2> QED
    BY <1>8, <2>1, <2>2
<1>10. ASSUME NEW label \in {"answer", "audit"}, Goto(q, label),
              \/ fate' = fate /\ pc[q] # "act"
              \/ \E f \in {"acted", "lost"} : fate' = [fate EXCEPT ![u] = f],
              fate' # fate /\ fate'[u] = "lost" => u \in hit',
              label = "audit" \/ u \in hit' \cup audited' \/ ~Owed(u)'
       PROVE  HandInv'
  BY <1>1, <1>2, <1>3, <1>6, <1>9, <1>10, HandGoesOn
<1>11. CASE Act(q)
  <2>1. CASE Live(q) /\ fate' = [fate EXCEPT ![u] = "acted"]
             /\ Goto(q, IF mail[u].kind = "press" THEN "answer" ELSE "audit")
    <3>1. fate'[u] = "acted"
      BY <1>5, <2>1
    <3>2. mail[u].kind = "press" => ~Owed(u)'
      BY <1>3, <3>1 DEF Owed
    <3> QED
      BY <1>10, <2>1, <3>1, <3>2
  <2>2. CASE Cut(ctx[q].replica, u) /\ Goto(q, "answer") /\ \E f \in {"acted", "lost"} : fate' = [fate EXCEPT ![u] = f]
    BY <1>4, <1>10, <2>2, CutHits
  <2>3. CASE ~Live(q) /\ Fail(q)
    BY <1>1, <1>7, <1>9, <1>10, <2>3 DEF Fail
  <2> QED
    BY <1>1, <1>11, <2>1, <2>2, <2>3 DEF Act
<1>12. CASE Refuse(q)
  <2>1. pc[q] # "act" /\ UNCHANGED <<fate, hit>> /\ Goto(q, IF ctx[q].open THEN "audit" ELSE "answer")
    BY <1>12 DEF Refuse, At, results, failures
  <2>2. ~ctx[q].open => u \in hit
    BY <1>7 DEF Live
  <2> QED
    BY <1>10, <2>1, <2>2
<1>13. CASE Audit(q)
  <2>1. pc[q] # "act" /\ UNCHANGED fate /\ Goto(q, "answer")
    BY <1>13 DEF Audit, At
  <2>2. u \in audited' \cup hit'
    BY <1>1, <1>4, <1>7, <1>9, <1>13, CutHits DEF Audit, failures
  <2> QED
    BY <1>10, <2>1, <2>2
<1> QED
  BY <1>11, <1>12, <1>13

\* The answer: its update is not new.
LEMMA HandAnswer ==
  ASSUME Typed, GateInv, HandInv, NEW q \in Tasks, Answer(q)
  PROVE  HandInv'
<1>0. pc[q] = "answer" /\ Refused(q) /\ UNCHANGED <<fate, audited, rt, hit>>
  BY DEF Answer, At, results
<1>1. PICK u \in Updates : ctx[q].update = u
  BY <1>0, InProgress
<1>2. "idle" \notin Holding \cup Closing /\ "answer" \notin Holding \cup Closing
  BY DEF Holding, Closing
<1>3. /\ \A p \in Tasks \ {q} : pc'[p] = pc[p] /\ ctx'[p] = ctx[p]
      /\ pc'[q] = "idle"
  BY <1>0 DEF Refused, Typed, TasksOK
<1>4. \A p \in Tasks : pc[p] \in Holding \cup Closing => Live(p)' = Live(p)
  BY <1>0, <1>2, <1>3 DEF Live
<1>5. fate[u] # "new"
  BY <1>0, <1>1 DEF GateInv, Early
<1>6. \A v \in Updates : tg'[v] = "answered" => tg[v] = "answered" \/ v = u
  BY <1>1 DEF Answer, users, Typed, MailOK
<1>7. \A v \in Updates : fate[v] # "new" => mail'[v].kind = mail[v].kind
  <2>1. mail[u] \in Mailed
    BY <1>0, <1>1, InProgress
  <2>2. [mail[u] EXCEPT !.age = 0].kind = mail[u].kind
    BY <2>1 DEF Mailed
  <2>3. mail' = mail \/ mail' = [mail EXCEPT ![u] = [mail[u] EXCEPT !.age = 0]]
    BY <1>1 DEF Answer, users
  <2>4. mail \in [Updates -> Mailed \cup {None}]
    BY DEF Typed, MailOK
  <2> QED
    BY <2>2, <2>3, <2>4
<1>8. Owed(u)' => Owed(u)
  BY <1>0, <1>5, <1>7 DEF Owed
<1>9. fate[u] = "lost" => u \in hit
  BY DEF HandInv
<1> QED
  BY <1>0, <1>1, <1>2, <1>3, <1>4, <1>5, <1>6, <1>7, <1>8, <1>9, HandMoves

\* A runtime is built anew only where none lived: whoever had the old one in hand was hit then.
LEMMA HandArrival ==
  ASSUME Typed, GateInv, HandInv, NEW r \in Replicas,
         (\E q \in Tasks, u \in Updates : Deliver(q, u, r)) \/ Probe(r)
  PROVE  HandInv'
<1>1. UNCHANGED <<tg, mail, fate, audited, hit>>
  BY DEF Deliver, Probe, users, results
<1>2. \/ rt' = rt
      \/ ~rt[r].up /\ \A s \in Replicas \ {r} : rt'[s] = rt[s]
  BY DEF Deliver, Probe, Rebuilt, NotRebuilt, Typed, FaultsOK
<1>3. \A p \in Tasks : /\ Closed(r)[p].update = ctx[p].update
                       /\ Closed(r)[p].replica = ctx[p].replica
                       /\ Closed(r)[p].open => ctx[p].open
                       /\ ctx[p].replica = r /\ ~rt[r].up => ~Closed(r)[p].open
  BY ClosedType DEF Typed, TasksOK, Request, Closed
<1>4. "idle" \notin Holding \cup Closing /\ "me" \notin Holding \cup Closing /\ "mark" \notin Holding \cup Closing
  BY DEF Holding, Closing
<1>5. \A u \in Updates : Owed(u)' = Owed(u)
  BY <1>1 DEF Owed
<1>6. ASSUME \A p \in Tasks : pc[p] \in Holding \cup Closing => pc'[p] = pc[p] /\ ctx'[p] = Closed(r)[p],
             \A p \in Tasks : pc'[p] \in Holding \cup Closing => pc'[p] = pc[p]
      PROVE  HandInv'
  <2>1. ASSUME NEW p \in Tasks, pc'[p] \in Holding \cup Closing, ~Live(p)'
        PROVE  ctx'[p].update \in hit'
    <3>1. ctx'[p] = Closed(r)[p] /\ pc[p] \in Holding \cup Closing /\ ctx'[p].update = ctx[p].update
      BY <1>3, <1>6, <2>1
    <3>2. ctx[p].replica \in Replicas /\ ctx'[p].replica = ctx[p].replica
      BY <1>3, <1>4, <3>1, InProgress
    <3>3. CASE ctx[p].replica = r /\ ~rt[r].up
      BY <1>1, <3>1, <3>3 DEF HandInv, Live
    <3>4. CASE ~(ctx[p].replica = r /\ ~rt[r].up)
      <4>1. Closed(r)[p] = ctx[p]
        BY <3>4 DEF Closed
      <4>2. rt'[ctx[p].replica] = rt[ctx[p].replica]
        BY <1>2, <3>2, <3>4
      <4>3. ~Live(p)
        BY <2>1, <3>1, <4>1, <4>2 DEF Live
      <4> QED
        BY <1>1, <3>1, <4>3 DEF HandInv
    <3> QED
      BY <3>3, <3>4
  <2>2. \A u \in Updates : fate'[u] = "taken" =>
          \E p \in Tasks : pc'[p] \in Holding /\ ctx'[p].update = u
    BY <1>1, <1>3, <1>6 DEF HandInv
  <2>3. \A u \in Updates : Owed(u)' =>
          u \in audited' \cup hit' \/ \E p \in Tasks : pc'[p] \in Closing /\ ctx'[p].update = u
    BY <1>1, <1>3, <1>5, <1>6 DEF HandInv
  <2> QED
    BY <1>1, <2>1, <2>2, <2>3 DEF HandInv
<1>7. CASE ctx' = Closed(r) /\ UNCHANGED pc
  BY <1>6, <1>7
<1>8. ASSUME NEW q \in Tasks, NEW u \in Updates, Deliver(q, u, r) PROVE HandInv'
  <2>1. pc[q] = "idle"
    BY <1>8 DEF Deliver
  <2>2. CASE /\ Goto(q, IF mail[u].kind = "press" \/ rt'[r].me THEN "mark" ELSE "me")
             /\ ctx' = [Closed(r) EXCEPT
                          ![q] = [update |-> u, replica |-> r, open |-> TRUE, late |-> FALSE]]
    <3>1. pc'[q] \in {"me", "mark"} /\ \A p \in Tasks \ {q} : pc'[p] = pc[p]
      BY <2>2 DEF Goto, Typed, TasksOK
    <3>2. \A p \in Tasks \ {q} : ctx'[p] = Closed(r)[p]
      BY <2>2 DEF Closed
    <3> QED
      BY <1>4, <1>6, <2>1, <3>1, <3>2
  <2> QED
    BY <1>7, <1>8, <2>2 DEF Deliver
<1> QED
  BY <1>7, <1>8 DEF Probe

\* Users, the purge and the clock put nothing in hand and take nothing out of it.
LEMMA HandWorld ==
  ASSUME Typed, GateInv, HandInv,
         (\E w \in Users : ChangeRole(w)) \/ (\E u \in Updates : Send(u)) \/ Purge \/ Tick
  PROVE  HandInv'
<1>1. UNCHANGED <<fate, audited, hit, pc>>
  BY DEF ChangeRole, Send, Purge, Tick, results, failures
<1>2. \A p \in Tasks : ctx'[p].update = ctx[p].update /\ ctx'[p].replica = ctx[p].replica /\ ctx'[p].open = ctx[p].open
  BY DEF ChangeRole, Send, Purge, Tick, Typed, TasksOK, Request
<1>3. \A s \in Replicas : rt'[s].up = rt[s].up
  BY DEF ChangeRole, Send, Purge, Tick, Typed, FaultsOK, Runtime
<1>4. \A u \in Updates : tg'[u] = "answered" => tg[u] = "answered"
  BY DEF ChangeRole, Send, Purge, Tick, users, Typed, MailOK
<1>5. \A u \in Updates : fate[u] # "new" => mail'[u].kind = mail[u].kind
  <2>1. CASE UNCHANGED mail
    BY <2>1
  <2>2. ASSUME NEW u \in Updates, Send(u) PROVE \A v \in Updates : fate[v] # "new" => mail'[v].kind = mail[v].kind
    BY <2>2 DEF Send, GateInv, Typed, MailOK
  <2>3. ASSUME Tick, NEW v \in Updates, fate[v] # "new" PROVE mail'[v].kind = mail[v].kind
    <3>1. mail[v] \in Mailed
      BY <2>3 DEF GateInv, Typed, MailOK
    <3>2. [mail[v] EXCEPT !.age = Older(@, Window)].kind = mail[v].kind
      BY <3>1 DEF Mailed
    <3> QED
      BY <2>3, <3>2 DEF Tick
  <2> QED
    BY <2>1, <2>2, <2>3 DEF ChangeRole, Purge, users
<1>6. \A u \in Updates : Owed(u)' = Owed(u)
  BY <1>1, <1>5 DEF Owed
<1>7. \A p \in Tasks : pc[p] \in Holding \cup Closing => ctx[p].replica \in Replicas
  BY InProgress DEF Holding, Closing
<1>8. \A p \in Tasks : pc[p] \in Holding \cup Closing => Live(p)' = Live(p)
  BY <1>2, <1>3, <1>7 DEF Live
<1> QED
  BY <1>1, <1>2, <1>4, <1>6, <1>8 DEF HandInv

\* Who loses the session loses what is in hand; what others have stays.
LEMMA HandFault ==
  ASSUME Typed, GateInv, HandInv, NEW r \in Replicas, DropSession(r) \/ CrashReplica(r)
  PROVE  HandInv'
<1> DEFINE Taken == {u \in InHand(r) : fate[u] = "taken"}
<1>1. UNCHANGED <<tg, mail, audited>> /\ hit' = hit \cup InHand(r)
  BY DEF DropSession, CrashReplica, users, results
<1>2. \A s \in Replicas \ {r} : rt'[s] = rt[s]
  BY DEF DropSession, CrashReplica, Typed, FaultsOK
<1>3. \A p \in Tasks : pc[p] \in Holding \cup Closing /\ ctx[p].replica = r => ctx[p].update \in hit'
  BY <1>1 DEF InHand, Holding, Closing
<1>4. \A p \in Tasks : \/ pc'[p] = pc[p] /\ ctx'[p] = ctx[p]
                       \/ pc'[p] = "idle" /\ ctx[p].replica = r
  BY DEF DropSession, CrashReplica
<1>5. "idle" \notin Holding \cup Closing
  BY DEF Holding, Closing
<1>6. \A u \in Updates : fate'[u] = fate[u] \/ (fate[u] = "taken" /\ fate'[u] = "lost" /\ u \in InHand(r))
  BY DEF DropSession, CrashReplica, results
<1>7. ASSUME NEW p \in Tasks, pc'[p] \in Holding \cup Closing, ~Live(p)'
      PROVE  ctx'[p].update \in hit'
  <2>1. pc[p] \in Holding \cup Closing /\ ctx'[p] = ctx[p]
    BY <1>4, <1>5, <1>7
  <2>2. CASE ctx[p].replica = r
    BY <1>3, <2>1, <2>2
  <2>3. CASE ctx[p].replica # r
    <3>1. ctx[p].replica \in Replicas
      BY <1>5, <2>1, InProgress
    <3>2. ~Live(p)
      BY <1>2, <1>7, <2>1, <2>3, <3>1 DEF Live
    <3> QED
      BY <1>1, <2>1, <3>2 DEF HandInv
  <2> QED
    BY <2>2, <2>3
<1>8. \A u \in Updates : fate'[u] = "lost" => u \in hit'
  BY <1>1, <1>6 DEF HandInv
<1>9. ASSUME NEW u \in Updates, fate'[u] = "taken"
      PROVE  \E p \in Tasks : pc'[p] \in Holding /\ ctx'[p].update = u
  <2>1. PICK p \in Tasks : pc[p] \in Holding /\ ctx[p].update = u /\ fate[u] = "taken"
    BY <1>6, <1>9 DEF HandInv
  <2>2. CASE DropSession(r)
    BY <2>1, <2>2 DEF DropSession
  <2>3. CASE CrashReplica(r)
    <3>1. u \notin InHand(r)
      BY <1>9, <2>1, <2>3 DEF CrashReplica
    <3>2. ctx[p].replica # r
      BY <2>1, <3>1 DEF InHand, Holding
    <3> QED
      BY <1>4, <2>1, <3>2
  <2> QED
    BY <2>2, <2>3
<1>10. ASSUME NEW u \in Updates, Owed(u)'
       PROVE  u \in audited' \cup hit' \/ \E p \in Tasks : pc'[p] \in Closing /\ ctx'[p].update = u
  <2>1. Owed(u)
    BY <1>1, <1>6, <1>10 DEF Owed
  <2>2. ASSUME NEW p \in Tasks, pc[p] \in Closing, ctx[p].update = u
        PROVE  u \in hit' \/ (pc'[p] \in Closing /\ ctx'[p].update = u)
    BY <1>3, <1>4, <2>2
  <2> QED
    BY <1>1, <2>1, <2>2 DEF HandInv
<1>11. \A u \in Updates : tg'[u] = "answered" => fate'[u] # "new"
  BY <1>1, <1>6 DEF HandInv
<1> QED
  BY <1>7, <1>8, <1>9, <1>10, <1>11 DEF HandInv

\* Every step keeps what is said of the updates in hand.
LEMMA StepHand == Typed /\ GateInv /\ HandInv /\ [Next]_vars => HandInv'
<1> SUFFICES ASSUME Typed, GateInv, HandInv, [Next]_vars PROVE HandInv'
  OBVIOUS
<1>1. CASE \E q \in Tasks : Step(q)
  BY <1>1, HandEarly, HandGate, HandLate, HandAnswer DEF Step
<1>2. CASE \E q \in Tasks, u \in Updates, r \in Replicas : Deliver(q, u, r)
  BY <1>2, HandArrival
<1>3. CASE (\E u \in Updates : Send(u)) \/ (\E w \in Users : ChangeRole(w)) \/ Purge \/ Tick
  BY <1>3, HandWorld
<1>4. CASE \E r \in Replicas : Probe(r) \/ DropSession(r) \/ CrashReplica(r)
  BY <1>4, HandArrival, HandFault
<1>5. CASE UNCHANGED vars
  BY <1>5 DEF vars, users, results, failures, HandInv, Live, Owed
<1> QED
  BY <1>1, <1>2, <1>3, <1>4, <1>5 DEF Next

\* The three invariants hold together.
LEMMA Invariant == Spec => [](Typed /\ GateInv /\ HandInv)
BY InitTyped, InitGate, InitHand, StepTyped, StepGate, StepHand, PTL DEF Spec

\* Telegram has its 200 only for what was acted on, denied, dropped on purpose, is still in progress, or
\* was in the hands of a replica that lost its session or died.
THEOREM Swallowed == Spec => []NothingSwallowed
<1>1. Typed /\ GateInv /\ HandInv => NothingSwallowed
  <2> SUFFICES ASSUME Typed, GateInv, HandInv, NEW u \in Updates, tg[u] = "answered", ~Busy(u)
               PROVE  fate[u] \in {"acted", "denied", "ignored"} \/ u \in hit
    BY DEF NothingSwallowed
  <2>1. fate[u] # "new" /\ fate[u] # "taken" /\ (fate[u] = "lost" => u \in hit)
    BY DEF HandInv, Busy
  <2> QED
    BY <2>1 DEF Typed, RowsOK, AMO!Fates
<1> QED
  BY <1>1, Invariant, PTL

\* Every write that took effect and every denied command has its row once its request is over, or was hit.
THEOREM Audited == Spec => []AuditComplete
<1>1. HandInv => AuditComplete
  BY DEF HandInv, AuditComplete, Owed, Busy
<1> QED
  BY <1>1, Invariant, PTL

-----------------------------------------------------------------------------
(* Who may write *)

\* A list that has not outlived a lookup is wrong only of those whose role changed since.
ListInv ==
  \A r \in Replicas : ~rt[r].stale /\ Recent(rt[r].age) =>
    \A w \in Users : (w \in rt[r].ids <=> w \in admins) \/ changed[w] <= rt[r].age

Fresh(u) == ruling[u].just \/ ruling[u].stale

\* What is about to be done was granted, on a list that was fresh; nobody of the allowlist is looked up.
RulingInv ==
  /\ \A q \in Tasks :
       pc[q] = "act" /\ mail[ctx[q].update].kind # "press" =>
         ruling[ctx[q].update].granted /\ Fresh(ctx[q].update)
  /\ \A q \in Tasks : pc[q] = "lookup" => mail[ctx[q].update].sender \notin Allowlist
  /\ RulingsAreFresh

\* No list, no ruling.
LEMMA InitList == Init => ListInv /\ RulingInv
BY NumbersAssumption DEF Init, ListInv, NoRuntime, Recent, RulingInv, RulingsAreFresh

\* Steps that ask Telegram for no list and change no role.
LEMMA ListKept ==
  ASSUME Typed, ListInv, UNCHANGED roles,
         \A r \in Replicas :
           \/ rt'[r].age = rt[r].age /\ rt'[r].ids = rt[r].ids /\ rt'[r].stale = rt[r].stale
           \/ rt'[r].age = CacheTime
  PROVE  ListInv'
BY NumbersAssumption DEF ListInv, Recent, roles

\* A role that changes is recent; the clock ages lists and changes alike.
LEMMA ListWorld ==
  ASSUME Typed, ListInv,
         (\E w \in Users : ChangeRole(w)) \/ Tick
  PROVE  ListInv'
<1>1. ASSUME NEW w \in Users, ChangeRole(w) PROVE ListInv'
  <2>1. changed'[w] = 0 /\ \A v \in Users \ {w} : changed'[v] = changed[v] /\ (v \in admins' <=> v \in admins)
    BY <1>1 DEF ChangeRole, Typed, RowsOK
  <2>2. rt' = rt /\ \A r \in Replicas : rt[r].age \in CacheAges
    BY <1>1 DEF ChangeRole, Typed, FaultsOK, Runtime
  <2> QED
    BY <2>1, <2>2, NumbersAssumption DEF ListInv, Recent, CacheAges
<1>2. CASE Tick
  <2>1. admins' = admins /\ \A w \in Users : changed[w] \in CacheAges /\ changed'[w] = Older(changed[w], CacheTime)
    BY <1>2 DEF Tick, Typed, RowsOK
  <2>2. \A r \in Replicas : /\ rt[r].age \in CacheAges /\ rt'[r].age = Older(rt[r].age, CacheTime)
                            /\ rt'[r].ids = rt[r].ids /\ rt'[r].stale = rt[r].stale
    BY <1>2 DEF Tick, Typed, FaultsOK, Runtime
  <2>3. \A a \in CacheAges : Recent(Older(a, CacheTime)) => Recent(a) /\ Older(a, CacheTime) = a + 1
    BY NumbersAssumption, NoneAssumption DEF Older, Recent, CacheAges
  <2>4. \A a, b \in CacheAges : Recent(Older(a, CacheTime)) /\ b <= a => Older(b, CacheTime) <= Older(a, CacheTime)
    BY NumbersAssumption, NoneAssumption DEF Older, Recent, CacheAges
  <2>5. ASSUME NEW r \in Replicas, ~rt'[r].stale, Recent(rt'[r].age), NEW w \in Users
        PROVE  (w \in rt'[r].ids <=> w \in admins') \/ changed'[w] <= rt'[r].age
    <3>1. (w \in rt[r].ids <=> w \in admins) \/ changed[w] <= rt[r].age
      BY <2>2, <2>3, <2>5 DEF ListInv
    <3>2. changed[w] <= rt[r].age => changed'[w] <= rt'[r].age
      BY <2>1, <2>2, <2>4, <2>5
    <3> QED
      BY <2>1, <2>2, <3>1, <3>2
  <2> QED
    BY <2>5 DEF ListInv, Recent
<1> QED
  BY <1>1, <1>2

\* A lookup that succeeds has the list of the moment, one that fails makes it stale.
LEMMA ListLookup ==
  ASSUME Typed, ListInv, NEW q \in Tasks, Lookup(q)
  PROVE  ListInv'
<1> DEFINE r == ctx[q].replica
<1>1. r \in Replicas /\ UNCHANGED roles /\ rt \in [Replicas -> Runtime] /\ admins \subseteq Users
  BY InProgress DEF Lookup, At, Typed, RowsOK, FaultsOK
<1>2. CASE UNCHANGED rt
  BY <1>1, <1>2, ListKept
<1>3. CASE rt' = [rt EXCEPT ![r] = [rt[r] EXCEPT !.age = 0, !.ids = admins, !.stale = FALSE]]
  <2>1. /\ rt'[r].ids = admins /\ rt'[r].stale = FALSE
        /\ \A s \in Replicas \ {r} : rt'[s] = rt[s]
    BY <1>1, <1>3 DEF Runtime
  <2> QED
    BY <1>1, <2>1 DEF ListInv, Recent, roles
<1>4. CASE rt' = [rt EXCEPT ![r] = [rt[r] EXCEPT !.age = 0, !.stale = TRUE]]
  <2>1. rt'[r].stale = TRUE /\ \A s \in Replicas \ {r} : rt'[s] = rt[s]
    BY <1>1, <1>4 DEF Runtime
  <2> QED
    BY <1>1, <2>1 DEF ListInv, Recent, roles
<1> QED
  BY <1>2, <1>3, <1>4 DEF Lookup

\* Every step keeps the lists fresh or marked.
LEMMA StepList == Typed /\ ListInv /\ [Next]_vars => ListInv'
<1> SUFFICES ASSUME Typed, ListInv, [Next]_vars PROVE ListInv'
  OBVIOUS
<1>0. rt \in [Replicas -> Runtime]
  BY DEF Typed, FaultsOK
<1> DEFINE Same(r) == rt'[r].age = rt[r].age /\ rt'[r].ids = rt[r].ids /\ rt'[r].stale = rt[r].stale
<1>1. ASSUME NEW r, NEW label \in {"up", "me"}, NEW b,
             rt' = [rt EXCEPT ![r] = IF label = "up" THEN [rt[r] EXCEPT !.up = b] ELSE [rt[r] EXCEPT !.me = b]]
      PROVE  \A s \in Replicas : Same(s)
  BY <1>0, <1>1 DEF Runtime
<1>2. ASSUME NEW r, rt' = [rt EXCEPT ![r] = Built] \/ rt' = [rt EXCEPT ![r] = NoRuntime]
      PROVE  \A s \in Replicas : Same(s) \/ rt'[s].age = CacheTime
  <2>1. NoRuntime.age = CacheTime /\ Built.age = CacheTime
    BY DEF NoRuntime, Built
  <2> QED
    BY <1>0, <1>2, <2>1
<1>3. CASE (\E w \in Users : ChangeRole(w)) \/ Tick
  BY <1>3, ListWorld
<1>4. CASE \E q \in Tasks : Lookup(q)
  BY <1>4, ListLookup
<1>5. CASE UNCHANGED <<roles, rt>>
  BY <1>5, ListKept DEF Runtime
<1>6. ASSUME NEW q \in Tasks, EnsureMe(q) PROVE ListInv'
  <2>1. UNCHANGED roles /\ (UNCHANGED rt \/ rt' = [rt EXCEPT ![ctx[q].replica].me = TRUE])
    BY <1>6 DEF EnsureMe
  <2> QED
    BY <1>1, <1>5, <2>1, ListKept
<1>7. ASSUME NEW r, NEW u, Cut(r, u), UNCHANGED roles PROVE ListInv'
  BY <1>1, <1>7, ListKept DEF Cut
<1>8. ASSUME NEW r \in Replicas, Rebuilt(r) \/ NotRebuilt(r), UNCHANGED roles PROVE ListInv'
  BY <1>2, <1>5, <1>8, ListKept DEF Rebuilt, NotRebuilt
<1>9. ASSUME NEW r \in Replicas, DropSession(r) PROVE ListInv'
  BY <1>1, <1>9, ListKept DEF DropSession
<1>10. ASSUME NEW r \in Replicas, CrashReplica(r) PROVE ListInv'
  BY <1>2, <1>10, ListKept DEF CrashReplica
<1>11. CASE \E q \in Tasks : Step(q)
  BY <1>4, <1>5, <1>6, <1>7, <1>11 DEF Step, Mark, Gate, Act, Refuse, Audit, Answer
<1>12. CASE \E q \in Tasks, u \in Updates, r \in Replicas : Deliver(q, u, r)
  BY <1>8, <1>12 DEF Deliver
<1>13. CASE \E r \in Replicas : Probe(r) \/ DropSession(r) \/ CrashReplica(r)
  BY <1>8, <1>9, <1>10, <1>13 DEF Probe
<1>14. CASE (\E u \in Updates : Send(u)) \/ Purge
  BY <1>5, <1>14 DEF Send, Purge
<1> QED
  BY <1>3, <1>5, <1>11, <1>12, <1>13, <1>14 DEF Next, vars

\* A decision on a list that is fresh is just.
LEMMA JustRuling ==
  ASSUME Typed, GateInv, RulingInv, NEW q \in Tasks, pc[q] \in {"gate", "lookup"},
         NEW u \in Updates, ctx[q].update = u, UNCHANGED <<mail, ctx>>,
         NEW granted, NEW stale, Rule(q, granted, stale),
         stale \/ (IF granted THEN Could(mail[u].sender) ELSE CouldNot(mail[u].sender))
  PROVE  RulingInv'
<1>0. /\ fate \in [Updates -> AMO!Fates] /\ ruling \in [Updates -> Ruling \cup {None}]
      /\ pc \in [Tasks -> PCs]
  BY DEF Typed, RowsOK, TasksOK
<1>1. \A p \in Tasks \ {q} : pc[p] = "act" => ctx[p].update # u
  BY DEF GateInv, Holding
<1>2. \A p \in Tasks : pc[p] = "act" => ctx[p].update \in Updates
  BY InProgress
<1>3. CASE mail[u].kind = "whoami" /\ Goto(q, "answer") /\ fate' = [fate EXCEPT ![u] = "acted"] /\ UNCHANGED ruling
  BY <1>0, <1>3 DEF RulingInv, RulingsAreFresh, Fresh, Goto
<1>4. CASE /\ mail[u].kind \in {"command", "shorthand"}
           /\ ruling' = [ruling EXCEPT ![u] =
                [granted |-> granted, stale |-> stale,
                 just |-> IF granted THEN Could(mail[u].sender) ELSE CouldNot(mail[u].sender)]]
           /\ \/ granted /\ Goto(q, "act") /\ UNCHANGED fate
              \/ /\ ~granted /\ Goto(q, IF mail[u].kind = "command" THEN "refuse" ELSE "answer")
                 /\ fate' = [fate EXCEPT ![u] = "denied"]
  <2>1. ruling'[u].granted = granted /\ Fresh(u)'
    BY <1>0, <1>4 DEF Fresh
  <2>2. \A v \in Updates \ {u} : ruling'[v] = ruling[v] /\ fate'[v] = fate[v]
    BY <1>0, <1>4
  <2>3. fate[u] = "taken"
    BY DEF GateInv, Holding
  <2>4. (granted /\ fate'[u] = "taken") \/ (~granted /\ fate'[u] = "denied")
    BY <1>0, <1>4, <2>3
  <2>5. \A p \in Tasks \ {q} : pc'[p] = pc[p]
    BY <1>0, <1>4 DEF Goto
  <2>6. pc'[q] = "act" => granted
    BY <1>0, <1>4 DEF Goto
  <2>7. RulingsAreFresh'
    BY <2>1, <2>2, <2>4 DEF RulingInv, RulingsAreFresh, Fresh
  <2>8. ASSUME NEW p \in Tasks, pc'[p] = "act", mail'[ctx'[p].update].kind # "press"
        PROVE  ruling'[ctx'[p].update].granted /\ Fresh(ctx[p].update)'
    <3>1. CASE p = q
      BY <2>1, <2>6, <2>8, <3>1 DEF Fresh
    <3>2. CASE p # q
      BY <1>1, <1>2, <2>2, <2>5, <2>8, <3>2 DEF RulingInv, Fresh
    <3> QED
      BY <3>1, <3>2
  <2>9. \A p \in Tasks : pc'[p] = "lookup" => mail'[ctx'[p].update].sender \notin Allowlist
    BY <1>0, <1>4 DEF RulingInv, Goto
  <2> QED
    BY <2>7, <2>8, <2>9 DEF RulingInv
<1> QED
  BY <1>3, <1>4 DEF Rule

\* Steps that decide nothing and do nothing new.
LEMMA RulingKept ==
  ASSUME Typed, RulingInv, UNCHANGED ruling,
         \A p \in Tasks : pc'[p] = "act" =>
           /\ pc[p] = "act" /\ ctx'[p].update = ctx[p].update
           /\ mail'[ctx[p].update].kind = mail[ctx[p].update].kind,
         \A p \in Tasks : pc'[p] = "lookup" =>
           /\ ctx'[p].update = ctx[p].update /\ mail'[ctx[p].update].sender = mail[ctx[p].update].sender
           /\ pc[p] = "lookup" \/ mail[ctx[p].update].sender \notin Allowlist,
         \A v \in Updates : fate'[v] \in {"acted", "denied"} =>
           fate'[v] = fate[v] /\ mail'[v].kind = mail[v].kind
  PROVE  RulingInv'
<1>1. RulingsAreFresh'
  BY DEF RulingInv, RulingsAreFresh
<1>2. \A p \in Tasks : pc'[p] = "lookup" => mail'[ctx'[p].update].sender \notin Allowlist
  BY DEF RulingInv
<1> QED
  BY <1>1, <1>2 DEF RulingInv, Fresh

\* The gate and the lookup decide on the list that they have read.
LEMMA RulingGate ==
  ASSUME Typed, GateInv, ListInv, RulingInv, NEW q \in Tasks, Gate(q) \/ Lookup(q)
  PROVE  RulingInv'
<1>0. PICK u \in Updates : ctx[q].update = u
  BY InProgress DEF Gate, Lookup, At
<1>1. /\ pc[q] \in {"gate", "lookup"} /\ UNCHANGED <<mail, ctx>> /\ mail[u].sender \in Users
      /\ pc \in [Tasks -> PCs] /\ fate \in [Updates -> AMO!Fates]
  BY <1>0, InProgress DEF Gate, Lookup, At, users, Mailed, Typed, TasksOK, RowsOK
<1>2. ASSUME UNCHANGED ruling, NEW label \in {"answer", "lookup"}, Goto(q, label),
             fate' = fate \/ \E f \in {"ignored", "lost"} : fate' = [fate EXCEPT ![u] = f],
             label = "lookup" => mail[u].sender \notin Allowlist
      PROVE  RulingInv'
  <2>1. \A p \in Tasks : /\ pc'[p] = "act" => pc[p] = "act"
                         /\ pc'[p] = "lookup" => pc[p] = "lookup" \/ mail[ctx[p].update].sender \notin Allowlist
    BY <1>0, <1>1, <1>2 DEF Goto
  <2>2. \A v \in Updates : fate'[v] = fate[v] \/ fate'[v] \in {"ignored", "lost"}
    BY <1>1, <1>2
  <2> QED
    BY <1>1, <1>2, <2>1, <2>2, RulingKept
<1> DEFINE r == ctx[q].replica
           sender == mail[u].sender
<1>3. ASSUME sender \notin Allowlist, NEW ids, NEW stale,
             stale \/ (sender \in ids <=> sender \in admins) \/ Recent(changed[sender])
      PROVE  stale \/ (IF sender \in ids THEN Could(sender) ELSE CouldNot(sender))
  BY <1>3 DEF Could, CouldNot
<1>4. CASE Gate(q)
  <2>1. CASE Fail(q) /\ UNCHANGED ruling
    BY <1>0, <1>2, <2>1 DEF Fail
  <2>2. CASE Goto(q, "answer") /\ fate' = [fate EXCEPT ![u] = "ignored"] /\ UNCHANGED ruling
    BY <1>2, <2>2
  <2>3. CASE sender \notin Allowlist /\ Goto(q, "lookup") /\ UNCHANGED <<fate, ruling>>
    BY <1>2, <2>3
  <2>4. CASE sender \in Allowlist /\ Rule(q, TRUE, FALSE)
    BY <1>0, <1>1, <2>4, JustRuling DEF Could
  <2>5. CASE sender \notin Allowlist /\ Cached(r) /\ Rule(q, sender \in rt[r].ids, rt[r].stale)
    <3>1. rt[r].stale \/ (sender \in rt[r].ids <=> sender \in admins) \/ changed[sender] <= rt[r].age
      BY <1>1, <2>5, InProgress DEF ListInv, Cached
    <3>2. changed[sender] <= rt[r].age => Recent(changed[sender])
      <4>1. changed[sender] \in CacheAges /\ rt[r].age \in CacheAges
        BY <1>1, InProgress DEF Typed, RowsOK, FaultsOK, Runtime
      <4> QED
        BY <2>5, <4>1, NumbersAssumption DEF Cached, Recent, CacheAges
    <3> QED
      BY <1>0, <1>1, <1>3, <2>5, <3>1, <3>2, JustRuling
  <2> QED
    BY <1>0, <1>4, <2>1, <2>2, <2>3, <2>4, <2>5 DEF Gate
<1>5. CASE Lookup(q)
  <2>1. r \in Replicas /\ rt[r] \in Runtime /\ rt \in [Replicas -> Runtime]
    BY <1>1, InProgress DEF Typed, FaultsOK
  <2>2. CASE Fail(q) /\ UNCHANGED ruling
    BY <1>0, <1>2, <2>2 DEF Fail
  <2>3. CASE /\ rt' = [rt EXCEPT ![r] = [rt[r] EXCEPT !.age = 0, !.ids = admins, !.stale = FALSE]]
             /\ Rule(q, sender \in rt'[r].ids, rt'[r].stale)
    <3>1. rt'[r].ids = admins
      BY <2>1, <2>3 DEF Runtime
    <3>2. sender \notin Allowlist
      BY <1>0, <1>5 DEF RulingInv, Lookup, At
    <3>3. IF sender \in rt'[r].ids THEN Could(sender) ELSE CouldNot(sender)
      BY <3>1, <3>2 DEF Could, CouldNot
    <3> QED
      BY <1>0, <1>1, <2>3, <3>3, JustRuling
  <2>4. CASE /\ rt' = [rt EXCEPT ![r] = [rt[r] EXCEPT !.age = 0, !.stale = TRUE]]
             /\ Rule(q, sender \in rt'[r].ids, rt'[r].stale)
    <3>1. rt'[r].stale = TRUE
      BY <2>1, <2>4 DEF Runtime
    <3> QED
      BY <1>0, <1>1, <2>4, <3>1, JustRuling
  <2>5. CASE \E granted \in BOOLEAN : Rule(q, granted, TRUE)
    BY <1>0, <1>1, <2>5, JustRuling
  <2> QED
    BY <1>0, <1>5, <2>2, <2>3, <2>4, <2>5 DEF Lookup
<1> QED
  BY <1>4, <1>5

\* What is done was granted; nothing else is decided.
LEMMA RulingStep ==
  ASSUME Typed, GateInv, RulingInv, NEW q \in Tasks,
         EnsureMe(q) \/ Mark(q) \/ Act(q) \/ Refuse(q) \/ Audit(q) \/ Answer(q)
  PROVE  RulingInv'
<1>0. PICK u \in Updates : ctx[q].update = u
  BY InProgress DEF EnsureMe, Mark, Act, Refuse, Audit, Answer, At
<1>1. UNCHANGED ruling /\ pc \in [Tasks -> PCs] /\ ctx \in [Tasks -> Request] /\ fate \in [Updates -> AMO!Fates]
  BY DEF EnsureMe, Mark, Act, Refuse, Audit, Answer, results, Typed, TasksOK, RowsOK
<1>2. CASE EnsureMe(q) \/ Refuse(q) \/ Audit(q)
  <2>1. UNCHANGED <<fate, mail>>
    BY <1>2 DEF EnsureMe, Refuse, Audit, results, users
  <2>2. \A p \in Tasks : \/ pc'[p] \notin {"act", "lookup"}
                         \/ pc'[p] = pc[p] /\ ctx'[p] = ctx[p]
    BY <1>1, <1>2 DEF EnsureMe, Refuse, Audit, Goto, Refused
  <2> QED
    BY <1>1, <2>1, <2>2, RulingKept
<1>3. CASE Mark(q)
  <2>1. UNCHANGED mail
    BY <1>3 DEF Mark, users
  <2>2. \A p \in Tasks : \/ pc'[p] \notin {"act", "lookup"}
                         \/ pc'[p] = pc[p] /\ ctx'[p] = ctx[p]
                         \/ p = q /\ pc'[p] = "act" /\ mail[u].kind = "press" /\ ctx'[p] = ctx[p]
    BY <1>0, <1>1, <1>3 DEF Mark, Goto, Refused
  <2>3. \A v \in Updates : fate'[v] = fate[v] \/ fate'[v] \in {"taken", "lost"}
    BY <1>1, <1>3 DEF Mark, Take
  <2>4. RulingsAreFresh'
    BY <1>1, <2>1, <2>3 DEF RulingInv, RulingsAreFresh
  <2> QED
    BY <1>0, <1>1, <2>1, <2>2, <2>4 DEF RulingInv, Fresh
<1>4. CASE Act(q)
  <2>1. UNCHANGED <<mail, ctx>> /\ pc[q] = "act"
    BY <1>4 DEF Act, At, users
  <2>2. \A p \in Tasks : pc'[p] \notin {"act", "lookup"} \/ pc'[p] = pc[p]
    BY <1>1, <1>4 DEF Act, Fail, Goto
  <2>3. /\ \A v \in Updates \ {u} : fate'[v] = fate[v]
        /\ fate'[u] \in {"acted", "lost"}
    BY <1>0, <1>1, <1>4 DEF Act, Fail
  <2>4. mail[u].kind # "press" => ruling[u].granted /\ (ruling[u].just \/ ruling[u].stale)
    BY <1>0, <2>1 DEF RulingInv, Fresh
  <2>5. RulingsAreFresh'
    BY <1>1, <2>1, <2>3, <2>4 DEF RulingInv, RulingsAreFresh
  <2> QED
    BY <1>1, <2>1, <2>2, <2>5 DEF RulingInv, Fresh
<1>5. CASE Answer(q)
  <2>1. UNCHANGED fate /\ mail \in [Updates -> Mailed \cup {None}] /\ mail[u] \in Mailed
    BY <1>0, <1>5, InProgress DEF Answer, At, results, Typed, MailOK
  <2>2. [mail[u] EXCEPT !.age = 0].kind = mail[u].kind /\ [mail[u] EXCEPT !.age = 0].sender = mail[u].sender
    BY <2>1 DEF Mailed
  <2>3. mail' = mail \/ mail' = [mail EXCEPT ![u] = [mail[u] EXCEPT !.age = 0]]
    BY <1>0, <1>5 DEF Answer, users
  <2>4. \A v \in Updates : mail'[v].kind = mail[v].kind /\ mail'[v].sender = mail[v].sender
    BY <2>1, <2>2, <2>3
  <2>5. \A p \in Tasks : \/ pc'[p] \notin {"act", "lookup"}
                         \/ pc'[p] = pc[p] /\ ctx'[p] = ctx[p]
    BY <1>1, <1>5 DEF Answer, Refused
  <2>6. \A p \in Tasks : pc[p] \in {"act", "lookup"} => ctx[p].update \in Updates
    BY InProgress
  <2> QED
    BY <1>1, <2>1, <2>4, <2>5, <2>6, RulingKept
<1> QED
  BY <1>2, <1>3, <1>4, <1>5

\* Nothing else decides.
LEMMA RulingRest ==
  ASSUME Typed, GateInv, RulingInv,
         \/ \E q \in Tasks, u \in Updates, r \in Replicas : Deliver(q, u, r)
         \/ (\E u \in Updates : Send(u)) \/ (\E w \in Users : ChangeRole(w)) \/ Tick \/ Purge
         \/ \E r \in Replicas : Probe(r) \/ DropSession(r) \/ CrashReplica(r)
  PROVE  RulingInv'
<1>1. UNCHANGED ruling
  BY DEF Deliver, Send, ChangeRole, Tick, Purge, Probe, DropSession, CrashReplica, results
<1>2. \A v \in Updates : fate'[v] = fate[v] \/ fate'[v] = "lost"
  BY DEF Deliver, Send, ChangeRole, Tick, Purge, Probe, DropSession, CrashReplica, results
<1>3. \A p \in Tasks : pc'[p] \in {"act", "lookup"} => pc'[p] = pc[p] /\ ctx'[p].update = ctx[p].update
  <2>1. pc \in [Tasks -> PCs] /\ ctx \in [Tasks -> Request]
    BY DEF Typed, TasksOK
  <2>2. CASE (\E u \in Updates : Send(u)) \/ (\E w \in Users : ChangeRole(w)) \/ Tick \/ Purge
    BY <2>1, <2>2 DEF Send, ChangeRole, Tick, Purge, Request
  <2>3. ASSUME NEW r \in Replicas, DropSession(r) \/ CrashReplica(r)
        PROVE  \A p \in Tasks : pc'[p] \in {"act", "lookup"} => pc'[p] = pc[p] /\ ctx'[p].update = ctx[p].update
    BY <2>3 DEF DropSession, CrashReplica
  <2>4. ASSUME NEW r \in Replicas, ctx' = Closed(r), UNCHANGED pc
        PROVE  \A p \in Tasks : pc'[p] \in {"act", "lookup"} => pc'[p] = pc[p] /\ ctx'[p].update = ctx[p].update
    BY <2>4, ClosedType DEF Typed
  <2>5. ASSUME NEW r \in Replicas, NEW q \in Tasks, NEW label \in {"me", "mark"}, Goto(q, label), NEW c,
               ctx' = [Closed(r) EXCEPT ![q] = c]
        PROVE  \A p \in Tasks : pc'[p] \in {"act", "lookup"} => pc'[p] = pc[p] /\ ctx'[p].update = ctx[p].update
    <3>1. \A p \in Tasks : pc'[p] \in {"act", "lookup"} => p # q /\ pc'[p] = pc[p]
      BY <2>1, <2>5 DEF Goto
    <3>2. \A p \in Tasks \ {q} : ctx'[p] = Closed(r)[p]
      BY <2>5 DEF Closed
    <3> QED
      BY <3>1, <3>2, ClosedType DEF Typed
  <2> QED
    BY <2>2, <2>3, <2>4, <2>5 DEF Deliver, Probe
<1>4. \A v \in Updates : fate[v] # "new" => mail'[v].kind = mail[v].kind /\ mail'[v].sender = mail[v].sender
  <2>1. CASE UNCHANGED mail
    BY <2>1
  <2>2. ASSUME NEW u \in Updates, Send(u), NEW v \in Updates, fate[v] # "new"
        PROVE mail'[v].kind = mail[v].kind /\ mail'[v].sender = mail[v].sender
    BY <2>2 DEF Send, GateInv, Typed, MailOK
  <2>3. ASSUME Tick, NEW v \in Updates, fate[v] # "new"
        PROVE  mail'[v].kind = mail[v].kind /\ mail'[v].sender = mail[v].sender
    <3>1. mail[v] \in Mailed
      BY <2>3 DEF GateInv, Typed, MailOK
    <3>2. /\ [mail[v] EXCEPT !.age = Older(@, Window)].kind = mail[v].kind
          /\ [mail[v] EXCEPT !.age = Older(@, Window)].sender = mail[v].sender
      BY <3>1 DEF Mailed
    <3> QED
      BY <2>3, <3>2 DEF Tick
  <2> QED
    BY <2>1, <2>2, <2>3 DEF Deliver, ChangeRole, Purge, Probe, DropSession, CrashReplica, users
<1>5. \A p \in Tasks : pc[p] \in {"act", "lookup"} => ctx[p].update \in Updates /\ fate[ctx[p].update] = "taken"
  BY InProgress DEF GateInv, Holding
<1> QED
  BY <1>1, <1>2, <1>3, <1>4, <1>5, RulingKept

\* Every step keeps the rulings fresh.
LEMMA StepRuling == Typed /\ GateInv /\ ListInv /\ RulingInv /\ [Next]_vars => RulingInv'
<1> SUFFICES ASSUME Typed, GateInv, ListInv, RulingInv, [Next]_vars PROVE RulingInv'
  OBVIOUS
<1>1. CASE \E q \in Tasks : Step(q)
  BY <1>1, RulingGate, RulingStep DEF Step
<1>2. CASE UNCHANGED vars
  BY <1>2 DEF vars, users, results, RulingInv, RulingsAreFresh, Fresh
<1> QED
  BY <1>1, <1>2, RulingRest DEF Next

\* Nobody writes whom _is_writer did not let, or who was no administrator within admin_cache_min, and
\* nobody is refused who was one all that time, unless the list had outlived a failed lookup.
THEOREM Rulings == Spec => []RulingsAreFresh
<1>1. RulingInv => RulingsAreFresh
  BY DEF RulingInv
<1> QED
  BY <1>1, InitTyped, InitGate, InitList, StepTyped, StepGate, StepList, StepRuling, PTL DEF Spec
=============================================================================
