------------------------- MODULE AlertMessageProofs -------------------------
(***************************************************************************)
(* Proofs about the messages of AlertEngine, for any events, processes and *)
(* numbers: of an event there is one message, and those that are accounted *)
(* for, and a resolved one says so.  The types, and which process a step   *)
(* moves, are proved in AlertEngineProofs.                                 *)
(***************************************************************************)
EXTENDS AlertEngineProofs

-----------------------------------------------------------------------------
(* Who has what in hand.                                                   *)

\* Where a process at l with the local variables c is in its alert, behind the flush
\* that it may be in.
Where(l, c) == IF l \in Flushing THEN c.then ELSE l
At(p) == Where(pc[p], ctx[p])

\* Whether c has the event e in hand.
Holds(c, e) == c.event = e \/ \E t \in c.todo : t[1] = e

\* Where an event is resolved, and where a message may be on its way to be sent.
Resolving == {"edit", "resend", "adopt"}
Sending == {"escalate", "budget", "spend", "notice", "warn", "send"}

\* Between alerts p has nothing in hand, and it puts events off only while it says of
\* others that they are resolved.  It sends when it knows of no message, and edits one that it knows.
Tidy(p, l, c) ==
  /\ l \in {"off", "run"} => c.event = None /\ c.todo = {}
  /\ c.todo # {} => c.text = "resolved"
  /\ c.text = "resolved" => p = Job /\ ~c.notifying /\ l \in Resolving
  /\ l = "escalate" => /\ c.then \in {Hub(p), "budget", "edit", "send"}
                       /\ c.then = "send" => c.msg = 0
                       /\ c.then = "edit" => c.msg # 0
  /\ l = "send" => c.msg = 0
  /\ l \in {"edit", "own", "resend", "adopt", "count"} => c.msg # 0
  /\ \A t \in c.todo : t[2] # 0 /\ t[1] # c.event
  /\ \A t, u \in c.todo : t[1] = u[1] => t = u

AllTidy == \A p \in Procs : Tidy(p, At(p), ctx[p])

\* An event with the row r whose message a process knows has one, but for the message
\* that is about to be recorded.
Owns(l, c, d, r) ==
  /\ (c.event = d /\ c.msg # 0 /\ l # "own") => r.msg # 0
  /\ \A t \in c.todo : t[1] = d => r.msg # 0

AllOwn == \A p \in Procs, d \in Events : Owns(At(p), ctx[p], d, row[d])

\* The messages of d that a process may send yet, and those that may send one.
Weight(l, c, d) == IF c.event = d /\ c.msg = 0 /\ l \in Sending THEN 1 ELSE 0
Senders(d) == {q \in Procs : Weight(At(q), ctx[q], d) = 1}

\* The messages of an event, with those on their way, are one and what is accounted for; it has
\* one less when it owns none and nobody has it in hand.
Counted(d) ==
  /\ Len(shown[d]) + Cardinality(Senders(d)) <= 1 + extra[d]
  /\ (row[d].msg = 0 /\ \A q \in Procs : ~Holds(ctx[q], d)) => Len(shown[d]) <= extra[d]

AllCounted == \A d \in Events : Counted(d)

\* Of a resolved event with the row r and the messages s the job, at l with c, is yet to say
\* so where it owns a message, or it has said so.
Says(l, c, d, r, s) ==
  /\ Holds(c, d) => c.text = "resolved"
  /\ c.event = d => /\ l \in Resolving
                    /\ l = "edit" => c.msg = r.msg
                    /\ l = "adopt" => c.msg \in 1..Len(s) /\ s[c.msg] = "resolved"
  /\ \A t \in c.todo : t[1] = d => t[2] = r.msg
  /\ (~Holds(c, d) /\ r.msg # 0) => s[r.msg] = "resolved"

Said(d) ==
  row[d].state = "resolved" =>
    /\ \A h \in Handlers : ~Holds(ctx[h], d)
    /\ Says(At(Job), ctx[Job], d, row[d], shown[d])

AllSaid == \A d \in Events \ blurred : Said(d)

HandInv == AllTidy /\ AllOwn /\ AllCounted /\ AllSaid

\* Holds is what the model calls InHand.
LEMMA HoldsInHand ==
  ASSUME NEW p \in Procs, NEW e \in Events
  PROVE  e \in InHand(p) <=> Holds(ctx[p], e)
BY NoneAssumption DEF InHand, Holds

-----------------------------------------------------------------------------
(* Where a process arrives.                                                *)

\* What the properties tell apart of the local variables.
Same(c, d) ==
  /\ c.event = d.event /\ c.todo = d.todo /\ c.text = d.text
  /\ c.msg = d.msg /\ c.notifying = d.notifying

\* p alone moves, to l and c.
Arrives(p, l, c) ==
  /\ Alone(p) /\ Where(pc'[p], ctx'[p]) = l /\ Same(ctx'[p], c)
  /\ l = "escalate" => ctx'[p].then = c.then

\* A process that goes to l, which is not inside a flush.
LEMMA GotoArrives ==
  ASSUME TypeInv, NEW p \in Procs, NEW l, l \notin Flushing, NEW c, Goto(p, l, c)
  PROVE  Arrives(p, l, c)
BY GotoAlone DEF Arrives, Where, Same

\* A process that is done.
LEMMA DoneArrives ==
  ASSUME TypeInv, NEW p \in Procs, Done(p)
  PROVE  Arrives(p, Hub(p), Nothing)
BY HubIsRight, GotoArrives DEF Done, Flushing

\* A process that begins a flush is where it goes from there.
LEMMA FlushArrives ==
  ASSUME TypeInv, NEW p \in Procs, NEW l, l \notin Flushing, l # "escalate", NEW c \in Context,
         FlushThen(p, l, c)
  PROVE  Arrives(p, l, c)
<1>1. CASE outbox = {}
  BY <1>1, GotoArrives DEF FlushThen
<1>2. CASE outbox # {}
  <2> DEFINE d == [c EXCEPT !.then = l, !.batch = outbox, !.left = outbox]
  <2>1. pc'[p] = "header" /\ ctx'[p] = d /\ Alone(p)
    BY <1>2, GotoAlone DEF FlushThen
  <2>2. d.then = l /\ Same(d, c)
    BY DEF Same, Context
  <2> HIDE DEF d
  <2> QED
    BY <2>1, <2>2 DEF Arrives, Where, Flushing
<1> QED
  BY <1>1, <1>2

\* A process that goes on with a flush, or leaves it, stays where it was.
LEMMA InFlushArrives ==
  ASSUME TypeInv, AllTidy, NEW p \in Procs, Header(p) \/ Body(p) \/ Mark(p)
  PROVE  Arrives(p, At(p), ctx[p])
<1>1. pc[p] \in Flushing /\ At(p) = ctx[p].then /\ ctx[p] \in Context /\ ctx[p].then \notin Flushing
  BY LocalKnown DEF Header, Body, Mark, Flushing, At, Where, Local, Inside
<1>2. At(p) # "escalate"
  BY <1>1, HubIsRight DEF AllTidy, Tidy
<1>3. CASE AfterFlush(p)
  <2> DEFINE c == [ctx[p] EXCEPT !.then = "off", !.batch = {}, !.left = {}]
  <2>1. Same(c, ctx[p])
    BY <1>1 DEF Same, Context
  <2>2. Alone(p) /\ pc'[p] = ctx[p].then /\ ctx'[p] = c
    BY <1>3, GotoAlone DEF AfterFlush
  <2> HIDE DEF c
  <2> QED
    BY <1>1, <1>2, <2>1, <2>2 DEF Arrives, Where
<1>4. ASSUME NEW l \in Flushing, Goto(p, l, ctx[p])
      PROVE  Arrives(p, At(p), ctx[p])
  <2>1. Alone(p) /\ pc'[p] = l /\ ctx'[p] = ctx[p]
    BY <1>4, GotoAlone
  <2> QED
    BY <1>1, <1>2, <2>1 DEF Arrives, Where, Same
<1>5. ASSUME NEW l \in Flushing, NEW n, Goto(p, l, [ctx[p] EXCEPT !.left = @ \ {n}])
      PROVE  Arrives(p, At(p), ctx[p])
  <2> DEFINE c == [ctx[p] EXCEPT !.left = @ \ {n}]
  <2>1. Same(c, ctx[p]) /\ c.then = ctx[p].then
    BY <1>1 DEF Same, Context
  <2>2. Alone(p) /\ pc'[p] = l /\ ctx'[p] = c
    BY <1>5, GotoAlone
  <2> HIDE DEF c
  <2> QED
    BY <1>1, <1>2, <2>1, <2>2 DEF Arrives, Where
<1>6. CASE Header(p)
  BY <1>3, <1>4, <1>6 DEF Header, Flushing
<1>7. CASE Body(p)
  BY <1>3, <1>5, <1>7 DEF Body, Flushing
<1>8. CASE Mark(p)
  BY <1>3, <1>8 DEF Mark
<1> QED
  BY <1>6, <1>7, <1>8

-----------------------------------------------------------------------------
(* What a step must show.                                                  *)

\* What is the same of the local variables makes no difference.
LEMMA SameWorks ==
  ASSUME NEW l, NEW c, NEW d, Same(c, d), l = "escalate" => c.then = d.then
  PROVE  /\ \A e : Holds(c, e) <=> Holds(d, e)
         /\ \A e : Weight(l, c, e) = Weight(l, d, e)
         /\ \A e, r : Owns(l, c, e, r) <=> Owns(l, d, e, r)
         /\ \A e, r, s : Says(l, c, e, r, s) <=> Says(l, d, e, r, s)
         /\ \A p : Tidy(p, l, c) <=> Tidy(p, l, d)
<1>1. \A e : Holds(c, e) <=> Holds(d, e)
  BY DEF Same, Holds
<1>2. \A e : Weight(l, c, e) = Weight(l, d, e)
  BY DEF Same, Weight
<1>3. \A e, r : Owns(l, c, e, r) <=> Owns(l, d, e, r)
  BY DEF Same, Owns
<1>4. \A e, r, s : Says(l, c, e, r, s) <=> Says(l, d, e, r, s)
  BY <1>1 DEF Same, Says
<1>5. \A p : Tidy(p, l, c) <=> Tidy(p, l, d)
  BY DEF Same, Tidy
<1> QED
  BY <1>1, <1>2, <1>3, <1>4, <1>5

\* So that p is at l with c after it arrives there, and the others are where they were.
LEMMA ArrivesKnown ==
  ASSUME NEW p \in Procs, NEW l, NEW c, Arrives(p, l, c)
  PROVE  /\ \A e : Holds(ctx'[p], e) <=> Holds(c, e)
         /\ \A e : Weight(Where(pc'[p], ctx'[p]), ctx'[p], e) = Weight(l, c, e)
         /\ \A e, r : Owns(Where(pc'[p], ctx'[p]), ctx'[p], e, r) <=> Owns(l, c, e, r)
         /\ \A e, r, s : Says(Where(pc'[p], ctx'[p]), ctx'[p], e, r, s) <=> Says(l, c, e, r, s)
         /\ Tidy(p, Where(pc'[p], ctx'[p]), ctx'[p]) <=> Tidy(p, l, c)
         /\ \A q \in Procs \ {p} : pc'[q] = pc[q] /\ ctx'[q] = ctx[q]
<1>1. Where(pc'[p], ctx'[p]) = l /\ Same(ctx'[p], c) /\ (l = "escalate" => ctx'[p].then = c.then)
  BY DEF Arrives
<1>2. \A q \in Procs \ {p} : pc'[q] = pc[q] /\ ctx'[q] = ctx[q]
  BY DEF Arrives, Alone
<1> QED
  BY <1>1, <1>2, SameWorks

\* The messages of d, those on their way and those accounted for, before and after a step of p.
\* It may leave d without an owned message in nobody's hand if that was so before, or if what it
\* was about to send has not come about.
Balanced(p, l, c, d) ==
  /\ Len(shown'[d]) + Weight(l, c, d) + extra[d]
       <= Len(shown[d]) + Weight(At(p), ctx[p], d) + extra'[d]
  /\ (row'[d].msg = 0 /\ ~Holds(c, d)) =>
       \/ /\ row[d].msg = 0 /\ ~Holds(ctx[p], d)
          /\ Len(shown'[d]) <= Len(shown[d]) /\ extra[d] <= extra'[d]
       \/ Len(shown'[d]) + 1 + extra[d]
            <= Len(shown[d]) + Weight(At(p), ctx[p], d) + extra'[d]

\* p takes up an event that has no message, and that nobody has in hand.
Fresh(c, d) ==
  /\ row[d].msg = 0 /\ Holds(c, d) /\ \A q \in Procs : ~Holds(ctx[q], d)
  /\ shown'[d] = shown[d] /\ extra'[d] = extra[d]

\* An event that nobody has in hand is forgotten.
Forgotten(c, d) ==
  /\ ~Holds(c, d) /\ \A q \in Procs : ~Holds(ctx[q], d)
  /\ Len(shown'[d]) = 0 /\ extra'[d] = 0

\* A weight is 0 or 1, and who weighs has the event in hand.
LEMMA WeightKnown ==
  ASSUME NEW l, NEW c, NEW d
  PROVE  Weight(l, c, d) \in {0, 1} /\ (Weight(l, c, d) = 1 => Holds(c, d))
BY DEF Weight, Holds

\* The numbers of an account: n messages become n2, k on their way become k2 by the step of one who
\* weighs v and then w, and x that are accounted for become x2.
LEMMA AccountKept ==
  ASSUME NEW n \in Nat, NEW n2 \in Nat, NEW k \in Nat, NEW k2 \in Nat, NEW v \in Nat, NEW w \in Nat,
         NEW x \in Nat, NEW x2 \in Nat, n + k <= 1 + x, k2 + v = k + w
  PROVE  /\ n2 + w + x <= n + v + x2 => n2 + k2 <= 1 + x2
         /\ (v <= k /\ n2 + 1 + x <= n + v + x2) => n2 <= x2
OBVIOUS

\* Such steps keep the account of an event.
LEMMA CountKept ==
  ASSUME TypeInv, TypeInv', NEW p \in Procs, NEW l, NEW c, Arrives(p, l, c),
         NEW d \in Events, Counted(d),
         Balanced(p, l, c, d) \/ Fresh(c, d) \/ Forgotten(c, d)
  PROVE  Counted(d)'
<1> DEFINE S == Senders(d)
           T == Senders(d)'
           v == Weight(At(p), ctx[p], d)
           w == Weight(l, c, d)
<1>1. /\ \A q \in Procs \ {p} : pc'[q] = pc[q] /\ ctx'[q] = ctx[q]
      /\ Holds(ctx'[p], d) <=> Holds(c, d)
      /\ Weight(Where(pc'[p], ctx'[p]), ctx'[p], d) = w
  BY ArrivesKnown
<1>2. T \ {p} = S \ {p}
  BY <1>1 DEF Senders, At
<1>3. IsFiniteSet(S)
  BY ProcsAreFinite DEF Senders
<1>4. (p \in S <=> v = 1) /\ (p \in T <=> w = 1) /\ v \in {0, 1} /\ w \in {0, 1}
  BY <1>1, WeightKnown DEF Senders, At
<1>5. S \in SUBSET Procs /\ T \in SUBSET Procs
  BY DEF Senders
<1>6. Len(shown[d]) \in Nat /\ Len(shown'[d]) \in Nat /\ extra[d] \in Nat /\ extra'[d] \in Nat
  <2>1. shown[d] \in Seq(States) /\ shown'[d] \in Seq(States)
    BY DEF TypeInv, RowsRight
  <2> QED
    BY <2>1, LenProperties DEF TypeInv, CountsRight, NotesRight
<1>7. /\ Len(shown[d]) + Cardinality(S) <= 1 + extra[d]
      /\ (row[d].msg = 0 /\ \A q \in Procs : ~Holds(ctx[q], d)) => Len(shown[d]) <= extra[d]
  BY DEF Counted
<1>8. (\A q \in Procs : ~Holds(ctx[q], d)) => S = {}
  BY WeightKnown DEF Senders
<1>9. (\A q \in Procs : ~Holds(ctx'[q], d)) => ~Holds(c, d) /\ \A q \in Procs \ {p} : ~Holds(ctx[q], d)
  BY <1>1
<1>10. SUFFICES /\ Len(shown'[d]) + Cardinality(T) <= 1 + extra'[d]
                /\ (row'[d].msg = 0 /\ \A q \in Procs : ~Holds(ctx'[q], d)) => Len(shown'[d]) <= extra'[d]
  BY DEF Counted
<1>11. w = 1 => Holds(c, d)
  BY WeightKnown
<1>16. Len(shown[d]) + Cardinality(S) <= 1 + extra[d]
  BY <1>7
<1> HIDE DEF S, T, v, w
<1>12. /\ Cardinality(S) \in Nat /\ Cardinality(T) \in Nat
       /\ v = w => Cardinality(T) = Cardinality(S)
       /\ (v = 0 /\ w = 1) => Cardinality(T) = Cardinality(S) + 1
       /\ (v = 1 /\ w = 0) => Cardinality(T) = Cardinality(S) - 1
  <2>1. (p \in S <=> p \in T) <=> (v = w)
    BY <1>4
  <2> QED
    BY <1>2, <1>3, <1>4, <2>1, OneApart
<1>17. v \in Nat /\ w \in Nat /\ Cardinality(T) + v = Cardinality(S) + w
  <2>1. CASE v = w
    BY <1>4, <1>12, <2>1
  <2>2. CASE v = 0 /\ w = 1
    BY <1>12, <2>2
  <2>3. CASE v = 1 /\ w = 0
    BY <1>12, <2>3
  <2> QED
    BY <1>4, <2>1, <2>2, <2>3
<1>18. Cardinality(S) \in Nat /\ Cardinality(T) \in Nat
  BY <1>12
<1>19. /\ Len(shown'[d]) + w + extra[d] <= Len(shown[d]) + v + extra'[d]
            => Len(shown'[d]) + Cardinality(T) <= 1 + extra'[d]
       /\ (v <= Cardinality(S) /\ Len(shown'[d]) + 1 + extra[d] <= Len(shown[d]) + v + extra'[d])
            => Len(shown'[d]) <= extra'[d]
  <2> DEFINE n == Len(shown[d])
             n2 == Len(shown'[d])
             k == Cardinality(S)
             k2 == Cardinality(T)
             x == extra[d]
             x2 == extra'[d]
  <2>1. n \in Nat /\ n2 \in Nat /\ x \in Nat /\ x2 \in Nat /\ k \in Nat /\ k2 \in Nat
        /\ n + k <= 1 + x /\ v \in Nat /\ w \in Nat /\ k2 + v = k + w
    BY <1>6, <1>16, <1>17, <1>18
  <2> HIDE DEF n, n2, k, k2, x, x2
  <2>2. /\ n2 + w + x <= n + v + x2 => n2 + k2 <= 1 + x2
        /\ (v <= k /\ n2 + 1 + x <= n + v + x2) => n2 <= x2
    BY <2>1, AccountKept
  <2> QED
    BY <2>2 DEF n, n2, k, k2, x, x2
<1>13. v = 1 => 1 <= Cardinality(S)
  BY <1>4, <1>5, ProcsAreFinite
<1>14. CASE Balanced(p, l, c, d)
  <2>1. Len(shown'[d]) + w + extra[d] <= Len(shown[d]) + v + extra'[d]
    BY <1>14 DEF Balanced, v, w
  <2>2. Len(shown'[d]) + Cardinality(T) <= 1 + extra'[d]
    BY <1>19, <2>1
  <2>3. ASSUME row'[d].msg = 0, \A q \in Procs : ~Holds(ctx'[q], d) PROVE Len(shown'[d]) <= extra'[d]
    <3>1. CASE /\ row[d].msg = 0 /\ ~Holds(ctx[p], d)
               /\ Len(shown'[d]) <= Len(shown[d]) /\ extra[d] <= extra'[d]
      <4>1. Len(shown[d]) <= extra[d]
        BY <1>7, <1>9, <2>3, <3>1
      <4> QED
        BY <1>6, <3>1, <4>1
    <3>2. CASE Len(shown'[d]) + 1 + extra[d] <= Len(shown[d]) + v + extra'[d]
      <4>1. v <= Cardinality(S)
        BY <1>4, <1>13, <1>18
      <4> QED
        BY <1>19, <3>2, <4>1
    <3> QED
      BY <1>9, <1>14, <2>3, <3>1, <3>2 DEF Balanced, v
  <2> QED
    BY <2>2, <2>3
<1>15. CASE Fresh(c, d) \/ Forgotten(c, d)
  <2>1. S = {} /\ Cardinality(S) = 0 /\ v = 0
    BY <1>4, <1>5, <1>8, <1>15, ProcsAreFinite DEF Fresh, Forgotten
  <2>2. Cardinality(T) = w
    BY <1>4, <1>12, <2>1
  <2>3. CASE Fresh(c, d)
    BY <1>4, <1>6, <1>7, <1>9, <2>2, <2>3 DEF Fresh
  <2>4. CASE Forgotten(c, d)
    BY <1>4, <1>6, <1>11, <2>2, <2>4 DEF Forgotten
  <2> QED
    BY <1>15, <2>3, <2>4
<1> QED
  BY <1>14, <1>15

\* A row keeps its message while somebody has the event in hand.
Keeps(d) == row'[d].msg = 0 => row[d].msg = 0 \/ \A q \in Procs : ~Holds(ctx[q], d)

\* A step of p that shows all this.
LEMMA HandKept ==
  ASSUME TypeInv, TypeInv', HandInv, NEW p \in Procs, NEW l, NEW c, Arrives(p, l, c), Tidy(p, l, c),
         \A d \in Events : Keeps(d) /\ Owns(l, c, d, row'[d]),
         \A d \in Events : Balanced(p, l, c, d) \/ Fresh(c, d) \/ Forgotten(c, d),
         AllSaid'
  PROVE  HandInv'
<1>1. /\ \A e, r : Owns(Where(pc'[p], ctx'[p]), ctx'[p], e, r) <=> Owns(l, c, e, r)
      /\ Tidy(p, Where(pc'[p], ctx'[p]), ctx'[p])
      /\ \A q \in Procs \ {p} : pc'[q] = pc[q] /\ ctx'[q] = ctx[q]
  BY ArrivesKnown
<1>2. AllTidy'
  <2>1. ASSUME NEW q \in Procs PROVE Tidy(q, Where(pc'[q], ctx'[q]), ctx'[q])
    <3>1. CASE q = p
      BY <1>1, <3>1
    <3>2. CASE q # p
      BY <1>1, <3>2 DEF HandInv, AllTidy, At
    <3> QED
      BY <3>1, <3>2
  <2> QED
    BY <2>1 DEF AllTidy, At
<1>3. AllOwn'
  <2>1. ASSUME NEW q \in Procs, NEW d \in Events
        PROVE  Owns(Where(pc'[q], ctx'[q]), ctx'[q], d, row'[d])
    <3>1. CASE q = p
      BY <1>1, <3>1
    <3>2. CASE q # p
      <4>1. pc'[q] = pc[q] /\ ctx'[q] = ctx[q]
        BY <1>1, <3>2
      <4>2. Owns(Where(pc[q], ctx[q]), ctx[q], d, row[d])
        BY DEF HandInv, AllOwn, At
      <4>3. row'[d].msg = 0 => row[d].msg = 0 \/ ~Holds(ctx[q], d)
        BY DEF Keeps
      <4>4. Owns(Where(pc[q], ctx[q]), ctx[q], d, row'[d])
        BY <4>2, <4>3 DEF Owns, Holds
      <4> QED
        BY <4>1, <4>4
    <3> QED
      BY <3>1, <3>2
  <2> QED
    BY <2>1 DEF AllOwn, At
<1>4. AllCounted'
  <2>1. ASSUME NEW d \in Events PROVE Counted(d)'
    <3>1. Counted(d)
      BY DEF HandInv, AllCounted
    <3> QED
      BY <3>1, CountKept
  <2> QED
    BY <2>1 DEF AllCounted
<1> QED
  BY <1>2, <1>3, <1>4 DEF HandInv

\* What the job says of an event depends on its row by the message only.
LEMMA SaysMessage ==
  ASSUME NEW l, NEW c, NEW d, NEW r, NEW r2, NEW s, r2.msg = r.msg
  PROVE  Says(l, c, d, r, s) <=> Says(l, c, d, r2, s)
BY DEF Says

\* After a step of the job, which is at l with c then.
LEMMA JobSaid ==
  ASSUME NEW l, NEW c, Arrives(Job, l, c), NEW d \in Events,
         row'[d].state = "resolved" =>
           /\ \A h \in Handlers : ~Holds(ctx[h], d)
           /\ Says(l, c, d, row'[d], shown'[d])
  PROVE  Said(d)'
<1>1. Job \in Procs /\ Handlers \subseteq Procs \ {Job}
  BY ProcsAssumption DEF Procs
<1>2. /\ \A e, r, s : Says(Where(pc'[Job], ctx'[Job]), ctx'[Job], e, r, s) <=> Says(l, c, e, r, s)
      /\ \A q \in Procs \ {Job} : pc'[q] = pc[q] /\ ctx'[q] = ctx[q]
  BY <1>1, ArrivesKnown
<1>3. \A h \in Handlers : ctx'[h] = ctx[h]
  BY <1>1, <1>2
<1> QED
  BY <1>2, <1>3 DEF Said, At

\* After one of a handler p, which has c then.
LEMMA HandlerSaid ==
  ASSUME NEW p \in Handlers, NEW l, NEW c, Arrives(p, l, c), NEW d \in Events,
         row'[d].state = "resolved" =>
           /\ \A h \in Handlers : ~Holds(ctx[h], d)
           /\ ~Holds(c, d) /\ Says(At(Job), ctx[Job], d, row'[d], shown'[d])
  PROVE  Said(d)'
<1>1. Job \in Procs /\ p \in Procs /\ p # Job
  BY ProcsAssumption DEF Procs
<1>2. /\ \A e : Holds(ctx'[p], e) <=> Holds(c, e)
      /\ \A q \in Procs \ {p} : pc'[q] = pc[q] /\ ctx'[q] = ctx[q]
  BY <1>1, ArrivesKnown
<1>3. pc'[Job] = pc[Job] /\ ctx'[Job] = ctx[Job]
  BY <1>1, <1>2
<1>4. ASSUME NEW h \in Handlers, ~Holds(ctx[h], d), ~Holds(c, d) PROVE ~Holds(ctx'[h], d)
  <2>1. h \in Procs
    BY DEF Procs
  <2> QED
    BY <1>2, <1>4, <2>1
<1> QED
  BY <1>3, <1>4 DEF Said, At

\* An event that p neither writes nor has in hand afterwards.
LEMMA UntouchedSaid ==
  ASSUME HandInv, NEW p \in Procs, NEW l, NEW c, Arrives(p, l, c), NEW d \in Events \ blurred,
         row'[d].msg = row[d].msg, row'[d].state = "resolved" => row[d].state = "resolved",
         shown'[d] = shown[d], ~Holds(c, d),
         p = Job => ~Holds(ctx[Job], d) \/ row[d].state # "resolved"
  PROVE  Said(d)'
<1>1. Said(d)
  BY DEF HandInv, AllSaid
<1>2. CASE p = Job
  <2>1. ASSUME row'[d].state = "resolved"
        PROVE  (\A h \in Handlers : ~Holds(ctx[h], d)) /\ Says(l, c, d, row'[d], shown'[d])
    <3>1. /\ \A h \in Handlers : ~Holds(ctx[h], d)
          /\ Says(At(Job), ctx[Job], d, row[d], shown[d]) /\ ~Holds(ctx[Job], d)
      BY <1>1, <1>2, <2>1 DEF Said
    <3>2. Says(l, c, d, row'[d], shown'[d])
      BY <3>1 DEF Says, Holds
    <3> QED
      BY <3>1, <3>2
  <2> QED
    BY <1>2, <2>1, JobSaid
<1>3. CASE p # Job
  <2>1. p \in Handlers
    BY <1>3 DEF Procs
  <2>2. row'[d].state = "resolved" =>
          /\ \A h \in Handlers : ~Holds(ctx[h], d)
          /\ Says(At(Job), ctx[Job], d, row'[d], shown'[d])
    BY <1>1, SaysMessage DEF Said
  <2> QED
    BY <2>1, <2>2, HandlerSaid
<1> QED
  BY <1>2, <1>3

\* How a step of an alert leaves the local variables: with the same event, with none, or with one
\* that was put off.
Turn(p, l, c) ==
  \/ c.event = ctx[p].event /\ c.todo = ctx[p].todo /\ c.text = ctx[p].text
  \/ c.event = None /\ c.todo = {} /\ ctx[p].todo = {}
  \/ /\ l = "edit"
     /\ \E t \in ctx[p].todo : /\ c.event = t[1] /\ c.msg = t[2] /\ c.todo = ctx[p].todo \ {t}
                               /\ c.text = ctx[p].text

\* The rows and messages of the events other than p's own stay.
OthersStay(p) ==
  \A d \in Events : d # ctx[p].event => row'[d] = row[d] /\ shown'[d] = shown[d] /\ extra'[d] = extra[d]

\* What such a step has in hand it had before, and what it had but for its own event it still has.
LEMMA TurnHolds ==
  ASSUME NEW p \in Procs, NEW l, NEW c, Turn(p, l, c), NEW d \in Events
  PROVE  /\ Holds(c, d) => Holds(ctx[p], d)
         /\ (d # ctx[p].event /\ Holds(ctx[p], d)) => Holds(c, d)
<1>1. d # None
  BY NoneAssumption
<1> QED
  BY <1>1 DEF Turn, Holds

\* Of the other events the job says what it said.
LEMMA TurnSays ==
  ASSUME NEW p \in Procs, NEW l, NEW c, Turn(p, l, c), NEW d \in Events, d # ctx[p].event,
         NEW r, NEW s, Says(At(p), ctx[p], d, r, s)
  PROVE  Says(l, c, d, r, s)
<1>1. d # None
  BY NoneAssumption
<1>2. Holds(c, d) <=> Holds(ctx[p], d)
  BY TurnHolds
<1>3. CASE \/ c.event = ctx[p].event /\ c.todo = ctx[p].todo /\ c.text = ctx[p].text
           \/ c.event = None /\ c.todo = {} /\ ctx[p].todo = {}
  <2>1. c.event # d
    BY <1>1, <1>3
  <2>2. c.todo = ctx[p].todo /\ (Holds(c, d) => c.text = ctx[p].text)
    BY <1>1, <1>3 DEF Holds
  <2> QED
    BY <1>2, <2>1, <2>2 DEF Says
<1>4. ASSUME l = "edit", NEW t \in ctx[p].todo, c.event = t[1], c.msg = t[2],
             c.todo = ctx[p].todo \ {t}, c.text = ctx[p].text
      PROVE  Says(l, c, d, r, s)
  BY <1>2, <1>4 DEF Says, Resolving
<1> QED
  BY <1>3, <1>4 DEF Turn

\* A step of p that touches the row and the messages of its event e only.
LEMMA StepKept ==
  ASSUME TypeInv, TypeInv', HandInv, NEW p \in Procs, NEW l, NEW c, Arrives(p, l, c), Tidy(p, l, c),
         Turn(p, l, c), OthersStay(p), blurred \subseteq blurred',
         NEW e \in Events, e = ctx[p].event,
         row'[e].msg = 0 => row[e].msg = 0, row'[e].state = row[e].state,
         (c.event = e /\ c.msg # 0 /\ l # "own") => row'[e].msg # 0,
         Balanced(p, l, c, e),
         (p = Job /\ e \notin blurred' /\ Says(At(p), ctx[p], e, row[e], shown[e]))
           => Says(l, c, e, row'[e], shown'[e])
  PROVE  HandInv'
<1>1. Tidy(p, At(p), ctx[p]) /\ \A d \in Events : Owns(At(p), ctx[p], d, row[d])
  BY DEF HandInv, AllTidy, AllOwn
<1>2. \A d \in Events : Keeps(d)
  BY DEF Keeps, OthersStay
<1>3. ASSUME NEW d \in Events, d # e, row[d].msg = 0 PROVE ~Holds(ctx[p], d)
  BY <1>1, <1>3 DEF Owns, Holds
<1>4. ASSUME NEW d \in Events PROVE Owns(l, c, d, row'[d])
  <2>1. CASE d = e
    <3>1. \A t \in c.todo : t[1] # e
      BY <1>1 DEF Tidy, Turn
    <3> QED
      BY <2>1, <3>1 DEF Owns
  <2>2. CASE d # e
    <3>1. Holds(c, d) => row'[d].msg # 0
      BY <1>3, <2>2, TurnHolds DEF OthersStay
    <3> QED
      BY <3>1 DEF Owns, Holds
  <2> QED
    BY <2>1, <2>2
<1>5. ASSUME NEW d \in Events PROVE Balanced(p, l, c, d)
  <2>1. CASE d # e
    <3>1. row'[d] = row[d] /\ shown'[d] = shown[d] /\ extra'[d] = extra[d]
      BY <2>1 DEF OthersStay
    <3>2. d # None
      BY NoneAssumption
    <3>3. Weight(l, c, d) = 0
      BY <2>1, <3>2 DEF Turn, Weight, Sending
    <3>4. Weight(At(p), ctx[p], d) \in {0, 1}
      BY WeightKnown
    <3>5. Len(shown[d]) \in Nat /\ extra[d] \in Nat
      BY LengthsKnown DEF TypeInv, CountsRight, NotesRight
    <3>6. row[d].msg = 0 => ~Holds(ctx[p], d)
      BY <1>3, <2>1
    <3> QED
      BY <3>1, <3>3, <3>4, <3>5, <3>6 DEF Balanced
  <2> QED
    BY <2>1
<1>6. AllSaid'
  <2>1. SUFFICES ASSUME NEW d \in Events \ blurred' PROVE Said(d)'
    BY DEF AllSaid
  <2>2. Said(d)
    BY DEF HandInv, AllSaid
  <2>3. row'[d].state = row[d].state
    BY DEF OthersStay
  <2>4. CASE p = Job
    <3>1. ASSUME row'[d].state = "resolved"
          PROVE  (\A h \in Handlers : ~Holds(ctx[h], d)) /\ Says(l, c, d, row'[d], shown'[d])
      <4>1. /\ \A h \in Handlers : ~Holds(ctx[h], d)
            /\ Says(At(p), ctx[p], d, row[d], shown[d])
        BY <2>2, <2>3, <2>4, <3>1 DEF Said
      <4>2. CASE d = e
        BY <2>4, <4>1, <4>2
      <4>3. CASE d # e
        <5>1. row'[d] = row[d] /\ shown'[d] = shown[d]
          BY <4>3 DEF OthersStay
        <5>2. Says(l, c, d, row[d], shown[d])
          BY <4>1, <4>3, TurnSays
        <5> QED
          BY <4>1, <5>1, <5>2
      <4> QED
        BY <4>2, <4>3
    <3> QED
      BY <2>4, <3>1, JobSaid
  <2>5. CASE p # Job
    <3>1. p \in Handlers
      BY <2>5 DEF Procs
    <3>2. ASSUME row'[d].state = "resolved"
          PROVE  /\ \A h \in Handlers : ~Holds(ctx[h], d)
                 /\ ~Holds(c, d) /\ Says(At(Job), ctx[Job], d, row'[d], shown'[d])
      <4>1. /\ \A h \in Handlers : ~Holds(ctx[h], d)
            /\ Says(At(Job), ctx[Job], d, row[d], shown[d])
        BY <2>2, <2>3, <3>2 DEF Said
      <4>2. ~Holds(ctx[p], d)
        BY <3>1, <4>1
      <4>3. d # ctx[p].event /\ ~Holds(c, d)
        BY <4>2, TurnHolds DEF Holds
      <4>4. row'[d] = row[d] /\ shown'[d] = shown[d]
        BY <4>3 DEF OthersStay
      <4> QED
        BY <4>1, <4>3, <4>4
    <3> QED
      BY <3>1, <3>2, HandlerSaid
  <2> QED
    BY <2>4, <2>5
<1> QED
  BY <1>2, <1>4, <1>5, <1>6, HandKept

-----------------------------------------------------------------------------
(* The steps of an alert.                                                  *)

\* The types of a row and of the messages.
LEMMA RowKnown ==
  ASSUME TypeInv
  PROVE  /\ row \in [Events -> Event] /\ shown \in [Events -> Seq(States)]
         /\ \A e \in Events : row[e].msg \in Nat /\ row[e].state \in States /\ Len(shown[e]) \in Nat
BY LengthsKnown DEF TypeInv, RowsRight, Event

\* Between alerts a process has no event in hand.
LEMMA IdleHoldsNone ==
  ASSUME HandInv, NEW p \in Procs, pc[p] = Hub(p)
  PROVE  \A d \in Events : ~Holds(ctx[p], d)
<1>1. At(p) \in {"off", "run"}
  BY HubIsRight DEF At, Where, Flushing
<1>2. ctx[p].event = None /\ ctx[p].todo = {}
  BY <1>1 DEF HandInv, AllTidy, Tidy
<1> QED
  BY <1>2, NoneAssumption DEF Holds

\* Nor does Nothing hold any.
LEMMA NothingHoldsNone ==
  /\ \A d \in Events : ~Holds(Nothing, d)
  /\ \A p \in Procs : Tidy(p, "off", Nothing) /\ Tidy(p, "run", Nothing) /\ Tidy(p, Hub(p), Nothing)
<1>1. Nothing.event = None /\ Nothing.todo = {} /\ Nothing.text = "none" /\ ~Nothing.notifying
  BY DEF Nothing
<1> HIDE DEF Nothing
<1> QED
  BY <1>1, NoneAssumption, HubIsRight DEF Tidy, Holds

\* What p knows of the event that it alerts, being outside of a flush: unless a message is about
\* to be recorded, the event has one or p counts as one who sends it.
LEMMA AlertKnown ==
  ASSUME TypeInv, HandInv, NEW p \in Procs, pc[p] \in Alerting
  PROVE  /\ ctx[p].event \in Events /\ ctx[p] \in Context /\ At(p) = pc[p]
         /\ Tidy(p, pc[p], ctx[p]) /\ Owns(pc[p], ctx[p], ctx[p].event, row[ctx[p].event])
         /\ pc[p] # "own" =>
              row[ctx[p].event].msg # 0 \/ Weight(pc[p], ctx[p], ctx[p].event) = 1
<1>1. ctx[p].event \in Events /\ ctx[p] \in Context /\ At(p) = pc[p]
  BY LocalKnown DEF Alerting, At, Where
<1>2. Tidy(p, pc[p], ctx[p]) /\ Owns(pc[p], ctx[p], ctx[p].event, row[ctx[p].event])
  BY <1>1 DEF HandInv, AllTidy, AllOwn
<1>3. pc[p] \in Sending \/ pc[p] \in {"edit", "own", "resend", "adopt", "count"}
  BY DEF Alerting, PCs, Flushing, Sending
<1>4. pc[p] # "own" => row[ctx[p].event].msg # 0 \/ Weight(pc[p], ctx[p], ctx[p].event) = 1
  BY <1>2, <1>3 DEF Owns, Tidy, Weight
<1> QED
  BY <1>1, <1>2, <1>4

\* A step that says nothing and accounts for nothing, and leaves the event or goes on to send what
\* was to be sent.
LEMMA QuietKept ==
  ASSUME TypeInv, TypeInv', HandInv, NEW p \in Procs, pc[p] \in Alerting \ Resolving,
         NEW l, NEW c, Arrives(p, l, c), Tidy(p, l, c),
         \/ /\ c.event = ctx[p].event /\ c.todo = ctx[p].todo /\ c.text = ctx[p].text
            /\ c.msg = ctx[p].msg /\ pc[p] \in Sending
         \/ c.event = None /\ c.todo = {},
         UNCHANGED <<shown, extra, blurred>>,
         NEW e \in Events, e = ctx[p].event,
         \A d \in Events : d # e => row'[d] = row[d],
         row'[e].state = row[e].state, row'[e].msg = 0 => row[e].msg = 0,
         pc[p] = "own" => row'[e].msg # 0
  PROVE  HandInv'
<1>1. At(p) = pc[p] /\ Tidy(p, pc[p], ctx[p]) /\ Owns(pc[p], ctx[p], e, row[e])
      /\ (pc[p] # "own" => row[e].msg # 0 \/ Weight(pc[p], ctx[p], e) = 1)
  BY AlertKnown
<1>2. ctx[p].todo = {}
  BY <1>1 DEF Tidy
<1>3. Turn(p, l, c)
  BY <1>2 DEF Turn
<1>4. OthersStay(p)
  BY DEF OthersStay
<1>5. e # None /\ "own" \notin Sending
  BY NoneAssumption DEF Sending
<1>6. (c.event = e /\ c.msg # 0) => row'[e].msg # 0
  BY <1>1, <1>5 DEF Owns
<1>7. Balanced(p, l, c, e)
  <2>1. Len(shown[e]) \in Nat /\ extra[e] \in Nat
    BY LengthsKnown DEF TypeInv, CountsRight, NotesRight
  <2>2. Weight(l, c, e) \in {0, 1} /\ Weight(pc[p], ctx[p], e) \in {0, 1}
    BY WeightKnown
  <2>3. Weight(l, c, e) = 1 => Weight(pc[p], ctx[p], e) = 1
    BY <1>5 DEF Weight
  <2>4. (row'[e].msg = 0 /\ ~Holds(c, e)) => Weight(pc[p], ctx[p], e) = 1
    BY <1>1
  <2> QED
    BY <1>1, <2>1, <2>2, <2>3, <2>4 DEF Balanced
<1>8. ~Says(pc[p], ctx[p], e, row[e], shown[e])
  BY DEF Says
<1> QED
  BY <1>1, <1>3, <1>4, <1>6, <1>7, <1>8, StepKept

\* A step of that kind that ends the alert.
LEMMA QuietEnds ==
  ASSUME TypeInv, TypeInv', HandInv, NEW p \in Procs, pc[p] \in Alerting \ Resolving,
         Arrives(p, Hub(p), Nothing),
         UNCHANGED <<shown, extra, blurred>>,
         NEW e \in Events, e = ctx[p].event,
         \A d \in Events : d # e => row'[d] = row[d],
         row'[e].state = row[e].state, row'[e].msg = 0 => row[e].msg = 0,
         pc[p] = "own" => row'[e].msg # 0
  PROVE  HandInv'
<1>1. Tidy(p, Hub(p), Nothing) /\ Nothing.event = None /\ Nothing.todo = {}
  BY NothingHoldsNone DEF Nothing
<1> HIDE DEF Nothing
<1> QED
  BY <1>1, QuietKept

\* The change of severity.
LEMMA EscalateHand ==
  ASSUME TypeInv, TypeInv', HandInv, NEW p \in Procs, Escalate(p)
  PROVE  HandInv'
<1> DEFINE e == ctx[p].event
<1>1. pc[p] = "escalate" /\ pc[p] \in Alerting \ Resolving /\ pc[p] \in Sending
  BY DEF Escalate, Alerting, Flushing, PCs, Resolving, Sending
<1>2. e \in Events /\ Tidy(p, "escalate", ctx[p]) /\ ctx[p].todo = {}
      /\ ctx[p].then \in {Hub(p), "budget", "edit", "send"}
  BY <1>1, AlertKnown DEF Tidy
<1>3. UNCHANGED <<shown, extra, blurred>>
      /\ row' = [row EXCEPT ![e] = [row[e] EXCEPT !.raised = TRUE]]
  BY DEF Escalate, notes
<1>4. row'[e].msg = row[e].msg /\ row'[e].state = row[e].state
      /\ \A d \in Events : d # e => row'[d] = row[d]
  BY <1>2, <1>3, RowKnown DEF Event
<1>5. CASE ctx[p].then = Hub(p)
  <2>1. Arrives(p, Hub(p), Nothing)
    BY <1>5, DoneArrives DEF Escalate
  <2> QED
    BY <1>1, <1>2, <1>3, <1>4, <2>1, QuietEnds
<1>6. CASE ctx[p].then # Hub(p)
  <2>1. ctx[p].then \in {"budget", "edit", "send"}
    BY <1>2, <1>6
  <2>2. Arrives(p, ctx[p].then, ctx[p])
    BY <1>6, <2>1, GotoArrives DEF Escalate, Flushing
  <2>3. Tidy(p, ctx[p].then, ctx[p])
    BY <1>2, <2>1 DEF Tidy, Resolving
  <2> QED
    BY <1>1, <1>2, <1>3, <1>4, <2>2, <2>3, QuietKept
<1> QED
  BY <1>5, <1>6

\* The reading of the budget.
LEMMA ReadBudgetHand ==
  ASSUME TypeInv, TypeInv', HandInv, NEW p \in Procs, ReadBudget(p)
  PROVE  HandInv'
<1> DEFINE e == ctx[p].event
           c == [ctx[p] EXCEPT !.raw = budget]
<1>1. pc[p] = "budget" /\ pc[p] \in Alerting \ Resolving /\ pc[p] \in Sending
  BY DEF ReadBudget, Alerting, Flushing, PCs, Resolving, Sending
<1>2. ctx[p].todo = {} /\ Tidy(p, pc[p], ctx[p]) /\ ctx[p] \in Context /\ e \in Events
  BY <1>1, AlertKnown DEF Tidy
<1>3. UNCHANGED <<row, shown, extra, blurred>>
  BY DEF ReadBudget, rows, notes
<1>5. Same(c, ctx[p])
  BY <1>2 DEF Same, Context
<1>6. ASSUME NEW l \in {"spend", "notice"}, Goto(p, l, c)
      PROVE  HandInv'
  <2> HIDE DEF c
  <2>1. Arrives(p, l, c)
    BY <1>6, GotoArrives DEF Flushing
  <2>2. Tidy(p, l, c)
    BY <1>1, <1>2, <1>5 DEF Tidy, Same, Resolving
  <2> QED
    BY <1>1, <1>2, <1>3, <1>5, <2>1, <2>2, QuietKept DEF Same
<1>7. ASSUME Done(p)
      PROVE  HandInv'
  <2>1. Arrives(p, Hub(p), Nothing)
    BY <1>7, DoneArrives
  <2> QED
    BY <1>1, <1>2, <1>3, <2>1, QuietEnds
<1>8. (\E l \in {"spend", "notice"} : Goto(p, l, c)) \/ Done(p)
  BY DEF ReadBudget
<1> QED
  BY <1>6, <1>7, <1>8

\* Its writing.
LEMMA WriteBudgetHand ==
  ASSUME TypeInv, TypeInv', HandInv, NEW p \in Procs, Spend(p) \/ Notice(p)
  PROVE  HandInv'
<1> DEFINE e == ctx[p].event
<1>1. pc[p] \in {"spend", "notice"} /\ pc[p] \in Alerting \ Resolving /\ pc[p] \in Sending
  BY DEF Spend, Notice, Alerting, Flushing, PCs, Resolving, Sending
<1>2. ctx[p].todo = {} /\ Tidy(p, pc[p], ctx[p]) /\ e \in Events
  BY <1>1, AlertKnown DEF Tidy
<1>3. UNCHANGED <<row, shown, extra, blurred>>
  BY DEF Spend, Notice, rows, notes
<1>4. PICK l : Goto(p, l, ctx[p])
               /\ \/ l = "send" /\ ctx[p].msg = 0
                  \/ l = "edit" /\ ctx[p].msg # 0
                  \/ l = "warn"
  BY DEF Spend, Notice
<1>5. Arrives(p, l, ctx[p]) /\ Tidy(p, l, ctx[p])
  BY <1>1, <1>2, <1>4, GotoArrives DEF Flushing, Tidy, Resolving
<1> QED
  BY <1>1, <1>2, <1>3, <1>5, QuietKept

\* The suppression notice.
LEMMA WarnHand ==
  ASSUME TypeInv, TypeInv', HandInv, NEW p \in Procs, Warn(p)
  PROVE  HandInv'
<1> DEFINE e == ctx[p].event
<1>1. pc[p] = "warn" /\ pc[p] \in Alerting \ Resolving
  BY DEF Warn, Alerting, Flushing, PCs, Resolving
<1>2. e \in Events
  BY <1>1, AlertKnown
<1>3. UNCHANGED <<row, shown, extra, blurred>>
  BY DEF Warn, rows, notes
<1>4. Arrives(p, Hub(p), Nothing)
  BY HubIsRight, NothingIsRight, DoneArrives, FlushArrives DEF Warn, Flushing
<1> QED
  BY <1>1, <1>2, <1>3, <1>4, QuietEnds

\* The event takes the message that was sent for it as its own.
LEMMA OwnHand ==
  ASSUME TypeInv, TypeInv', HandInv, NEW p \in Procs, Own(p)
  PROVE  HandInv'
<1> DEFINE e == ctx[p].event
<1>1. pc[p] = "own" /\ pc[p] \in Alerting \ Resolving
  BY DEF Own, Alerting, Flushing, PCs, Resolving
<1>2. e \in Events /\ ctx[p].msg # 0 /\ ctx[p] \in Context
  BY <1>1, AlertKnown DEF Tidy
<1>3. row' = [row EXCEPT ![e] = [row[e] EXCEPT !.msg = ctx[p].msg, !.alerted = ctx[p].now]]
      /\ UNCHANGED <<shown, extra, blurred>>
  BY DEF Own, notes
<1>4. row'[e].msg = ctx[p].msg /\ row'[e].state = row[e].state
      /\ \A d \in Events : d # e => row'[d] = row[d]
  BY <1>2, <1>3, RowKnown DEF Event
<1>5. Arrives(p, Hub(p), Nothing)
  BY DoneArrives DEF Own
<1> QED
  BY <1>1, <1>2, <1>3, <1>4, <1>5, QuietEnds

\* The count of an alert that edited a message.
LEMMA CountHand ==
  ASSUME TypeInv, TypeInv', HandInv, NEW p \in Procs, Count(p)
  PROVE  HandInv'
<1> DEFINE e == ctx[p].event
<1>1. pc[p] = "count" /\ pc[p] \in Alerting \ Resolving
  BY DEF Count, Alerting, Flushing, PCs, Resolving
<1>2. e \in Events
  BY <1>1, AlertKnown
<1>3. row' = [row EXCEPT ![e] = [row[e] EXCEPT !.alerted = ctx[p].now]]
      /\ UNCHANGED <<shown, extra, blurred>>
  BY DEF Count, notes
<1>4. row'[e].msg = row[e].msg /\ row'[e].state = row[e].state
      /\ \A d \in Events : d # e => row'[d] = row[d]
  BY <1>2, <1>3, RowKnown DEF Event
<1>5. Arrives(p, Hub(p), Nothing)
  BY DoneArrives DEF Count
<1> QED
  BY <1>1, <1>2, <1>3, <1>4, <1>5, QuietEnds

\* A message that says something else is in its place.
LEMMA SayKnown ==
  ASSUME TypeInv, NEW e \in Events, NEW n \in Nat, NEW text, Say(e, n, text)
  PROVE  /\ Len(shown'[e]) = Len(shown[e])
         /\ n \in 1..Len(shown[e]) => shown'[e][n] = text
         /\ \A d \in Events : d # e => shown'[d] = shown[d]
<1>1. shown \in [Events -> Seq(States)]
  BY RowKnown
<1>2. shown'[e] = [shown[e] EXCEPT ![n] = text] /\ \A d \in Events : d # e => shown'[d] = shown[d]
  BY <1>1 DEF Say
<1>3. shown[e] \in Seq(States) /\ DOMAIN shown[e] = 1..Len(shown[e])
  BY <1>1, LenProperties
<1>4. shown'[e] = [i \in 1..Len(shown[e]) |-> IF i = n THEN text ELSE shown[e][i]]
  BY <1>2, <1>3
<1>5. Len(shown'[e]) = Len(shown[e])
  <2>1. Len(shown[e]) \in Nat
    BY <1>3, LenProperties
  <2> QED
    BY <1>4, <2>1
<1>6. n \in 1..Len(shown[e]) => shown'[e][n] = text
  BY <1>4
<1> QED
  BY <1>2, <1>5, <1>6

\* A message more is the last one.
LEMMA PostKnown ==
  ASSUME TypeInv, NEW e \in Events, NEW text \in States, Post(e, text)
  PROVE  /\ Len(shown'[e]) = Len(shown[e]) + 1 /\ shown'[e][Len(shown[e]) + 1] = text
         /\ \A d \in Events : d # e => shown'[d] = shown[d]
<1>1. shown \in [Events -> Seq(States)]
  BY RowKnown
<1> QED
  BY <1>1, AppendProperties DEF Post

\* p goes on with an event that it put off, or is done.
LEMMA GoOnKept ==
  ASSUME TypeInv, TypeInv', HandInv, NEW p \in Procs, pc[p] \in Alerting, GoOn(p),
         OthersStay(p), blurred \subseteq blurred',
         NEW e \in Events, e = ctx[p].event,
         row'[e].msg = 0 => row[e].msg = 0, row'[e].state = row[e].state,
         Len(shown'[e]) + extra[e] <= Len(shown[e]) + Weight(pc[p], ctx[p], e) + extra'[e],
         row'[e].msg = 0 =>
           Len(shown'[e]) + 1 + extra[e] <= Len(shown[e]) + Weight(pc[p], ctx[p], e) + extra'[e],
         (p = Job /\ e \notin blurred' /\ Says(pc[p], ctx[p], e, row[e], shown[e]) /\ row'[e].msg # 0)
           => shown'[e][row'[e].msg] = "resolved"
  PROVE  HandInv'
<1>1. At(p) = pc[p] /\ Tidy(p, pc[p], ctx[p]) /\ ctx[p] \in Context /\ e # None
  BY AlertKnown, NoneAssumption
<1>2. ASSUME NEW l, NEW c, Arrives(p, l, c), Tidy(p, l, c), Turn(p, l, c), ~Holds(c, e)
      PROVE  HandInv'
  <2>1. c.event # e /\ \A t \in c.todo : t[1] # e
    BY <1>2 DEF Holds
  <2>2. Weight(l, c, e) = 0
    BY <2>1 DEF Weight
  <2>3. Len(shown[e]) \in Nat /\ Len(shown'[e]) \in Nat /\ extra[e] \in Nat
    <3>1. shown'[e] \in Seq(States)
      BY DEF TypeInv, RowsRight
    <3> QED
      BY <3>1, LengthsKnown, LenProperties DEF TypeInv, CountsRight, NotesRight
  <2>4. Balanced(p, l, c, e)
    BY <1>1, <2>2, <2>3 DEF Balanced
  <2>5. (p = Job /\ e \notin blurred' /\ Says(At(p), ctx[p], e, row[e], shown[e]))
           => Says(l, c, e, row'[e], shown'[e])
    BY <1>1, <1>2, <2>1 DEF Says
  <2> QED
    BY <1>2, <2>1, <2>4, <2>5, StepKept
<1>3. CASE ctx[p].todo = {}
  <2>1. Arrives(p, Hub(p), Nothing)
    BY <1>3, DoneArrives DEF GoOn
  <2>2. Turn(p, Hub(p), Nothing)
    BY <1>3 DEF Turn, Nothing
  <2> QED
    BY <1>2, <2>1, <2>2, NothingHoldsNone
<1>4. CASE ctx[p].todo # {}
  <2>1. PICK t \in ctx[p].todo :
          Goto(p, "edit", [ctx[p] EXCEPT !.event = t[1], !.msg = t[2], !.todo = @ \ {t}])
    BY <1>4 DEF GoOn
  <2> DEFINE c == [ctx[p] EXCEPT !.event = t[1], !.msg = t[2], !.todo = @ \ {t}]
  <2>3. c.event = t[1] /\ c.msg = t[2] /\ c.todo = ctx[p].todo \ {t}
        /\ c.text = ctx[p].text /\ c.notifying = ctx[p].notifying
    BY <1>1 DEF Context
  <2>4. Arrives(p, "edit", c)
    BY <2>1, GotoArrives DEF Flushing
  <2> HIDE DEF c
  <2>5. c.text = "resolved" /\ t[2] # 0 /\ t[1] # e
    BY <1>1, <1>4, <2>3 DEF Tidy
  <2>6. Tidy(p, "edit", c)
    BY <1>1, <2>3, <2>5 DEF Tidy, Resolving
  <2>7. Turn(p, "edit", c)
    BY <2>3 DEF Turn
  <2>8. ~Holds(c, e)
    BY <1>1, <2>3, <2>5 DEF Tidy, Holds
  <2> QED
    BY <1>2, <2>4, <2>6, <2>7, <2>8
<1> QED
  BY <1>3, <1>4

\* A call that fails while the job resolves the event leaves it blurred.
LEMMA BlurKnown ==
  ASSUME NEW p, NEW e, e = ctx[p].event, Blur(p, {e})
  PROVE  /\ blurred \subseteq blurred'
         /\ \A l, r, s : e \notin blurred' => ~Says(l, ctx[p], e, r, s)
BY DEF Blur, Says, Holds

\* A message is sent: the one that the event is to own, or one that takes its place.
LEMMA SendHand ==
  ASSUME TypeInv, TypeInv', HandInv, NEW p \in Procs, Send(p) \/ Resend(p)
  PROVE  HandInv'
<1> DEFINE e == ctx[p].event
           c == [ctx[p] EXCEPT !.msg = Len(shown[e]) + 1]
<1>1. PICK l : SendFresh(p, l) /\ ((pc[p] = "send" /\ l = "own") \/ (pc[p] = "resend" /\ l = "adopt"))
  BY DEF Send, Resend
<1>2. pc[p] \in Alerting
  BY <1>1 DEF Alerting, Flushing, PCs
<1>3. e \in Events /\ ctx[p] \in Context /\ Tidy(p, pc[p], ctx[p]) /\ ctx[p].text \in States
      /\ At(p) = pc[p] /\ Owns(pc[p], ctx[p], e, row[e])
  BY <1>2, AlertKnown DEF Context
<1>4. row' = row
  BY <1>1 DEF SendFresh
<1>5. Len(shown[e]) \in Nat /\ extra \in [Events -> Nat] /\ extra[e] \in Nat
  BY <1>3, LengthsKnown DEF TypeInv, CountsRight, NotesRight
<1>6. /\ pc[p] = "send" => Weight(pc[p], ctx[p], e) = 1
      /\ pc[p] = "resend" => Weight(pc[p], ctx[p], e) = 0 /\ row[e].msg # 0
  BY <1>3 DEF Weight, Sending, Tidy, Owns
<1>7. /\ Extra(e) => extra'[e] = extra[e] + 1
      /\ Extra(e) \/ UNCHANGED extra => \A d \in Events : d # e => extra'[d] = extra[d]
  BY <1>3, <1>5 DEF Extra
<1>8. ASSUME Post(e, ctx[p].text), FlushThen(p, l, c), UNCHANGED blurred,
             IF l = "adopt" THEN Extra(e) ELSE UNCHANGED extra
      PROVE  HandInv'
  <2>1. c \in Context
    <3>1. Len(shown[e]) + 1 \in Nat
      BY <1>5
    <3> QED
      BY <1>3, <3>1 DEF Context
  <2>2. c.event = e /\ c.todo = ctx[p].todo /\ c.text = ctx[p].text
        /\ c.notifying = ctx[p].notifying /\ c.msg = Len(shown[e]) + 1
    BY <1>3 DEF Context
  <2>3. FlushThen(p, l, c)
    BY <1>8
  <2>4. Len(shown'[e]) = Len(shown[e]) + 1 /\ shown'[e][Len(shown[e]) + 1] = ctx[p].text
        /\ OthersStay(p)
    BY <1>3, <1>4, <1>7, <1>8, PostKnown DEF OthersStay
  <2> HIDE DEF c
  <2>5. Arrives(p, l, c)
    BY <1>1, <2>1, <2>3, FlushArrives DEF Flushing
  <2>6. c.msg # 0 /\ c.msg \in 1..Len(shown'[e])
    BY <1>5, <2>2, <2>4
  <2>7. Tidy(p, l, c)
    BY <1>1, <1>3, <2>2, <2>6 DEF Tidy, Resolving
  <2>8. Turn(p, l, c) /\ Holds(c, e)
    BY <2>2 DEF Turn, Holds
  <2>9. (c.event = e /\ c.msg # 0 /\ l # "own") => row'[e].msg # 0
    BY <1>1, <1>4, <1>6
  <2>10. Balanced(p, l, c, e)
    <3>1. Weight(l, c, e) = 0
      BY <2>6 DEF Weight
    <3>2. CASE pc[p] = "send"
      <4>1. extra'[e] = extra[e] /\ Weight(At(p), ctx[p], e) = 1
        BY <1>1, <1>3, <1>6, <1>8, <3>2
      <4> QED
        BY <1>5, <2>4, <2>8, <3>1, <4>1 DEF Balanced
    <3>3. CASE pc[p] = "resend"
      <4>1. extra'[e] = extra[e] + 1 /\ Weight(At(p), ctx[p], e) = 0
        BY <1>1, <1>3, <1>6, <1>7, <1>8, <3>3
      <4> QED
        BY <1>5, <2>4, <2>8, <3>1, <4>1 DEF Balanced
    <3> QED
      BY <1>1, <3>2, <3>3
  <2>11. Says(At(p), ctx[p], e, row[e], shown[e]) => Says(l, c, e, row'[e], shown'[e])
    <3>1. SUFFICES ASSUME Says(At(p), ctx[p], e, row[e], shown[e]) PROVE Says(l, c, e, row'[e], shown'[e])
      OBVIOUS
    <3>2. ctx[p].text = "resolved" /\ pc[p] \in Resolving /\ \A t \in ctx[p].todo : t[1] # e
      BY <1>3, <3>1 DEF Says, Holds, Tidy
    <3>3. l = "adopt"
      BY <1>1, <3>2 DEF Resolving
    <3> QED
      BY <2>2, <2>4, <2>6, <2>8, <3>2, <3>3 DEF Says, Resolving
  <2> QED
    BY <1>3, <1>4, <1>8, <2>4, <2>5, <2>7, <2>8, <2>9, <2>10, <2>11, StepKept
<1>9. ASSUME GoOn(p), Blur(p, {e}), (Post(e, ctx[p].text) /\ Extra(e)) \/ UNCHANGED <<shown, extra>>
      PROVE  HandInv'
  <2>1. OthersStay(p)
    BY <1>3, <1>4, <1>7, <1>9, PostKnown DEF OthersStay
  <2>2. \/ Len(shown'[e]) = Len(shown[e]) + 1 /\ extra'[e] = extra[e] + 1
        \/ Len(shown'[e]) = Len(shown[e]) /\ extra'[e] = extra[e]
    BY <1>3, <1>7, <1>9, PostKnown
  <2>3. /\ Len(shown'[e]) + extra[e] <= Len(shown[e]) + Weight(pc[p], ctx[p], e) + extra'[e]
        /\ row'[e].msg = 0 =>
             Len(shown'[e]) + 1 + extra[e] <= Len(shown[e]) + Weight(pc[p], ctx[p], e) + extra'[e]
    <3>1. Weight(pc[p], ctx[p], e) = 1 \/ (Weight(pc[p], ctx[p], e) = 0 /\ row'[e].msg # 0)
      BY <1>1, <1>4, <1>6
    <3> DEFINE w == Weight(pc[p], ctx[p], e)
               n == Len(shown[e])
               n2 == Len(shown'[e])
               x == extra[e]
               x2 == extra'[e]
    <3>2. n \in Nat /\ x \in Nat /\ ((n2 = n + 1 /\ x2 = x + 1) \/ (n2 = n /\ x2 = x))
      BY <1>5, <2>2
    <3>3. w = 1 \/ (w = 0 /\ row'[e].msg # 0)
      BY <3>1
    <3> HIDE DEF w, n, n2, x, x2
    <3>4. n2 + x <= n + w + x2 /\ (row'[e].msg = 0 => n2 + 1 + x <= n + w + x2)
      BY <3>2, <3>3
    <3> QED
      BY <3>4 DEF w, n, n2, x, x2
  <2>4. blurred \subseteq blurred' /\ (e \notin blurred' => ~Says(pc[p], ctx[p], e, row[e], shown[e]))
    BY <1>9, BlurKnown
  <2> QED
    BY <1>2, <1>3, <1>4, <1>9, <2>1, <2>3, <2>4, GoOnKept
<1> QED
  BY <1>1, <1>8, <1>9 DEF SendFresh


\* The event takes the message that replaces one that is too old.
LEMMA AdoptHand ==
  ASSUME TypeInv, TypeInv', HandInv, NEW p \in Procs, Adopt(p)
  PROVE  HandInv'
<1> DEFINE e == ctx[p].event
<1>1. pc[p] = "adopt" /\ pc[p] \in Alerting
  BY DEF Adopt, Alerting, Flushing, PCs
<1>2. ctx[p] \in Context /\ e \in Events /\ Tidy(p, pc[p], ctx[p]) /\ At(p) = pc[p] /\ ctx[p].msg # 0
  BY <1>1, AlertKnown DEF Tidy
<1>3. UNCHANGED <<shown, extra, blurred>> /\ row' = [row EXCEPT ![e] = [row[e] EXCEPT !.msg = ctx[p].msg]]
  BY DEF Adopt, notes
<1>4. row'[e].msg = ctx[p].msg /\ row'[e].state = row[e].state /\ OthersStay(p)
  BY <1>2, <1>3, RowKnown DEF Event, OthersStay
<1>5. Len(shown[e]) \in Nat /\ extra[e] \in Nat /\ Weight(pc[p], ctx[p], e) = 0
  BY <1>2, LengthsKnown DEF TypeInv, CountsRight, NotesRight, Weight
<1>6. Says(pc[p], ctx[p], e, row[e], shown[e]) =>
        ctx[p].text = "resolved" /\ shown'[e][row'[e].msg] = "resolved"
  BY <1>1, <1>3, <1>4 DEF Says, Holds
<1>7. CASE GoOn(p)
  BY <1>1, <1>2, <1>3, <1>4, <1>5, <1>6, <1>7, GoOnKept
<1>8. CASE ctx[p].notifying /\ Goto(p, "count", ctx[p])
  <2>1. ctx[p].text # "resolved"
    BY <1>2, <1>8 DEF Tidy
  <2>2. Arrives(p, "count", ctx[p]) /\ Tidy(p, "count", ctx[p])
    BY <1>2, <1>8, <2>1, GotoArrives DEF Flushing, Tidy
  <2>3. Turn(p, "count", ctx[p])
    BY DEF Turn
  <2>4. Balanced(p, "count", ctx[p], e)
    BY <1>2, <1>3, <1>4, <1>5 DEF Balanced, Weight, Sending
  <2> QED
    BY <1>2, <1>3, <1>4, <1>6, <2>1, <2>2, <2>3, <2>4, StepKept
<1> QED
  BY <1>7, <1>8 DEF Adopt, Edited

\* The message of an event says what p has to say, or the call fails.
LEMMA EditHand ==
  ASSUME TypeInv, TypeInv', HandInv, NEW p \in Procs, Edit(p)
  PROVE  HandInv'
<1> DEFINE e == ctx[p].event
<1>1. pc[p] = "edit" /\ pc[p] \in Alerting
  BY DEF Edit, Alerting, Flushing, PCs
<1>2. ctx[p] \in Context /\ e \in Events /\ Tidy(p, pc[p], ctx[p]) /\ At(p) = pc[p]
      /\ ctx[p].msg # 0 /\ ctx[p].msg \in Nat /\ row[e].msg # 0
  BY <1>1, AlertKnown DEF Tidy, Owns, Context
<1>3. row' = row /\ UNCHANGED extra
  BY DEF Edit
<1>4. Len(shown[e]) \in Nat /\ extra[e] \in Nat /\ Weight(pc[p], ctx[p], e) = 0
      /\ row[e].msg \in 1..Len(shown[e])
  <2>1. row[e].msg <= Len(shown[e]) /\ row[e].msg \in Nat /\ Len(shown[e]) \in Nat
    BY <1>2, RowKnown DEF TypeInv, RowsRight
  <2>2. row[e].msg \in 1..Len(shown[e])
    BY <1>2, <2>1
  <2> QED
    BY <1>2, <2>1, <2>2 DEF TypeInv, CountsRight, NotesRight, Weight
<1>5. ASSUME Say(e, ctx[p].msg, ctx[p].text) \/ UNCHANGED shown
      PROVE  /\ OthersStay(p) /\ Len(shown'[e]) = Len(shown[e])
             /\ Len(shown'[e]) + extra[e] <= Len(shown[e]) + Weight(pc[p], ctx[p], e) + extra'[e]
  <2>1. OthersStay(p) /\ Len(shown'[e]) = Len(shown[e])
    BY <1>2, <1>3, <1>5, SayKnown DEF OthersStay
  <2> QED
    BY <1>3, <1>4, <2>1
<1>6. ASSUME Say(e, ctx[p].msg, ctx[p].text), Edited(p), UNCHANGED blurred
      PROVE  HandInv'
  <2>1. Says(pc[p], ctx[p], e, row[e], shown[e]) =>
          ctx[p].text = "resolved" /\ shown'[e][row'[e].msg] = "resolved"
    <3>1. SUFFICES ASSUME Says(pc[p], ctx[p], e, row[e], shown[e])
                   PROVE  ctx[p].text = "resolved" /\ shown'[e][row'[e].msg] = "resolved"
      OBVIOUS
    <3>2. ctx[p].text = "resolved" /\ ctx[p].msg = row[e].msg
      BY <1>1, <3>1 DEF Says, Holds
    <3>3. shown'[e][ctx[p].msg] = ctx[p].text
      BY <1>2, <1>4, <1>6, <3>2, SayKnown
    <3> QED
      BY <1>3, <3>2, <3>3
  <2>2. CASE GoOn(p)
    BY <1>1, <1>2, <1>3, <1>5, <1>6, <2>1, <2>2, GoOnKept
  <2>3. CASE ctx[p].notifying /\ Goto(p, "count", ctx[p])
    <3>1. ctx[p].text # "resolved"
      BY <1>2, <2>3 DEF Tidy
    <3>2. Arrives(p, "count", ctx[p]) /\ Tidy(p, "count", ctx[p])
      BY <1>2, <2>3, <3>1, GotoArrives DEF Flushing, Tidy
    <3>3. Turn(p, "count", ctx[p])
      BY DEF Turn
    <3>4. Balanced(p, "count", ctx[p], e)
      BY <1>2, <1>3, <1>4, <1>5, <1>6 DEF Balanced, Weight, Sending
    <3> QED
      BY <1>2, <1>3, <1>5, <1>6, <2>1, <3>1, <3>2, <3>3, <3>4, StepKept
  <2> QED
    BY <1>6, <2>2, <2>3 DEF Edited
<1>7. ASSUME GoOn(p), Blur(p, {e}), Say(e, ctx[p].msg, ctx[p].text) \/ UNCHANGED shown
      PROVE  HandInv'
  <2>1. blurred \subseteq blurred' /\ (e \notin blurred' => ~Says(pc[p], ctx[p], e, row[e], shown[e]))
    BY <1>7, BlurKnown
  <2> QED
    BY <1>1, <1>2, <1>3, <1>5, <1>7, <2>1, GoOnKept
<1>8. ASSUME Goto(p, "resend", ctx[p]), UNCHANGED <<shown, blurred>>
      PROVE  HandInv'
  <2>1. Arrives(p, "resend", ctx[p]) /\ Tidy(p, "resend", ctx[p]) /\ Turn(p, "resend", ctx[p])
    BY <1>1, <1>2, <1>8, GotoArrives DEF Flushing, Tidy, Turn, Resolving
  <2>2. Balanced(p, "resend", ctx[p], e)
    BY <1>2, <1>3, <1>4, <1>5, <1>8 DEF Balanced, Weight, Sending
  <2>3. Says(pc[p], ctx[p], e, row[e], shown[e]) => Says("resend", ctx[p], e, row'[e], shown'[e])
    BY <1>3, <1>8 DEF Says, Resolving
  <2> QED
    BY <1>2, <1>3, <1>5, <1>8, <2>1, <2>2, <2>3, StepKept
<1> QED
  BY <1>6, <1>7, <1>8 DEF Edit

\* The steps of a flush.
LEMMA FlushHand ==
  ASSUME TypeInv, TypeInv', HandInv, NEW p \in Procs, Header(p) \/ Body(p) \/ Mark(p)
  PROVE  HandInv'
<1>1. Arrives(p, At(p), ctx[p]) /\ Tidy(p, At(p), ctx[p])
  BY InFlushArrives DEF HandInv, AllTidy
<1>2. UNCHANGED <<row, shown, extra, blurred>>
  BY DEF Header, Body, Mark, rows, notes
<1>3. \A d \in Events : Keeps(d) /\ Owns(At(p), ctx[p], d, row'[d])
  BY <1>2 DEF Keeps, HandInv, AllOwn
<1>4. ASSUME NEW d \in Events PROVE Balanced(p, At(p), ctx[p], d)
  <2>1. Len(shown[d]) \in Nat /\ extra[d] \in Nat /\ Weight(At(p), ctx[p], d) \in {0, 1}
    BY LengthsKnown, WeightKnown DEF TypeInv, CountsRight, NotesRight
  <2> QED
    BY <1>2, <2>1 DEF Balanced
<1>5. ASSUME NEW d \in Events \ blurred' PROVE Said(d)'
  <2>1. Said(d)
    BY <1>2 DEF HandInv, AllSaid
  <2>2. CASE p = Job
    BY <1>1, <1>2, <2>1, <2>2, JobSaid DEF Said
  <2>3. CASE p # Job
    <3>1. p \in Handlers
      BY <2>3 DEF Procs
    <3> QED
      BY <1>1, <1>2, <2>1, <3>1, HandlerSaid DEF Said
  <2> QED
    BY <2>2, <2>3
<1> QED
  BY <1>1, <1>3, <1>4, <1>5, HandKept DEF AllSaid

\* Every step of an alert.
LEMMA StepHand ==
  ASSUME TypeInv, TypeInv', HandInv, NEW p \in Procs, Step(p)
  PROVE  HandInv'
BY EscalateHand, ReadBudgetHand, WriteBudgetHand, WarnHand, SendHand, OwnHand, EditHand,
   AdoptHand, CountHand, FlushHand DEF Step

-----------------------------------------------------------------------------
(* What begins, and what ends, an alert.                                   *)

\* An alert that is to be edited has a message, and one that is to be sent has none.
LEMMA RouteOwns ==
  ASSUME NEW p \in Procs, NEW e, NEW r, NEW notifying, NEW now
  PROVE  /\ Route(p, e, r, notifying, now) = "send" => r.msg = 0
         /\ Route(p, e, r, notifying, now) = "edit" => r.msg # 0
BY HubIsRight DEF Route

\* What p has not in hand and says nothing of is balanced while its row keeps its message.
LEMMA UntouchedBalance ==
  ASSUME TypeInv, TypeInv', NEW p \in Procs, NEW l, NEW c, NEW d \in Events,
         ~Holds(ctx[p], d), Weight(l, c, d) = 0, row'[d].msg = row[d].msg,
         shown'[d] = shown[d], extra[d] <= extra'[d]
  PROVE  Balanced(p, l, c, d)
<1>1. Len(shown[d]) \in Nat /\ extra[d] \in Nat /\ extra'[d] \in Nat
  BY LengthsKnown DEF TypeInv, CountsRight, NotesRight
<1>2. Weight(At(p), ctx[p], d) = 0
  BY WeightKnown
<1> QED
  BY <1>1, <1>2 DEF Balanced

\* An occurrence is recorded, and its alert begins.
LEMMA RecordHand ==
  ASSUME TypeInv, TypeInv', HandInv, NEW p \in Procs, NEW e \in Events, Record(p, e)
  PROVE  HandInv'
<1> DEFINE new == Recorded(row[e])
           escalated == Escalates(e, new)
           r == [new EXCEPT !.raised = @ \/ escalated]
           notifying == Notifying(r, escalated, hour)
           to == Route(p, e, r, notifying, hour)
           c == [Nothing EXCEPT !.event = e, !.now = hour, !.text = r.state,
                                !.msg = r.msg, !.notifying = notifying, !.then = to]
<1>1. row[e] \in Event /\ row \in [Events -> Event]
  BY DEF TypeInv, RowsRight
<1>2. new \in Event /\ new.msg = row[e].msg /\ new.state # "resolved"
  <2>1. new \in Event /\ new.msg = row[e].msg
    BY <1>1, RecordedRow
  <2>2. new.state # "resolved"
    BY <1>1 DEF Recorded, Event
  <2> QED
    BY <2>1, <2>2
<1>3. r.msg = row[e].msg /\ r.state # "resolved"
  <2> HIDE DEF new
  <2> QED
    BY <1>2 DEF Event
<1>4. c.event = e /\ c.todo = {} /\ c.text # "resolved" /\ c.msg = row[e].msg /\ c.then = to
  <2> HIDE DEF r, to, notifying
  <2> QED
    BY <1>3 DEF Nothing
<1>5. to \in {Hub(p), "budget", "edit", "send"}
      /\ (to = "send" => row[e].msg = 0) /\ (to = "edit" => row[e].msg # 0)
  <2> HIDE DEF r, notifying
  <2> QED
    BY <1>3, RouteKnown, RouteOwns
<1>6. /\ IF escalated THEN Goto(p, "escalate", c)
         ELSE Goto(p, to, IF to = Hub(p) THEN Nothing ELSE c)
      /\ pc[p] = Hub(p) /\ UNCHANGED <<shown, blurred>>
      /\ row' = [row EXCEPT ![e] = new]
      /\ IF row[e].msg = 0 /\ e \in Elsewhere(p) THEN Extra(e) ELSE UNCHANGED extra
  BY DEF Record
<1> HIDE DEF c, to, notifying, r, escalated, new
<1>7. row'[e].msg = row[e].msg /\ row'[e].state # "resolved"
      /\ \A d \in Events : d # e => row'[d] = row[d]
  BY <1>1, <1>2, <1>6
<1>8. \A d \in Events : ~Holds(ctx[p], d)
  BY <1>6, IdleHoldsNone
<1>9. \A d \in Events : Keeps(d)
  BY <1>7 DEF Keeps
<1>10. extra \in [Events -> Nat] /\ Len(shown[e]) \in Nat
  BY LengthsKnown DEF TypeInv, CountsRight, NotesRight
<1>11. /\ \A d \in Events : extra[d] <= extra'[d]
       /\ row[e].msg = 0 =>
            \/ extra'[e] = extra[e] + 1
            \/ extra'[e] = extra[e] /\ \A q \in Procs : ~Holds(ctx[q], e)
  <2>1. CASE row[e].msg = 0 /\ e \in Elsewhere(p)
    BY <1>6, <1>10, <2>1 DEF Extra
  <2>2. CASE ~(row[e].msg = 0 /\ e \in Elsewhere(p))
    <3>1. e \notin Elsewhere(p) => \A q \in Procs : ~Holds(ctx[q], e)
      BY <1>8, HoldsInHand DEF Elsewhere
    <3> QED
      BY <1>6, <1>10, <2>2, <3>1
  <2> QED
    BY <2>1, <2>2
<1>12. ASSUME NEW l, NEW x, Arrives(p, l, x), Tidy(p, l, x),
              \A d \in Events : d # e => ~Holds(x, d),
              (x.event = e /\ x.msg # 0) => row[e].msg # 0, x.todo = {},
              Holds(x, e) => x.msg = row[e].msg
       PROVE  HandInv'
  <2>1. ASSUME NEW d \in Events PROVE Owns(l, x, d, row'[d])
    BY <1>7, <1>12 DEF Owns, Holds
  <2>2. ASSUME NEW d \in Events, d # e PROVE Balanced(p, l, x, d)
    BY <1>6, <1>7, <1>8, <1>11, <1>12, <2>2, WeightKnown, UntouchedBalance
  <2>3. Balanced(p, l, x, e) \/ Fresh(x, e)
    <3>1. CASE Weight(l, x, e) = 0
      BY <1>6, <1>7, <1>8, <1>11, <3>1, UntouchedBalance
    <3>2. CASE Weight(l, x, e) = 1
      <4>1. Holds(x, e) /\ row[e].msg = 0
        BY <1>12, <3>2, WeightKnown DEF Weight
      <4>2. CASE extra'[e] = extra[e] + 1
        <5>1. Weight(At(p), ctx[p], e) = 0
          BY <1>8, WeightKnown
        <5> QED
          BY <1>6, <1>10, <3>2, <4>1, <4>2, <5>1 DEF Balanced
      <4>3. CASE extra'[e] = extra[e] /\ \A q \in Procs : ~Holds(ctx[q], e)
        BY <1>6, <4>1, <4>3 DEF Fresh
      <4> QED
        BY <1>11, <4>1, <4>2, <4>3
    <3> QED
      BY <3>1, <3>2, WeightKnown
  <2>4. AllSaid'
    <3>1. ASSUME NEW d \in Events \ blurred', d # e PROVE Said(d)'
      BY <1>6, <1>7, <1>8, <1>12, <3>1, UntouchedSaid
    <3>2. Said(e)'
      BY <1>7 DEF Said
    <3> QED
      BY <3>1, <3>2 DEF AllSaid
  <2> QED
    BY <1>9, <1>12, <2>1, <2>2, <2>3, <2>4, HandKept
<1>13. ASSUME NEW l \in {"escalate", "budget", "edit", "send"}, Goto(p, l, c),
              l = "escalate" \/ l = to
       PROVE  HandInv'
  <2>1. Arrives(p, l, c) /\ Tidy(p, l, c)
    BY <1>4, <1>5, <1>13, GotoArrives DEF Tidy, Flushing
  <2> QED
    BY <1>4, <1>12, <2>1 DEF Holds
<1>14. ASSUME Done(p)
       PROVE  HandInv'
  <2>1. Arrives(p, Hub(p), Nothing)
    BY <1>14, DoneArrives
  <2>2. Nothing.event # e /\ Nothing.todo = {}
    BY NoneAssumption DEF Nothing
  <2> HIDE DEF Nothing
  <2> QED
    BY <1>12, <2>1, <2>2, NothingHoldsNone
<1>15. CASE escalated
  BY <1>6, <1>13, <1>15
<1>16. CASE ~escalated /\ to = Hub(p)
  BY <1>6, <1>14, <1>16 DEF Done
<1>17. CASE ~escalated /\ to # Hub(p)
  BY <1>5, <1>6, <1>13, <1>17
<1> QED
  BY <1>15, <1>16, <1>17

\* A source recovers: its events are resolved, then their messages are edited.
LEMMA ResolveHand ==
  ASSUME TypeInv, TypeInv', HandInv, Resolve
  PROVE  HandInv'
<1> DEFINE open == {e \in Fetch : row[e].state \in {"unacked", "acked"}}
           todo == {<<e, row[e].msg>> : e \in {d \in open : row[d].msg # 0}}
<1>1. Job \in Procs /\ pc[Job] = Hub(Job) /\ open \subseteq Events
  BY EventsAssumption DEF Resolve, Procs, Hub
<1>2. /\ row' = [e \in Events |-> IF e \in open THEN [row[e] EXCEPT !.state = "resolved", !.streak = 0]
                                  ELSE row[e]]
      /\ UNCHANGED <<shown, extra>> /\ blurred' = (blurred \ open) \cup (open \cap Elsewhere(Job))
      /\ \/ todo = {} /\ Done(Job)
         \/ \E t \in todo :
              Goto(Job, "edit", [Nothing EXCEPT !.event = t[1], !.msg = t[2],
                                                !.todo = todo \ {t}, !.text = "resolved"])
  BY DEF Resolve
<1>3. \A d \in Events : row'[d].msg = row[d].msg /\ (d \notin open => row'[d] = row[d])
  BY <1>2, RowKnown DEF Event
<1>4. \A d \in Events : ~Holds(ctx[Job], d)
  BY <1>1, IdleHoldsNone
<1>5. \A d \in Events : Keeps(d)
  BY <1>3 DEF Keeps
<1>6. \A t \in todo : t[1] \in open /\ t[2] = row[t[1]].msg /\ t[2] # 0
  OBVIOUS
<1>7. \A d \in open : row[d].msg # 0 => <<d, row[d].msg>> \in todo
  OBVIOUS
<1>8. \A t, u \in todo : t[1] = u[1] => t = u
  OBVIOUS
<1>9. \A d \in Events \ blurred' : IF d \in open THEN \A h \in Handlers : ~Holds(ctx[h], d)
                                   ELSE d \notin blurred
  <2>1. Handlers \subseteq Procs \ {Job}
    BY ProcsAssumption DEF Procs
  <2>2. ASSUME NEW d \in open, d \notin blurred', NEW h \in Handlers PROVE ~Holds(ctx[h], d)
    BY <1>1, <1>2, <2>1, <2>2, HoldsInHand DEF Elsewhere
  <2> QED
    BY <1>2, <2>2
<1>10. \A d \in Events : extra[d] <= extra'[d]
  <2>1. extra' = extra
    BY <1>2
  <2>2. extra \in [Events -> Nat]
    BY DEF TypeInv, CountsRight, NotesRight
  <2> HIDE DEF open, todo
  <2> QED
    BY <2>1, <2>2
<1> HIDE DEF open, todo
<1>11. ASSUME NEW l, NEW c, Arrives(Job, l, c), Tidy(Job, l, c), l \notin Sending,
              \A d \in Events : Holds(c, d) => d \in open /\ row[d].msg # 0,
              \A d \in open : Says(l, c, d, row'[d], shown'[d])
       PROVE  HandInv'
  <2>1. ASSUME NEW d \in Events PROVE Owns(l, c, d, row'[d])
    BY <1>3, <1>11 DEF Owns, Holds
  <2>2. ASSUME NEW d \in Events PROVE Balanced(Job, l, c, d)
    <3>1. Weight(l, c, d) = 0
      BY <1>11 DEF Weight
    <3> QED
      BY <1>1, <1>2, <1>3, <1>4, <1>10, <3>1, UntouchedBalance
  <2>3. ASSUME NEW d \in Events \ blurred' PROVE Said(d)'
    <3>1. CASE d \in open
      BY <1>9, <1>11, <3>1, JobSaid
    <3>2. CASE d \notin open
      BY <1>1, <1>2, <1>3, <1>4, <1>9, <1>11, <3>2, UntouchedSaid
    <3> QED
      BY <3>1, <3>2
  <2> QED
    BY <1>1, <1>5, <1>11, <2>1, <2>2, <2>3, HandKept DEF AllSaid
<1>12. ASSUME todo = {}, Done(Job)
       PROVE  HandInv'
  <2>1. Arrives(Job, Hub(Job), Nothing) /\ Tidy(Job, Hub(Job), Nothing) /\ Hub(Job) \notin Sending
    BY <1>1, <1>12, DoneArrives, NothingHoldsNone, HubIsRight DEF Sending
  <2>2. Nothing.event = None /\ Nothing.todo = {}
    BY DEF Nothing
  <2> HIDE DEF Nothing
  <2>3. ASSUME NEW d \in open PROVE Says(Hub(Job), Nothing, d, row'[d], shown'[d])
    <3>1. row'[d].msg = 0 /\ d \in Events
      BY <1>1, <1>3, <1>7, <1>12
    <3>2. Nothing.event # d /\ ~Holds(Nothing, d)
      BY <2>2, <3>1, NothingHoldsNone, NoneAssumption
    <3> QED
      BY <2>2, <3>1, <3>2 DEF Says
  <2> QED
    BY <1>11, <2>1, <2>3, NothingHoldsNone
<1>13. ASSUME NEW t \in todo,
              Goto(Job, "edit", [Nothing EXCEPT !.event = t[1], !.msg = t[2],
                                                !.todo = todo \ {t}, !.text = "resolved"])
       PROVE  HandInv'
  <2> DEFINE c == [Nothing EXCEPT !.event = t[1], !.msg = t[2], !.todo = todo \ {t}, !.text = "resolved"]
  <2>1. c.event = t[1] /\ c.msg = t[2] /\ c.todo = todo \ {t} /\ c.text = "resolved" /\ ~c.notifying
    BY DEF Nothing
  <2>2. Arrives(Job, "edit", c)
    BY <1>1, <1>13, GotoArrives DEF Flushing
  <2> HIDE DEF c
  <2>3. Tidy(Job, "edit", c)
    BY <1>6, <1>8, <1>13, <2>1 DEF Tidy, Resolving
  <2>4. \A d \in Events : Holds(c, d) => d \in open /\ row[d].msg # 0
    BY <1>6, <1>13, <2>1 DEF Holds
  <2>5. \A d \in open : row[d].msg # 0 => Holds(c, d)
    <3>1. SUFFICES ASSUME NEW d \in open, row[d].msg # 0 PROVE Holds(c, d)
      OBVIOUS
    <3>2. PICK u \in todo : u = <<d, row[d].msg>>
      BY <1>7, <3>1
    <3>3. u[1] = d
      BY <3>2
    <3> QED
      BY <2>1, <3>3 DEF Holds
  <2>6. ASSUME NEW d \in open PROVE Says("edit", c, d, row'[d], shown'[d])
    <3>1. row'[d].msg = row[d].msg
      BY <1>1, <1>3
    <3>2. c.event = d => c.msg = row'[d].msg
      BY <1>6, <1>13, <2>1, <3>1
    <3>3. \A u \in c.todo : u[1] = d => u[2] = row'[d].msg
      BY <1>6, <2>1, <3>1
    <3> QED
      BY <2>1, <2>5, <3>1, <3>2, <3>3 DEF Says, Resolving
  <2>7. "edit" \notin Sending
    BY DEF Sending
  <2> QED
    BY <1>11, <2>2, <2>3, <2>4, <2>6, <2>7
<1> QED
  BY <1>2, <1>12, <1>13

\* A step after which p has nothing in hand.
LEMMA IdleKept ==
  ASSUME TypeInv, TypeInv', HandInv, NEW p \in Procs, NEW l \in {"off", "run"}, Arrives(p, l, Nothing),
         \A d \in Events : Keeps(d),
         \A d \in Events : Balanced(p, l, Nothing, d) \/ Forgotten(Nothing, d),
         AllSaid'
  PROVE  HandInv'
<1>1. Tidy(p, l, Nothing)
  BY NothingHoldsNone
<1>2. Nothing.event = None /\ Nothing.todo = {}
  BY DEF Nothing
<1> HIDE DEF Nothing
<1>3. \A d \in Events : Owns(l, Nothing, d, row'[d])
  BY <1>2, NoneAssumption DEF Owns
<1> QED
  BY <1>1, <1>3, HandKept

\* A pass ends: what is deleted was in nobody's hand.
LEMMA EndPassHand ==
  ASSUME TypeInv, TypeInv', HandInv, EndPass
  PROVE  HandInv'
<1>1. Job \in Procs /\ pc[Job] = Hub(Job)
  BY DEF EndPass, Procs, Hub
<1>2. PICK Old \in SUBSET {e \in Events : row[e].state = "resolved"
                                          /\ \A p \in Procs : e \notin InHand(p)} :
        /\ row' = [e \in Events |-> IF e \in Old THEN Absent ELSE row[e]]
        /\ shown' = [e \in Events |-> IF e \in Old THEN <<>> ELSE shown[e]]
        /\ extra' = [e \in Events |-> IF e \in Old THEN 0 ELSE extra[e]]
        /\ blurred' = blurred \ Old
  BY DEF EndPass
<1>3. Arrives(Job, "off", Nothing)
  BY <1>1, GotoArrives DEF EndPass, Flushing
<1>4. \A d \in Events : d \in Old => \A q \in Procs : ~Holds(ctx[q], d)
  BY <1>2, HoldsInHand
<1>5. \A d \in Events : Keeps(d)
  BY <1>2, <1>4 DEF Keeps
<1>6. \A d \in Events : ~Holds(ctx[Job], d) /\ ~Holds(Nothing, d) /\ Weight("off", Nothing, d) = 0
  BY <1>1, IdleHoldsNone, NothingHoldsNone DEF Weight, Sending
<1>7. ASSUME NEW d \in Events PROVE Balanced(Job, "off", Nothing, d) \/ Forgotten(Nothing, d)
  <2>1. CASE d \in Old
    <3>1. shown'[d] = <<>> /\ extra'[d] = 0
      BY <1>2, <2>1
    <3>2. Len(<<>>) = 0
      OBVIOUS
    <3> QED
      BY <1>4, <1>6, <2>1, <3>1, <3>2 DEF Forgotten
  <2>2. CASE d \notin Old
    <3>1. row'[d] = row[d] /\ shown'[d] = shown[d] /\ extra'[d] = extra[d] /\ extra[d] <= extra'[d]
      BY <1>2, <2>2 DEF TypeInv, CountsRight, NotesRight
    <3> QED
      BY <1>1, <1>6, <3>1, UntouchedBalance
  <2> QED
    BY <2>1, <2>2
<1>8. ASSUME NEW d \in Events \ blurred' PROVE Said(d)'
  <2>1. CASE d \in Old
    BY <1>2, <2>1 DEF Said, Absent
  <2>2. CASE d \notin Old
    <3>1. row'[d] = row[d] /\ shown'[d] = shown[d] /\ d \notin blurred
      BY <1>2, <2>2
    <3> QED
      BY <1>1, <1>3, <1>6, <3>1, UntouchedSaid
  <2> QED
    BY <2>1, <2>2
<1> QED
  BY <1>1, <1>3, <1>5, <1>7, <1>8, IdleKept DEF AllSaid

\* An operator acks an event: the row, then its message.
LEMMA AckHand ==
  ASSUME TypeInv, TypeInv', HandInv, NEW h \in Handlers, NEW e \in Events, Ack(h, e)
  PROVE  HandInv'
<1> DEFINE c == [Nothing EXCEPT !.event = e, !.msg = row[e].msg, !.text = "acked"]
<1>1. h \in Procs /\ pc[h] = Hub(h)
  BY ProcsAssumption DEF Ack, Procs, Hub
<1>2. /\ row' = [row EXCEPT ![e] = [row[e] EXCEPT !.state = "acked", !.acker = h]]
      /\ UNCHANGED <<shown, extra, blurred>>
      /\ IF row[e].msg = 0 THEN Done(h) ELSE Goto(h, "edit", c)
  BY DEF Ack, notes
<1>3. row'[e].msg = row[e].msg /\ row'[e].state = "acked"
      /\ \A d \in Events : d # e => row'[d] = row[d]
  BY <1>2, RowKnown DEF Event
<1>4. \A d \in Events : ~Holds(ctx[h], d) /\ Keeps(d) /\ extra[d] <= extra'[d]
  BY <1>1, <1>2, <1>3, IdleHoldsNone DEF Keeps, TypeInv, CountsRight, NotesRight
<1>5. ASSUME NEW l, NEW x, Arrives(h, l, x), \A d \in Events : Holds(x, d) => d = e
      PROVE  AllSaid'
  <2>1. ASSUME NEW d \in Events \ blurred', d # e PROVE Said(d)'
    BY <1>1, <1>2, <1>3, <1>4, <1>5, <2>1, UntouchedSaid
  <2>2. Said(e)'
    BY <1>3 DEF Said
  <2> QED
    BY <2>1, <2>2 DEF AllSaid
<1>6. ASSUME NEW l, NEW x, l \notin Sending, NEW d \in Events PROVE Balanced(h, l, x, d)
  <2>1. Weight(l, x, d) = 0
    BY <1>6 DEF Weight
  <2> QED
    BY <1>1, <1>2, <1>3, <1>4, <2>1, UntouchedBalance
<1>7. CASE row[e].msg = 0
  <2>1. Arrives(h, Hub(h), Nothing) /\ Hub(h) \in {"off", "run"} /\ Hub(h) \notin Sending
    BY <1>1, <1>2, <1>7, DoneArrives, HubIsRight DEF Sending
  <2> QED
    BY <1>1, <1>4, <1>5, <1>6, <2>1, NothingHoldsNone, IdleKept
<1>8. CASE row[e].msg # 0
  <2>1. c.event = e /\ c.msg = row[e].msg /\ c.text = "acked" /\ c.todo = {}
    BY DEF Nothing
  <2>2. Arrives(h, "edit", c)
    BY <1>1, <1>2, <1>8, GotoArrives DEF Flushing
  <2> HIDE DEF c
  <2>3. Tidy(h, "edit", c) /\ "edit" \notin Sending
    BY <1>8, <2>1 DEF Tidy, Sending
  <2>4. \A d \in Events : Holds(c, d) => d = e
    BY <2>1 DEF Holds
  <2>5. \A d \in Events : Owns("edit", c, d, row'[d])
    BY <1>3, <1>8, <2>1 DEF Owns
  <2> QED
    BY <1>1, <1>4, <1>5, <1>6, <2>2, <2>3, <2>4, <2>5, HandKept
<1> QED
  BY <1>7, <1>8

\* A process is killed: a message that it had sent and not recorded is accounted for.
LEMMA CrashHand ==
  ASSUME TypeInv, TypeInv', HandInv, NEW p \in Procs, Crash(p)
  PROVE  HandInv'
<1> DEFINE e == ctx[p].event
<1>1. Arrives(p, "off", Nothing) /\ UNCHANGED <<row, shown>> /\ Blur(p, InHand(p))
      /\ IF Sent(p) THEN Extra(e) ELSE UNCHANGED extra
  BY GotoArrives DEF Crash, rows, Flushing
<1>2. Tidy(p, At(p), ctx[p]) /\ \A d \in Events : Owns(At(p), ctx[p], d, row[d])
  BY DEF HandInv, AllTidy, AllOwn
<1>3. Sent(p) <=> At(p) = "own"
  BY DEF Sent, At, Where, Flushing
<1>4. \A d \in Events : ~Holds(Nothing, d) /\ Weight("off", Nothing, d) = 0
  BY NothingHoldsNone DEF Weight, Sending
<1>5. \A d \in Events : Keeps(d)
  BY <1>1 DEF Keeps
<1>6. extra \in [Events -> Nat]
  BY DEF TypeInv, CountsRight, NotesRight
<1>7. At(p) \in {"off", "run"} \cup Sending \cup {"edit", "own", "resend", "adopt", "count"}
  <2>1. pc[p] \in PCs /\ ctx[p] \in Context /\ ctx[p].then \in PCs \ Inside
    BY LocalKnown DEF Local, Context
  <2> QED
    BY <2>1 DEF At, Where, PCs, Inside, Flushing, Sending
<1>8. ASSUME NEW d \in Events PROVE Balanced(p, "off", Nothing, d)
  <2>1. Len(shown[d]) \in Nat /\ extra[d] \in Nat /\ Weight(At(p), ctx[p], d) \in {0, 1}
    BY <1>6, LengthsKnown, WeightKnown
  <2>2. extra'[d] = extra[d] \/ extra'[d] = extra[d] + 1
    BY <1>1, <1>6 DEF Extra
  <2>3. (At(p) = "own" /\ e = d) => extra'[d] = extra[d] + 1
    BY <1>1, <1>3, <1>6 DEF Extra
  <2>4. (row[d].msg = 0 /\ Holds(ctx[p], d)) => e = d
    BY <1>2 DEF Owns, Holds
  <2>5. (row[d].msg = 0 /\ Holds(ctx[p], d) /\ At(p) # "own") => Weight(At(p), ctx[p], d) = 1
    <3>1. SUFFICES ASSUME row[d].msg = 0, Holds(ctx[p], d), At(p) # "own"
                   PROVE  Weight(At(p), ctx[p], d) = 1
      OBVIOUS
    <3>2. e = d /\ ctx[p].msg = 0
      BY <1>2, <2>4, <3>1 DEF Owns
    <3>3. At(p) \notin {"off", "run"}
      BY <1>2, <3>2, NoneAssumption DEF Tidy
    <3>4. At(p) \in Sending
      BY <1>2, <1>7, <3>2, <3>3 DEF Tidy
    <3> QED
      BY <3>2, <3>4 DEF Weight
  <2> QED
    BY <1>1, <1>4, <2>1, <2>2, <2>3, <2>4, <2>5 DEF Balanced
<1>9. ASSUME NEW d \in Events \ blurred' PROVE Said(d)'
  <2>1. d \notin blurred /\ Said(d)
    BY <1>1 DEF Blur, HandInv, AllSaid
  <2>2. p = Job => ~Holds(ctx[Job], d) \/ row[d].state # "resolved"
    <3>1. SUFFICES ASSUME p = Job, Holds(ctx[Job], d), row[d].state = "resolved" PROVE FALSE
      OBVIOUS
    <3>2. ctx[p].text = "resolved"
      BY <2>1, <3>1 DEF Said, Says
    <3>3. d \in InHand(p)
      BY <3>1, HoldsInHand
    <3> QED
      BY <1>1, <3>2, <3>3 DEF Blur
  <2> QED
    BY <1>1, <1>4, <2>1, <2>2, UntouchedSaid
<1> QED
  BY <1>1, <1>5, <1>8, <1>9, IdleKept DEF AllSaid

\* A pass begins with a flush.
LEMMA StartPassHand ==
  ASSUME TypeInv, TypeInv', HandInv, StartPass
  PROVE  HandInv'
<1>1. Job \in Procs /\ UNCHANGED <<row, shown, extra, blurred>>
  BY DEF StartPass, Procs, rows, notes
<1>2. Arrives(Job, "run", Nothing)
  BY <1>1, NothingIsRight, FlushArrives DEF StartPass, Flushing
<1>3. At(Job) = "off"
  BY DEF StartPass, At, Where, Flushing
<1>4. ctx[Job].event = None /\ ctx[Job].todo = {}
  BY <1>1, <1>3 DEF HandInv, AllTidy, Tidy
<1>5. \A d \in Events : ~Holds(ctx[Job], d) /\ ~Holds(Nothing, d) /\ Weight("run", Nothing, d) = 0
  BY <1>4, NothingHoldsNone, NoneAssumption DEF Holds, Weight, Sending
<1>6. \A d \in Events : Keeps(d) /\ extra[d] <= extra'[d]
  BY <1>1 DEF Keeps, TypeInv, CountsRight, NotesRight
<1>7. \A d \in Events : Balanced(Job, "run", Nothing, d)
  BY <1>1, <1>5, <1>6, UntouchedBalance
<1>8. ASSUME NEW d \in Events \ blurred' PROVE Said(d)'
  BY <1>1, <1>2, <1>5, UntouchedSaid
<1> QED
  BY <1>1, <1>2, <1>6, <1>7, <1>8, IdleKept DEF AllSaid

\* A step that moves nobody, changes no message and resolves no event.
LEMMA StillKept ==
  ASSUME HandInv, UNCHANGED <<pc, ctx, shown, extra, blurred>>,
         \A d \in Events : row'[d].msg = row[d].msg /\ (row'[d].state = "resolved" => row[d].state = "resolved")
  PROVE  HandInv'
<1>1. AllTidy'
  BY DEF HandInv, AllTidy, At
<1>2. AllOwn'
  <2>1. ASSUME NEW q \in Procs, NEW d \in Events PROVE Owns(Where(pc[q], ctx[q]), ctx[q], d, row'[d])
    <3>1. Owns(Where(pc[q], ctx[q]), ctx[q], d, row[d])
      BY DEF HandInv, AllOwn, At
    <3> QED
      BY <3>1 DEF Owns
  <2> QED
    BY <2>1 DEF AllOwn, At
<1>3. AllCounted'
  <2>1. ASSUME NEW d \in Events PROVE Counted(d)'
    <3>1. Senders(d)' = Senders(d)
      BY DEF Senders, At
    <3> QED
      BY <3>1 DEF HandInv, AllCounted, Counted
  <2> QED
    BY <2>1 DEF AllCounted
<1>4. AllSaid'
  <2>1. ASSUME NEW d \in Events \ blurred' PROVE Said(d)'
    <3>1. Said(d)
      BY DEF HandInv, AllSaid
    <3>2. row[d].state = "resolved" => Says(Where(pc[Job], ctx[Job]), ctx[Job], d, row'[d], shown[d])
      BY <3>1, SaysMessage DEF Said, At
    <3> QED
      BY <3>1, <3>2 DEF Said, At
  <2> QED
    BY <2>1 DEF AllSaid
<1> QED
  BY <1>1, <1>2, <1>3, <1>4 DEF HandInv

\* Acks of all events and mutes touch the rows only.
LEMMA RowsHand ==
  ASSUME TypeInv, HandInv, NEW h \in Handlers, AckAll(h) \/ Mute(h)
  PROVE  HandInv'
<1>1. UNCHANGED <<pc, ctx, shown, extra, blurred>>
  BY DEF AckAll, Mute, notes
<1>2. ASSUME NEW d \in Events
      PROVE  row'[d].msg = row[d].msg /\ (row'[d].state = "resolved" => row[d].state = "resolved")
  <2>1. row[d] \in Event
    BY RowKnown
  <2>2. CASE AckAll(h)
    BY <2>1, <2>2 DEF AckAll, Event
  <2>3. CASE Mute(h)
    BY <2>1, <2>3 DEF Mute, Event
  <2> QED
    BY <2>2, <2>3
<1> QED
  BY <1>1, <1>2, StillKept

\* Every step keeps all this.
LEMMA HandStep ==
  ASSUME TypeInv, HandInv, [Next]_vars
  PROVE  HandInv'
<1>1. Job \in Procs /\ Handlers \subseteq Procs /\ TypeInv'
  BY TypeStep DEF Procs
<1>2. CASE Pass
  BY <1>1, <1>2, StartPassHand, ResolveHand, EndPassHand, StepHand, RecordHand DEF Pass
<1>3. ASSUME NEW h \in Handlers, Request(h) \/ Step(h) PROVE HandInv'
  BY <1>1, <1>3, RecordHand, AckHand, RowsHand, StepHand DEF Request
<1>4. CASE \E p \in Procs : Crash(p)
  BY <1>1, <1>4, CrashHand
<1>5. CASE Tick \/ UNCHANGED vars
  <2>1. UNCHANGED <<pc, ctx, shown, extra, blurred, row>>
    BY <1>5 DEF Tick, vars, rows, notes
  <2> QED
    BY <2>1, StillKept
<1> QED
  BY <1>2, <1>3, <1>4, <1>5 DEF Next

\* At first nobody has anything in hand and nothing was said.
LEMMA HandInit ==
  ASSUME Init
  PROVE  HandInv
<1>1. /\ \A p \in Procs : pc[p] = "off" /\ ctx[p] = Nothing
      /\ \A e \in Events : row[e] = Absent /\ shown[e] = <<>> /\ extra[e] = 0
  BY DEF Init
<1>2. AllTidy
  BY <1>1, NothingHoldsNone DEF AllTidy, At, Where, Flushing
<1>3. \A p \in Procs, d \in Events : ~Holds(ctx[p], d)
  BY <1>1, NothingHoldsNone
<1>4. AllOwn
  BY <1>3 DEF AllOwn, Owns, Holds
<1>5. ASSUME NEW e \in Events PROVE Counted(e)
  <2>1. Senders(e) = {}
    BY <1>3, WeightKnown DEF Senders
  <2>2. Cardinality(Senders(e)) = 0
    BY <2>1, FS_EmptySet
  <2>3. Len(shown[e]) = 0
    BY <1>1
  <2> QED
    BY <1>1, <2>2, <2>3 DEF Counted
<1>6. AllSaid
  BY <1>1 DEF AllSaid, Said, Absent
<1> QED
  BY <1>2, <1>4, <1>5, <1>6 DEF HandInv, AllCounted

\* It always holds.
LEMMA HandAlways == Spec => []HandInv
<1>1. Init => HandInv
  BY HandInit
<1>2. TypeInv /\ HandInv /\ [Next]_vars => HandInv'
  BY HandStep
<1> QED
  BY <1>1, <1>2, TypesAlways, PTL DEF Spec

-----------------------------------------------------------------------------
(* What it says of the chat.                                               *)

\* "Each fingerprint owns one message in the ops chat (edit, don't repost)": of every event there is
\* one, and one more for each report that found it without a message while another process had it in
\* hand, each answer that was lost, each process killed before it recorded what it had sent, and each
\* message that was too old to be edited, whatever the reports, acks, resolutions, flushes and crashes.
THEOREM OneMessageEachHolds == Spec => []OneMessageEach
<1>1. TypeInv /\ HandInv => OneMessageEach
  <2>1. SUFFICES ASSUME TypeInv, HandInv, NEW e \in Events PROVE Len(shown[e]) <= 1 + extra[e]
    BY DEF OneMessageEach
  <2>2. Len(shown[e]) + Cardinality(Senders(e)) <= 1 + extra[e]
    BY <2>1 DEF HandInv, AllCounted, Counted
  <2>3. Cardinality(Senders(e)) \in Nat
    BY ProcsAreFinite DEF Senders
  <2>4. Len(shown[e]) \in Nat /\ extra[e] \in Nat
    BY <2>1, LengthsKnown DEF TypeInv, CountsRight, NotesRight
  <2> QED
    BY <2>2, <2>3, <2>4
<1> QED
  BY <1>1, TypesAlways, HandAlways, PTL

\* A recovered event reads so in the chat once the job is done with it, whatever happened to it before,
\* unless an ack or a report had it in hand when its row was last resolved, or the last edit of its
\* message failed or was cut short by a crash.
THEOREM ResolvedIsShownHolds == Spec => []ResolvedIsShown
<1>1. HandInv => ResolvedIsShown
  <2>1. SUFFICES ASSUME HandInv, NEW e \in Events \ blurred, row[e].state = "resolved",
                        row[e].msg # 0, e \notin InHand(Job)
                 PROVE  shown[e][row[e].msg] = "resolved"
    BY DEF ResolvedIsShown
  <2>2. ~Holds(ctx[Job], e)
    BY <2>1, HoldsInHand DEF Procs
  <2> QED
    BY <2>1, <2>2 DEF HandInv, AllSaid, Said, Says
<1> QED
  BY <1>1, HandAlways, PTL
=============================================================================
