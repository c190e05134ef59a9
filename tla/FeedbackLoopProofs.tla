------------------------- MODULE FeedbackLoopProofs -------------------------
(***************************************************************************)
(* Proofs about FeedbackLoop, for every set of items, feeds, chats, spec   *)
(* versions and handlers and every number of faults.                       *)
(*                                                                         *)
(* The argument is one inductive invariant, Inv.  Three facts carry it:    *)
(* the row lock of claim_next (a claimed row stays queued until its claim  *)
(* commits, and no two claims hold one row), the write order of a press    *)
(* (the label is stored before any card is stamped, and decided rows never *)
(* change again), and the order of a send (no message id is stored before  *)
(* its card reached the chat).                                             *)
(***************************************************************************)
EXTENDS FeedbackLoop, NumberLemmas, FiniteSetTheorems, TLAPS

-----------------------------------------------------------------------------
(* The parts of the invariant.                                             *)

\* A row exists only for an archived item, and none else is drawn.
RowsAreArchived ==
  /\ \A i \in Items : row[i] # "none" => i \in archived
  /\ \A p \in Procs : pc[p] = "insert" => ctx[p].item \in archived

\* Where a process is about to touch a row, it holds one.
HoldsARow ==
  \A p \in Procs :
    pc[p] \in {"drop", "claim", "insert", "send", "attach", "release", "stamp"} =>
      ctx[p].item \in Items

\* What FOR UPDATE SKIP LOCKED keeps true until the claim commits.
ClaimsAreLocked ==
  /\ \A p \in Procs : pc[p] = "claim" => row[ctx[p].item] = "queued"
  /\ \A p, q \in Procs :
       (pc[p] = "claim" /\ pc[q] = "claim" /\ ctx[p].item = ctx[q].item) => p = q

\* A message id names a card that is in the chat.
CardsWereSent ==
  /\ \A i \in Items : msg[i] <= sent[i]
  /\ \A p \in Procs :
       /\ pc[p] = "attach" => ctx[p].card \in 1..sent[ctx[p].item]
       /\ pc[p] = "stamp" => ctx[p].card <= sent[ctx[p].item]

\* A verdict on its way to a card is the one the archive holds.
StampsWereDecided ==
  \A p \in Procs : pc[p] = "stamp" =>
    /\ row[ctx[p].item] = "decided"
    /\ ctx[p].verdict \in Verdicts
    /\ label[ctx[p].item] = ctx[p].verdict

Inv ==
  /\ TypeOK
  /\ RowsAreArchived
  /\ HoldsARow
  /\ ClaimsAreLocked
  /\ CardsWereSent
  /\ StampsWereDecided
  /\ OnePendingPerChat
  /\ StampsTellTheLabel

-----------------------------------------------------------------------------
(* Type correctness.                                                       *)

\* What a process holds when it starts, and when it is done, is a context; the
\* chat of an item is one of the chats.
LEMMA ContextTypes ==
  /\ \A s \in Specs, c \in Chats \cup {None} : Advancing(s, c) \in Context
  /\ Nothing \in Context
  /\ \A i \in Items : Chat[i] \in Chats
<1>1. \A s \in [Sources -> Presence], c \in Chats \cup {None} : Advancing(s, c) \in Context
  BY DEF Advancing, Context
<1>2. NoSpec \in [Sources -> Presence]
  BY DEF NoSpec, Presence
<1>3. \A i \in Items : Chat[i] \in Chats
  BY SourcesAssumption DEF Chat, Chats
<1> QED
  BY <1>1, <1>2, <1>3, SpecsAssumption DEF Nothing

\* Setting one field of what a process holds keeps it a context.
LEMMA ContextUpdates ==
  ASSUME ctx \in [Procs -> Context], NEW p \in Procs
  PROVE  /\ \A c \in Chats \cup {None} : [ctx EXCEPT ![p].chat = c] \in [Procs -> Context]
         /\ \A i \in Items \cup {None} : [ctx EXCEPT ![p].item = i] \in [Procs -> Context]
         /\ \A n \in Nat : [ctx EXCEPT ![p].card = n] \in [Procs -> Context]
         /\ [ctx EXCEPT ![p] = [@ EXCEPT !.item = None, !.topped = TRUE]] \in [Procs -> Context]
         /\ Advancing(ctx[p].spec, ctx[p].chat) \in Context
<1>1. ctx[p] \in Context
  OBVIOUS
<1>2. ASSUME NEW x \in Context
      PROVE  /\ \A c \in Chats \cup {None} : [x EXCEPT !.chat = c] \in Context
             /\ \A i \in Items \cup {None} : [x EXCEPT !.item = i] \in Context
             /\ \A n \in Nat : [x EXCEPT !.card = n] \in Context
             /\ [x EXCEPT !.item = None, !.topped = TRUE] \in Context
             /\ Advancing(x.spec, x.chat) \in Context
  BY DEF Context, Advancing
<1> QED
  BY <1>1, <1>2

\* How a process leaves advance(), or is abandoned: it alone moves.
LEMMA LeaveEffect ==
  ASSUME TypeOK, NEW p \in Procs, Leave(p) \/ Abandon(p)
  PROVE  \E c \in Context :
           /\ c.item = None
           /\ ctx' = [ctx EXCEPT ![p] = c]
           /\ \E l \in {"idle", "pass"} : pc' = [pc EXCEPT ![p] = l]
<1>1. ctx[p] \in Context
  BY DEF TypeOK
<1>2. Advancing(ctx[p].spec, None) \in Context /\ Advancing(ctx[p].spec, None).item = None
  BY <1>1 DEF Context, Advancing
<1>3. Nothing \in Context /\ Nothing.item = None
  BY ContextTypes DEF Nothing, Advancing
<1> QED
  BY <1>2, <1>3 DEF Leave, Abandon, Goto

\* The initial states are well typed.
LEMMA TypeOKInit == Init => TypeOK
BY ContextTypes, FaultsAssumption
   DEF Init, TypeOK, Items, Presence, PCs

\* Every step, of whichever process, keeps the state well typed.
LEMMA TypeOKStep == Inv /\ [Next]_vars => TypeOK'
<1> SUFFICES ASSUME Inv, [Next]_vars PROVE TypeOK'
  OBVIOUS
<1>0. TypeOK /\ FetchJob \in Procs /\ Handlers \subseteq Procs
  BY DEF Inv, Procs
<1> USE <1>0 DEF TypeOK, PCs, Goto, cards, history
<1>1. ASSUME NEW i \in Items, Archive(i) PROVE TypeOK'
  BY <1>1 DEF Archive
<1>2. CASE StartPass
  BY <1>2, ContextTypes DEF StartPass, ReviewChats, Chats
<1>3. CASE NextChat
  <2>1. PICK c \in todo : ctx' = [ctx EXCEPT ![FetchJob].chat = c]
    BY <1>3 DEF NextChat
  <2>2. ctx' \in [Procs -> Context]
    BY <2>1, ContextUpdates
  <2> QED
    BY <1>3, <2>2 DEF NextChat
<1>4. CASE EndPass
  BY <1>4, ContextTypes DEF EndPass
<1>5. ASSUME NEW h \in Handlers, NEW i \in Items, NEW v \in Verdicts, Press(h, i, v)
      PROVE TypeOK'
  <2>1. \A s \in Specs : [Advancing(s, Chat[i]) EXCEPT
          !.item = i, !.card = msg[i], !.verdict = v] \in Context
    <3>1. Chat[i] \in Chats /\ msg[i] \in Nat
      BY ContextTypes
    <3> QED
      BY <3>1, SpecsAssumption DEF Advancing, Context
  <2> QED
    BY <1>5, <2>1 DEF Press
<1>6. ASSUME NEW h \in Handlers, NEW c \in Chats, NextCommand(h, c) PROVE TypeOK'
  BY <1>6, ContextTypes DEF NextCommand
<1>7. ASSUME NEW h \in Handlers, Stamp(h) PROVE TypeOK'
  <2>1. ctx' \in [Procs -> Context]
    BY <1>7, ContextUpdates DEF Stamp
  <2>2. ctx[h].verdict \in Verdicts /\ ctx[h].card \in Nat
    <3>1. ctx[h] \in Context
      OBVIOUS
    <3> QED
      BY <1>7, <3>1 DEF Stamp, Inv, StampsWereDecided, Context
  <2>3. marks' \in [Items -> SUBSET (Nat \X Verdicts)]
    BY <1>7, <2>2 DEF Stamp
  <2> QED
    BY <1>7, <2>1, <2>3 DEF Stamp
<1>8. ASSUME NEW p \in Procs, FindOrphan(p) PROVE TypeOK'
  <2>1. \/ UNCHANGED ctx
        \/ \E i \in Items : ctx' = [ctx EXCEPT ![p].item = i]
    BY <1>8 DEF FindOrphan, Orphans, Pending
  <2>2. ctx' \in [Procs -> Context]
    <3>1. ASSUME NEW i \in Items, ctx' = [ctx EXCEPT ![p].item = i]
          PROVE  ctx' \in [Procs -> Context]
      BY <3>1, ContextUpdates
    <3> QED
      BY <2>1, <3>1
  <2> QED
    BY <1>8, <2>2 DEF FindOrphan
<1>9. ASSUME NEW p \in Procs, DropGone(p) PROVE TypeOK'
  BY <1>9, ContextUpdates DEF DropGone
<1>10. ASSUME NEW p \in Procs, SelectNext(p) PROVE TypeOK'
  <2>1. CASE Leave(p)
    BY <1>10, <2>1, LeaveEffect DEF SelectNext
  <2>2. CASE UNCHANGED ctx /\ Goto(p, "topup")
    BY <1>10, <2>2 DEF SelectNext
  <2>3. ASSUME NEW S \in SUBSET Items, S # {},
               ctx' = [ctx EXCEPT ![p].item = Min(S)], Goto(p, "claim")
        PROVE  TypeOK'
    <3>1. Min(S) \in Items
      <4>1. S \in SUBSET Nat
        BY ItemsAssumption DEF Items
      <4> QED
        BY <2>3, <4>1, MinExists
    <3>2. ctx' \in [Procs -> Context]
      BY <2>3, <3>1, ContextUpdates
    <3> QED
      BY <1>10, <2>3, <3>2 DEF SelectNext
  <2>4. \A c, s : Claimable(c, s) \subseteq Items
    BY DEF Claimable
  <2> QED
    BY <1>10, <2>1, <2>2, <2>3, <2>4 DEF SelectNext
<1>11. ASSUME NEW p \in Procs, CommitClaim(p) PROVE TypeOK'
  BY <1>11, LeaveEffect DEF CommitClaim, Abandon
<1>12. ASSUME NEW p \in Procs, TopUp(p) PROVE TypeOK'
  <2>1. CASE Leave(p)
    BY <1>12, <2>1, LeaveEffect DEF TopUp
  <2>2. ASSUME NEW S \in SUBSET Items, S # {},
               ctx' = [ctx EXCEPT ![p].item = Max(S)], Goto(p, "insert")
        PROVE  TypeOK'
    <3>1. Max(S) \in Items
      BY <2>2, ItemsAssumption, MaxExists DEF Items
    <3>2. ctx' \in [Procs -> Context]
      BY <2>2, <3>1, ContextUpdates
    <3> QED
      BY <1>12, <2>2, <3>2 DEF TopUp
  <2>3. \A c, s : Unreviewed(c, s) \subseteq Items
    BY DEF Unreviewed
  <2> QED
    BY <1>12, <2>1, <2>2, <2>3 DEF TopUp
<1>18. ASSUME NEW p \in Procs, InsertRow(p) PROVE TypeOK'
  <2>1. CASE Leave(p) /\ UNCHANGED row
    BY <1>18, <2>1, LeaveEffect DEF InsertRow
  <2>2. CASE /\ row' = [row EXCEPT ![ctx[p].item] = "queued"] /\ Goto(p, "select")
             /\ ctx' = [ctx EXCEPT ![p] = [@ EXCEPT !.item = None, !.topped = TRUE]]
    <3>1. ctx' \in [Procs -> Context]
      BY <2>2, ContextUpdates
    <3> QED
      BY <1>18, <2>2, <3>1 DEF InsertRow
  <2> QED
    BY <1>18, <2>1, <2>2 DEF InsertRow
<1>13. ASSUME NEW p \in Procs, SendCard(p) PROVE TypeOK'
  <2>1. ctx[p].item \in Items
    BY <1>13 DEF SendCard, Inv, HoldsARow
  <2>2. sent' \in [Items -> Nat]
    BY <1>13 DEF SendCard
  <2>3. ctx' \in [Procs -> Context]
    <3>1. UNCHANGED ctx \/ \E n \in Nat : ctx' = [ctx EXCEPT ![p].card = n]
      BY <1>13, <2>1, <2>2 DEF SendCard
    <3>2. ASSUME NEW n \in Nat, ctx' = [ctx EXCEPT ![p].card = n]
          PROVE  ctx' \in [Procs -> Context]
      BY <3>2, ContextUpdates
    <3> QED
      BY <3>1, <3>2
  <2> QED
    BY <1>13, <2>2, <2>3, FaultsAssumption DEF SendCard, Fault
<1>14. ASSUME NEW p \in Procs, AttachMessage(p) PROVE TypeOK'
  <2>1. ctx[p] \in Context
    OBVIOUS
  <2>2. ctx[p].card \in Nat
    BY <2>1 DEF Context
  <2> QED
    BY <1>14, <2>2, LeaveEffect, ZenonT(60) DEF AttachMessage
<1>15. ASSUME NEW p \in Procs, ReleaseClaim(p) PROVE TypeOK'
  BY <1>15, LeaveEffect, ZenonT(60) DEF ReleaseClaim
<1>16. ASSUME NEW p \in Procs, Crash(p) PROVE TypeOK'
  <2>1. ctx' \in [Procs -> Context] /\ pc' \in [Procs -> PCs]
    BY <1>16, LeaveEffect DEF Crash
  <2>2. faults' \in 0..MaxFaults /\ todo' \subseteq Chats
    BY <1>16, FaultsAssumption DEF Crash, Abandon, Fault
  <2> QED
    BY <1>16, <2>1, <2>2 DEF Crash, Fault
<1>17. CASE UNCHANGED vars
  BY <1>17 DEF vars
<1> QED
  BY <1>1, <1>2, <1>3, <1>4, <1>5, <1>6, <1>7, <1>8, <1>9, <1>10, <1>11, <1>12,
     <1>13, <1>14, <1>15, <1>16, <1>17, <1>18 DEF Next, Step

-----------------------------------------------------------------------------
(* The other parts of the invariant.                                       *)

Rest ==
  /\ RowsAreArchived
  /\ HoldsARow
  /\ ClaimsAreLocked
  /\ CardsWereSent
  /\ StampsWereDecided
  /\ OnePendingPerChat
  /\ StampsTellTheLabel

\* The initial states satisfy the invariant.
LEMMA InvInit == Init => Inv
<1> SUFFICES ASSUME Init PROVE Inv
  OBVIOUS
<1>1. TypeOK
  BY TypeOKInit
<1> QED
  BY <1>1 DEF Init, Inv, RowsAreArchived, HoldsARow, ClaimsAreLocked, CardsWereSent,
     StampsWereDecided, OnePendingPerChat, StampsTellTheLabel

\* Every step keeps the rest of the invariant: one case for each action.
LEMMA RestStep == Inv /\ TypeOK' /\ [Next]_vars => Rest'
<1> SUFFICES ASSUME Inv, TypeOK', [Next]_vars PROVE Rest'
  OBVIOUS
<1>0. FetchJob \in Procs /\ Handlers \subseteq Procs
  BY DEF Procs
<1> USE <1>0 DEF Rest, Inv, TypeOK, Goto, cards, history, RowsAreArchived, HoldsARow, ClaimsAreLocked, CardsWereSent,
     StampsWereDecided, OnePendingPerChat, StampsTellTheLabel
<1>1. ASSUME NEW i \in Items, Archive(i) PROVE Rest'
  BY <1>1, SMTT(30) DEF Archive
<1>2. CASE StartPass
  BY <1>2, SMTT(30) DEF StartPass
<1>3. CASE NextChat
  BY <1>3, SMTT(30) DEF NextChat
<1>4. CASE EndPass
  BY <1>4, SMTT(30) DEF EndPass
<1>5. ASSUME NEW h \in Handlers, NEW i \in Items, NEW v \in Verdicts, Press(h, i, v)
      PROVE Rest'
  BY <1>5, SMTT(30) DEF Press, Advancing
<1>6. ASSUME NEW h \in Handlers, NEW c \in Chats, NextCommand(h, c) PROVE Rest'
  BY <1>6, SMTT(30) DEF NextCommand
<1>7. ASSUME NEW h \in Handlers, Stamp(h) PROVE Rest'
  <2> DEFINE i == ctx[h].item
  <2>1. /\ h \in Procs /\ pc[h] = "stamp" /\ i \in Items
        /\ ctx[h].card \in Nat /\ ctx[h].card <= sent[i]
        /\ row[i] = "decided" /\ label[i] = ctx[h].verdict
    <3>1. ctx[h] \in Context
      OBVIOUS
    <3> QED
      BY <1>7, <3>1 DEF Stamp, Context
  <2>2. /\ pc'[h] = "orphan"
        /\ \A q \in Procs \ {h} : pc'[q] = pc[q] /\ ctx'[q] = ctx[q]
        /\ UNCHANGED <<archived, row, label, msg, sent>>
    BY <1>7 DEF Stamp
  <2>3. \/ marks' = marks
        \/ /\ ctx[h].card # 0
           /\ marks' = [marks EXCEPT ![i] = @ \cup {<<ctx[h].card, ctx[h].verdict>>}]
    BY <1>7 DEF Stamp
  <2>4. StampsTellTheLabel'
    <3> SUFFICES ASSUME NEW j \in Items, NEW m \in marks'[j], m \notin marks[j]
                 PROVE  m[1] \in 1..sent[j] /\ row[j] = "decided" /\ label[j] = m[2]
      BY <2>2
    <3>1. j = i /\ m = <<ctx[h].card, ctx[h].verdict>> /\ ctx[h].card # 0
      BY <2>1, <2>3
    <3> QED
      BY <2>1, <3>1
  <2>5. \A q \in Procs : pc'[q] # "orphan" => q # h /\ pc'[q] = pc[q] /\ ctx'[q] = ctx[q]
    BY <2>2
  <2>6. HoldsARow' /\ ClaimsAreLocked' /\ CardsWereSent' /\ StampsWereDecided'
    <3>1. HoldsARow' /\ ClaimsAreLocked'
      BY <2>2, <2>5
    <3>2. CardsWereSent'
      BY <2>2, <2>5
    <3>3. StampsWereDecided'
      BY <2>2, <2>5
    <3> QED
      BY <3>1, <3>2, <3>3
  <2>7. RowsAreArchived' /\ OnePendingPerChat'
    BY <2>2
  <2> QED
    BY <2>4, <2>6, <2>7
<1>8. ASSUME NEW p \in Procs, FindOrphan(p) PROVE Rest'
  <2>1. CASE UNCHANGED ctx /\ Goto(p, "select")
    BY <1>8, <2>1 DEF FindOrphan
  <2>2. ASSUME NEW i \in Items, NEW l \in {"drop", "send"}, Goto(p, l),
               ctx' = [ctx EXCEPT ![p].item = i]
        PROVE  Rest'
    BY <1>8, <2>2 DEF FindOrphan
  <2> QED
    BY <1>8, <2>1, <2>2 DEF FindOrphan, Orphans, Pending
<1>9. ASSUME NEW p \in Procs, DropGone(p) PROVE Rest'
  BY <1>9, SMTT(30) DEF DropGone
<1>10. ASSUME NEW p \in Procs, SelectNext(p) PROVE Rest'
  <2>1. CASE Leave(p)
    BY <1>10, <2>1, LeaveEffect DEF SelectNext
  <2>2. CASE UNCHANGED ctx /\ Goto(p, "topup")
    BY <1>10, <2>2 DEF SelectNext
  <2>3. ASSUME NEW i \in Items, row[i] = "queued", i \notin Locked,
               ctx' = [ctx EXCEPT ![p].item = i], Goto(p, "claim")
        PROVE  Rest'
    BY <1>10, <2>3 DEF SelectNext, Locked
  <2>4. ASSUME NEW S \in SUBSET Claimable(ctx[p].chat, ctx[p].spec), S # {},
               ctx' = [ctx EXCEPT ![p].item = Min(S)], Goto(p, "claim")
        PROVE  Rest'
    <3>1. S \in SUBSET Nat
      BY ItemsAssumption DEF Claimable, Items
    <3>2. Min(S) \in S
      BY <2>4, <3>1, MinExists
    <3> QED
      BY <2>3, <2>4, <3>2 DEF Claimable
  <2> QED
    BY <1>10, <2>1, <2>2, <2>4 DEF SelectNext
<1>11. ASSUME NEW p \in Procs, CommitClaim(p) PROVE Rest'
  BY <1>11, LeaveEffect, SMTT(30) DEF CommitClaim, Abandon, Pending
<1>12. ASSUME NEW p \in Procs, TopUp(p) PROVE Rest'
  <2>1. CASE Leave(p)
    BY <1>12, <2>1, LeaveEffect DEF TopUp
  <2>2. ASSUME NEW i \in archived, ctx' = [ctx EXCEPT ![p].item = i], Goto(p, "insert")
        PROVE  Rest'
    BY <1>12, <2>2 DEF TopUp
  <2>3. ASSUME NEW S \in SUBSET archived, S # {},
               ctx' = [ctx EXCEPT ![p].item = Max(S)], Goto(p, "insert")
        PROVE  Rest'
    <3>1. S \in SUBSET Items
      OBVIOUS
    <3>2. Max(S) \in S
      BY <2>3, <3>1, ItemsAssumption, MaxExists DEF Items
    <3> QED
      BY <2>2, <2>3, <3>2
  <2>4. \A c, s : Unreviewed(c, s) \subseteq archived
    BY DEF Unreviewed
  <2> HIDE DEF Rest, Inv, TypeOK
  <2> QED
    BY <1>12, <2>1, <2>3, <2>4 DEF TopUp
<1>18. ASSUME NEW p \in Procs, InsertRow(p) PROVE Rest'
  <2>1. CASE Leave(p) /\ UNCHANGED row
    BY <1>18, <2>1, LeaveEffect DEF InsertRow
  <2>2. ASSUME row[ctx[p].item] = "none", row' = [row EXCEPT ![ctx[p].item] = "queued"],
               ctx' = [ctx EXCEPT ![p] = [@ EXCEPT !.item = None, !.topped = TRUE]], Goto(p, "select")
        PROVE  Rest'
    BY <1>18, <2>2, SMTT(30) DEF InsertRow
  <2> QED
    BY <1>18, <2>1, <2>2 DEF InsertRow
<1>13. ASSUME NEW p \in Procs, SendCard(p) PROVE Rest'
  <2> DEFINE i == ctx[p].item
  <2>1. i \in Items /\ pc[p] = "send"
    BY <1>13 DEF SendCard
  <2>2. \A j \in Items : sent[j] \in Nat /\ sent'[j] \in Nat /\ sent[j] <= sent'[j]
    BY <1>13, <2>1 DEF SendCard
  <2>3. \A q \in Procs : ctx'[q].item = ctx[q].item /\ ctx'[q].verdict = ctx[q].verdict
    <3>1. ASSUME NEW n, ctx' = [ctx EXCEPT ![p].card = n], NEW q \in Procs
          PROVE  ctx'[q].item = ctx[q].item /\ ctx'[q].verdict = ctx[q].verdict
      <4>1. ctx[q] \in Context
        OBVIOUS
      <4> QED
        BY <3>1, <4>1 DEF Context
    <3> QED
      BY <1>13, <3>1 DEF SendCard
  <2>4. \A q \in Procs : /\ q # p => pc'[q] = pc[q] /\ ctx'[q].card = ctx[q].card
                         /\ q = p => pc'[q] \in {"attach", "release"}
    BY <1>13 DEF SendCard
  <2>5. pc'[p] = "attach" => ctx'[p].card \in 1..sent'[i]
    <3>1. ctx[p] \in Context
      OBVIOUS
    <3>2. CASE ctx' = [ctx EXCEPT ![p].card = sent'[i]]
               /\ sent' = [sent EXCEPT ![i] = @ + 1]
      <4>1. ctx'[p].card = sent'[i]
        BY <3>1, <3>2 DEF Context
      <4>2. sent'[i] = sent[i] + 1 /\ sent[i] \in Nat
        BY <2>1, <3>2
      <4> QED
        BY <4>1, <4>2
    <3>3. CASE pc'[p] = "release"
      BY <3>3
    <3> QED
      BY <1>13, <3>2, <3>3 DEF SendCard
  <2>6. CardsWereSent'
    <3>1. \A j \in Items : msg'[j] <= sent'[j]
      <4>1. \A j \in Items : msg'[j] \in Nat /\ msg'[j] <= sent[j]
        BY <1>13 DEF SendCard
      <4> QED
        BY <2>2, <4>1
    <3>2. ASSUME NEW q \in Procs, pc'[q] = "attach"
          PROVE  ctx'[q].card \in 1..sent'[ctx'[q].item]
      <4>1. CASE q = p
        BY <2>3, <2>5, <3>2, <4>1
      <4>2. CASE q # p
        <5>1. ctx'[q].card = ctx[q].card /\ ctx'[q].item = ctx[q].item /\ pc[q] = "attach"
          BY <2>3, <2>4, <3>2, <4>2
        <5>2. ctx[q].item \in Items /\ ctx[q].card \in 1..sent[ctx[q].item]
          BY <5>1
        <5> QED
          BY <2>2, <5>1, <5>2
      <4> QED
        BY <4>1, <4>2
    <3>3. ASSUME NEW q \in Procs, pc'[q] = "stamp"
          PROVE  ctx'[q].card <= sent'[ctx'[q].item]
      <4>1. ctx'[q].card = ctx[q].card /\ ctx'[q].item = ctx[q].item /\ pc[q] = "stamp"
        BY <2>3, <2>4, <3>3
      <4>2. ctx[q].item \in Items /\ ctx[q].card <= sent[ctx[q].item] /\ ctx[q] \in Context
        BY <4>1
      <4> QED
        BY <2>2, <4>1, <4>2 DEF Context
    <3> QED
      BY <3>1, <3>2, <3>3
  <2>7. StampsTellTheLabel'
    BY <1>13, <2>2 DEF SendCard
  <2>8. RowsAreArchived' /\ OnePendingPerChat'
    BY <1>13 DEF SendCard
  <2>9. HoldsARow' /\ ClaimsAreLocked' /\ StampsWereDecided'
    <3>1. \A q \in Procs : pc'[q] \in {"drop", "claim", "insert", "send", "attach", "release", "stamp"} =>
            pc[q] \in {"drop", "claim", "insert", "send", "attach", "release", "stamp"}
      BY <2>1, <2>4
    <3>2. UNCHANGED <<row, label>>
      BY <1>13 DEF SendCard
    <3>3. HoldsARow'
      <4>1. ASSUME NEW q \in Procs, pc'[q] \in {"drop", "claim", "insert", "send", "attach", "release", "stamp"}
            PROVE  ctx'[q].item \in Items
        <5>1. pc[q] \in {"drop", "claim", "insert", "send", "attach", "release", "stamp"}
          BY <3>1, <4>1
        <5>2. ctx[q].item \in Items
          BY <5>1
        <5> QED
          BY <2>3, <5>2
      <4> QED
        BY <4>1
    <3>4. \A q \in Procs : pc'[q] \in {"claim", "stamp"} => pc[q] = pc'[q]
      BY <2>4
    <3> QED
      BY <2>3, <3>2, <3>3, <3>4, SMTT(30)
  <2> QED
    BY <2>6, <2>7, <2>8, <2>9
<1>14. ASSUME NEW p \in Procs, AttachMessage(p) PROVE Rest'
  BY <1>14, LeaveEffect, SMTT(30) DEF AttachMessage
<1>15. ASSUME NEW p \in Procs, ReleaseClaim(p) PROVE Rest'
  BY <1>15, LeaveEffect, SMTT(30) DEF ReleaseClaim
<1>16. ASSUME NEW p \in Procs, Crash(p) PROVE Rest'
  BY <1>16, LeaveEffect, SMTT(30) DEF Crash, Fault
<1>17. CASE UNCHANGED vars
  BY <1>17 DEF vars
<1> QED
  BY <1>1, <1>2, <1>3, <1>4, <1>5, <1>6, <1>7, <1>8, <1>9, <1>10, <1>11, <1>12,
     <1>13, <1>14, <1>15, <1>16, <1>17, <1>18 DEF Next, Step

-----------------------------------------------------------------------------
(* The theorems.                                                           *)

\* The inductive invariant holds in every state of every behaviour: rows, ids,
\* cards and stamps stay consistent whatever job and handlers do.
THEOREM Invariance == Spec => []Inv
<1>1. Inv /\ [Next]_vars => Inv'
  BY TypeOKStep, RestStep DEF Inv, Rest
<1> QED
  BY InvInit, <1>1, PTL DEF Spec

\* Every state of every behaviour is well typed.
THEOREM TypeCorrect == Spec => []TypeOK
<1>1. Inv => TypeOK
  BY DEF Inv
<1> QED
  BY Invariance, <1>1, PTL

\* A chat never has two pending rows, whatever processes claim at once.
THEOREM OnePending == Spec => []OnePendingPerChat
<1>1. Inv => OnePendingPerChat
  BY DEF Inv
<1> QED
  BY Invariance, <1>1, PTL

\* No card ever shows a verdict other than the stored label of its item.
THEOREM TrueLog == Spec => []StampsTellTheLabel
<1>1. Inv => StampsTellTheLabel
  BY DEF Inv
<1> QED
  BY Invariance, <1>1, PTL

\* A chat blocked by a row that the self-heal will not pick up shows a card
\* that can still be answered.
THEOREM NeverBlockedForGood == Spec => []BlockingRowIsReachable
<1>1. Inv => BlockingRowIsReachable
  <2> SUFFICES ASSUME Inv, NEW i \in Items, row[i] = "pending", msg[i] # 0
               PROVE  sent[i] > 0 /\ marks[i] = {}
    BY DEF BlockingRowIsReachable
  <2>1. sent[i] > 0
    BY DEF Inv, TypeOK, CardsWereSent
  <2>2. marks[i] = {}
    BY DEF Inv, StampsTellTheLabel
  <2> QED
    BY <2>1, <2>2
<1> QED
  BY Invariance, <1>1, PTL

\* The rows of the detailed loop behave as the abstract review queue: every step
\* of the job, of a handler or of a fault is a step of the queue or a stutter.
THEOREM Refinement == Spec => ImplementsQueue
<1>1. Init => Queue!Init
  BY DEF Init, Queue!Init
<1>2. Inv /\ [Next]_vars => [Queue!Next]_(Queue!vars)
  <2> SUFFICES ASSUME Inv, [Next]_vars PROVE [Queue!Next]_(Queue!vars)
    OBVIOUS
  <2> USE DEF Queue!Next, Queue!vars
  <2>0. UNCHANGED <<row, label>> => [Queue!Next]_(Queue!vars)
    OBVIOUS
  <2>1. ASSUME NEW i \in Items, Archive(i) PROVE [Queue!Next]_(Queue!vars)
    <3>1. row[i] = "none"
      BY <2>1 DEF Archive, Inv, RowsAreArchived
    <3>2. row' = [row EXCEPT ![i] = "queued"] \/ row' = row
      BY <2>1 DEF Archive, Inv, TypeOK
    <3> QED
      BY <2>1, <3>1, <3>2 DEF Archive, Queue!Enqueue
  <2>2. ASSUME NEW h \in Handlers, NEW i \in Items, NEW v \in Verdicts, Press(h, i, v)
        PROVE  [Queue!Next]_(Queue!vars)
    BY <2>2 DEF Press, Queue!Decide
  <2>3. ASSUME NEW p \in Procs, NEW i \in Items, UNCHANGED label,
               row' = [row EXCEPT ![i] = IF @ = "pending" THEN "queued" ELSE @]
        PROVE  [Queue!Next]_(Queue!vars)
    BY <2>3 DEF Queue!Release, Inv, TypeOK
  <2>4. ASSUME NEW p \in Procs, DropGone(p) \/ ReleaseClaim(p)
        PROVE  [Queue!Next]_(Queue!vars)
    <3>1. ctx[p].item \in Items
      BY <2>4 DEF DropGone, ReleaseClaim, Inv, HoldsARow
    <3> QED
      BY <2>3, <2>4, <3>1 DEF DropGone, ReleaseClaim
  <2>5. ASSUME NEW p \in Procs, CommitClaim(p) PROVE [Queue!Next]_(Queue!vars)
    <3>1. ctx[p].item \in Items /\ row[ctx[p].item] = "queued"
      BY <2>5 DEF CommitClaim, Inv, HoldsARow, ClaimsAreLocked
    <3>2. CASE Pending(Chat[ctx[p].item]) = {} /\ row' = [row EXCEPT ![ctx[p].item] = "pending"]
      BY <2>5, <3>1, <3>2 DEF CommitClaim, Queue!Claim, Queue!Pending, Pending
    <3> QED
      BY <2>0, <2>5, <3>2 DEF CommitClaim
  <2>6. ASSUME NEW p \in Procs, InsertRow(p) PROVE [Queue!Next]_(Queue!vars)
    <3>1. ctx[p].item \in Items
      BY <2>6 DEF InsertRow, Inv, TypeOK, RowsAreArchived
    <3>2. CASE row[ctx[p].item] = "none" /\ row' = [row EXCEPT ![ctx[p].item] = "queued"]
      BY <2>6, <3>1, <3>2 DEF InsertRow, Queue!Enqueue
    <3> QED
      BY <2>0, <2>6, <3>2 DEF InsertRow
  <2>7. ASSUME StartPass \/ NextChat \/ EndPass PROVE [Queue!Next]_(Queue!vars)
    BY <2>0, <2>7 DEF StartPass, NextChat, EndPass
  <2>8. ASSUME NEW h \in Handlers, Stamp(h) \/ \E c \in Chats : NextCommand(h, c)
        PROVE  [Queue!Next]_(Queue!vars)
    BY <2>0, <2>8 DEF Stamp, NextCommand
  <2>9. ASSUME NEW p \in Procs,
               \/ FindOrphan(p) \/ SelectNext(p) \/ TopUp(p) \/ SendCard(p)
               \/ AttachMessage(p) \/ Crash(p)
        PROVE  [Queue!Next]_(Queue!vars)
    BY <2>0, <2>9 DEF FindOrphan, SelectNext, TopUp, SendCard, AttachMessage, Crash
  <2>10. CASE UNCHANGED vars
    BY <2>0, <2>10 DEF vars
  <2> HIDE DEF Queue!Next, Queue!vars
  <2> QED
    BY <2>1, <2>2, <2>4, <2>5, <2>6, <2>7, <2>8, <2>9, <2>10 DEF Next, Step
<1> QED
  BY Invariance, <1>1, <1>2, PTL DEF Spec, ImplementsQueue, Queue!Spec

-----------------------------------------------------------------------------
(* Second cards.                                                           *)

\* The places where a process has a row, and those from which it may still send a
\* card for it or lay it down again.
Holding == {"drop", "send", "attach", "release"}
Owing == {"drop", "send", "release"}

\* The processes of chat c with a card that they may still send.
Sendable(c) == {i \in Items \ Unsendable : Chat[i] = c}
Debtors(c) == {p \in Procs : pc[p] \in Owing /\ ctx[p].item \in Sendable(c)}

\* The chat is closed by a pending row that can be sent, when its card is known or a
\* process has it: nobody gets to send another card without taking that row over.
ClosedBy(i) ==
  /\ row[i] = "pending"
  /\ msg[i] # 0 \/ \E p \in Procs : pc[p] \in Holding /\ ctx[p].item = i
Closed(c) == \E i \in Sendable(c) : ClosedBy(i)

\* The cards that are unanswered, or that may be sent by now, are the faults and the
\* overlaps, and one more in a chat that is closed.
CardsCounted(c) ==
  /\ IsFiniteSet(Unanswered(c)) /\ IsFiniteSet(Debtors(c))
  /\ Cardinality(Unanswered(c)) + Cardinality(Debtors(c))
       <= faults + overlaps + (IF Closed(c) THEN 1 ELSE 0)

CardsInv == \A c \in Chats : CardsCounted(c)

\* How many elements a set gains or loses.
LEMMA SubsetCounts ==
  ASSUME NEW S, IsFiniteSet(S), NEW T
  PROVE  /\ T \subseteq S => /\ IsFiniteSet(T) /\ Cardinality(T) \in Nat
                             /\ Cardinality(T) <= Cardinality(S)
         /\ \A x : T \subseteq S \cup {x} =>
                     /\ IsFiniteSet(T) /\ Cardinality(T) \in Nat
                     /\ Cardinality(T) <= Cardinality(S) + 1
         /\ \A x \in S : T \subseteq S \ {x} =>
                     /\ IsFiniteSet(T) /\ Cardinality(T) \in Nat
                     /\ Cardinality(T) <= Cardinality(S) - 1
<1>1. Cardinality(S) \in Nat
  BY FS_CardinalityType
<1>2. ASSUME NEW R, IsFiniteSet(R), T \subseteq R
      PROVE  IsFiniteSet(T) /\ Cardinality(T) \in Nat /\ Cardinality(T) <= Cardinality(R)
  BY <1>2, FS_Subset, FS_CardinalityType
<1>3. ASSUME NEW x, T \subseteq S \cup {x}
      PROVE  IsFiniteSet(T) /\ Cardinality(T) \in Nat /\ Cardinality(T) <= Cardinality(S) + 1
  <2>1. IsFiniteSet(S \cup {x}) /\ Cardinality(S \cup {x}) <= Cardinality(S) + 1
        /\ Cardinality(S \cup {x}) \in Nat
    BY <1>1, FS_AddElement, FS_CardinalityType
  <2>2. IsFiniteSet(T) /\ Cardinality(T) \in Nat /\ Cardinality(T) <= Cardinality(S \cup {x})
    BY <1>2, <1>3, <2>1
  <2> QED
    BY <1>1, <2>1, <2>2
<1>4. ASSUME NEW x \in S, T \subseteq S \ {x}
      PROVE  IsFiniteSet(T) /\ Cardinality(T) \in Nat /\ Cardinality(T) <= Cardinality(S) - 1
  <2>1. IsFiniteSet(S \ {x}) /\ Cardinality(S \ {x}) = Cardinality(S) - 1
    BY <1>4, FS_RemoveElement
  <2>2. IsFiniteSet(T) /\ Cardinality(T) \in Nat /\ Cardinality(T) <= Cardinality(S \ {x})
    BY <1>2, <1>4, <2>1
  <2> QED
    BY <2>1, <2>2
<1> QED
  BY <1>2, <1>3, <1>4

\* What is counted of a chat are numbers.
LEMMA CountsKnown ==
  ASSUME TypeOK, NEW c, CardsCounted(c)
  PROVE  /\ Cardinality(Unanswered(c)) \in Nat /\ Cardinality(Debtors(c)) \in Nat
         /\ faults \in Nat /\ overlaps \in Nat
BY FS_CardinalityType, FaultsAssumption DEF TypeOK, CardsCounted

\* A step that adds no card and no debtor, and opens the chat only if it answers a
\* card, lets a debtor go, or is a fault.
LEMMA QuietStep ==
  ASSUME TypeOK, TypeOK', NEW c, CardsCounted(c),
         Unanswered(c)' \subseteq Unanswered(c), Debtors(c)' \subseteq Debtors(c),
         faults <= faults', overlaps <= overlaps',
         \/ Closed(c)' \/ ~Closed(c) \/ faults < faults'
         \/ \E x \in Unanswered(c) : x \notin Unanswered(c)'
         \/ \E p \in Debtors(c) : p \notin Debtors(c)'
  PROVE  CardsCounted(c)'
<1> DEFINE U == Unanswered(c)
           D == Debtors(c)
           U2 == Unanswered(c)'
           D2 == Debtors(c)'
<1>1. Cardinality(U) \in Nat /\ Cardinality(D) \in Nat /\ faults \in Nat /\ overlaps \in Nat
  BY CountsKnown
<1>2. faults' \in Nat /\ overlaps' \in Nat
  BY FaultsAssumption DEF TypeOK
<1>3. IsFiniteSet(U) /\ IsFiniteSet(D) /\ U2 \subseteq U /\ D2 \subseteq D
  BY DEF CardsCounted
<1>4. Cardinality(U) + Cardinality(D) <= faults + overlaps + (IF Closed(c) THEN 1 ELSE 0)
  BY DEF CardsCounted
<1> HIDE DEF U, D, U2, D2
<1>5. IsFiniteSet(U2) /\ Cardinality(U2) \in Nat /\ Cardinality(U2) <= Cardinality(U)
  BY <1>3, SubsetCounts
<1>6. IsFiniteSet(D2) /\ Cardinality(D2) \in Nat /\ Cardinality(D2) <= Cardinality(D)
  BY <1>3, SubsetCounts
<1>7. Cardinality(U2) + Cardinality(D2) <= faults' + overlaps' + (IF Closed(c)' THEN 1 ELSE 0)
  <2>1. CASE Closed(c)' \/ ~Closed(c) \/ faults < faults'
    BY <1>1, <1>2, <1>4, <1>5, <1>6, <2>1
  <2>2. ASSUME NEW x \in U, x \notin U2
        PROVE  Cardinality(U2) <= Cardinality(U) - 1
    BY <1>3, <2>2, SubsetCounts
  <2>3. ASSUME NEW p \in D, p \notin D2
        PROVE  Cardinality(D2) <= Cardinality(D) - 1
    BY <1>3, <2>3, SubsetCounts
  <2>4. CASE Cardinality(U2) <= Cardinality(U) - 1 \/ Cardinality(D2) <= Cardinality(D) - 1
    BY <1>1, <1>2, <1>4, <1>5, <1>6, <2>4
  <2> QED
    BY <2>1, <2>2, <2>3, <2>4 DEF U, D, U2, D2
<1> QED
  BY <1>5, <1>6, <1>7 DEF CardsCounted, U, D, U2, D2

\* A process becomes a debtor: of a chat that was open, or as an overlap.
LEMMA BorrowStep ==
  ASSUME TypeOK, TypeOK', NEW c, CardsCounted(c), NEW p,
         Unanswered(c)' \subseteq Unanswered(c), Debtors(c)' \subseteq Debtors(c) \cup {p},
         Closed(c)', faults' = faults,
         \/ overlaps' = overlaps /\ ~Closed(c)
         \/ overlaps' = overlaps + 1
  PROVE  CardsCounted(c)'
<1> DEFINE U == Unanswered(c)
           D == Debtors(c)
           U2 == Unanswered(c)'
           D2 == Debtors(c)'
<1>1. Cardinality(U) \in Nat /\ Cardinality(D) \in Nat /\ faults \in Nat /\ overlaps \in Nat
  BY CountsKnown
<1>2. IsFiniteSet(U) /\ IsFiniteSet(D) /\ U2 \subseteq U /\ D2 \subseteq D \cup {p}
  BY DEF CardsCounted
<1>3. Cardinality(U) + Cardinality(D) <= faults + overlaps + (IF Closed(c) THEN 1 ELSE 0)
  BY DEF CardsCounted
<1> HIDE DEF U, D, U2, D2
<1>4. IsFiniteSet(U2) /\ Cardinality(U2) \in Nat /\ Cardinality(U2) <= Cardinality(U)
  BY <1>2, SubsetCounts
<1>5. IsFiniteSet(D2) /\ Cardinality(D2) \in Nat /\ Cardinality(D2) <= Cardinality(D) + 1
  BY <1>2, SubsetCounts
<1>6. Cardinality(U2) + Cardinality(D2) <= faults' + overlaps' + (IF Closed(c)' THEN 1 ELSE 0)
  BY <1>1, <1>3, <1>4, <1>5
<1> QED
  BY <1>4, <1>5, <1>6 DEF CardsCounted, U, D, U2, D2

\* A card reaches the chat: its sender owes none any more, or there is a fault.
LEMMA PayStep ==
  ASSUME TypeOK, TypeOK', NEW c, CardsCounted(c), NEW x,
         Unanswered(c)' \subseteq Unanswered(c) \cup {x}, Debtors(c)' \subseteq Debtors(c),
         Closed(c) => Closed(c)', overlaps' = overlaps,
         \/ faults' = faults /\ \E p \in Debtors(c) : p \notin Debtors(c)'
         \/ faults' = faults + 1
  PROVE  CardsCounted(c)'
<1> DEFINE U == Unanswered(c)
           D == Debtors(c)
           U2 == Unanswered(c)'
           D2 == Debtors(c)'
<1>1. Cardinality(U) \in Nat /\ Cardinality(D) \in Nat /\ faults \in Nat /\ overlaps \in Nat
  BY CountsKnown
<1>2. IsFiniteSet(U) /\ IsFiniteSet(D) /\ U2 \subseteq U \cup {x} /\ D2 \subseteq D
  BY DEF CardsCounted
<1>3. Cardinality(U) + Cardinality(D) <= faults + overlaps + (IF Closed(c) THEN 1 ELSE 0)
  BY DEF CardsCounted
<1> HIDE DEF U, D, U2, D2
<1>4. IsFiniteSet(U2) /\ Cardinality(U2) \in Nat /\ Cardinality(U2) <= Cardinality(U) + 1
  BY <1>2, SubsetCounts
<1>5. IsFiniteSet(D2) /\ Cardinality(D2) \in Nat /\ Cardinality(D2) <= Cardinality(D)
  BY <1>2, SubsetCounts
<1>6. ASSUME NEW p \in D, p \notin D2
      PROVE  Cardinality(D2) <= Cardinality(D) - 1
  BY <1>2, <1>6, SubsetCounts
<1>7. faults' = faults + 1 \/ (faults' = faults /\ Cardinality(D2) <= Cardinality(D) - 1)
  BY <1>6 DEF D, D2
<1>8. Cardinality(U2) + Cardinality(D2) <= faults' + overlaps' + (IF Closed(c)' THEN 1 ELSE 0)
  BY <1>1, <1>3, <1>4, <1>5, <1>7
<1> QED
  BY <1>4, <1>5, <1>8 DEF CardsCounted, U, D, U2, D2

\* Only process p moves; it has, or is about to send, a card of chat c.
OnlyMoves(p) == \A q \in Procs \ {p} : pc'[q] = pc[q] /\ ctx'[q] = ctx[q]
HasCardOf(p, c) == pc[p] \in Holding /\ ctx[p].item \in Sendable(c)

\* Where no card is sent and no row is opened again, no unanswered card is new.
LEMMA NoNewCard ==
  ASSUME NEW c,
         \A i \in Items : Chat[i] = c =>
           sent'[i] = sent[i] /\ (row[i] = "decided" => row'[i] = "decided")
  PROVE  Unanswered(c)' \subseteq Unanswered(c)
<1> SUFFICES ASSUME NEW x \in Unanswered(c)' PROVE x \in Unanswered(c)
  OBVIOUS
<1>1. PICK i \in Items : Chat[i] = c /\ row'[i] # "decided" /\ x \in {i} \X (1..sent'[i])
  BY DEF Unanswered
<1>2. row[i] # "decided" /\ x \in {i} \X (1..sent[i])
  BY <1>1
<1> QED
  BY <1>1, <1>2 DEF Unanswered

\* Where one process moves, the other debtors are those of before.
LEMMA DebtorsAfter ==
  ASSUME NEW p \in Procs, OnlyMoves(p), NEW c
  PROVE  /\ Debtors(c)' \subseteq Debtors(c) \cup {p}
         /\ p \in Debtors(c)' <=> (pc'[p] \in Owing /\ ctx'[p].item \in Sendable(c))
         /\ p \in Debtors(c) <=> (pc[p] \in Owing /\ ctx[p].item \in Sendable(c))
BY DEF Debtors, OnlyMoves, Sendable, Owing

\* A chat stays closed while its rows do, and whoever has a card of it keeps that
\* card or makes its id known.
LEMMA StaysClosed ==
  ASSUME NEW p \in Procs, OnlyMoves(p), NEW c,
         \A i \in Sendable(c) :
           (row[i] = "pending" => row'[i] = "pending") /\ (msg[i] # 0 => msg'[i] # 0),
         HasCardOf(p, c) =>
           \/ pc'[p] \in Holding /\ ctx'[p].item = ctx[p].item
           \/ msg'[ctx[p].item] # 0
  PROVE  Closed(c) => Closed(c)'
<1> SUFFICES ASSUME NEW i \in Sendable(c), ClosedBy(i) PROVE ClosedBy(i)'
  BY DEF Closed, Sendable
<1>1. row'[i] = "pending"
  BY DEF ClosedBy
<1>2. CASE msg[i] # 0
  BY <1>1, <1>2 DEF ClosedBy
<1>3. ASSUME NEW q \in Procs, pc[q] \in Holding, ctx[q].item = i
      PROVE  ClosedBy(i)'
  <2>1. CASE q = p
    BY <1>1, <1>3, <2>1 DEF ClosedBy, HasCardOf
  <2>2. CASE q # p
    BY <1>1, <1>3, <2>2 DEF ClosedBy, OnlyMoves
  <2> QED
    BY <2>1, <2>2
<1> QED
  BY <1>2, <1>3 DEF ClosedBy

\* A step of a process that has no card of the chat before or after, and that leaves
\* the chat's cards and pending rows alone.
LEMMA Aside ==
  ASSUME TypeOK, TypeOK', NEW p \in Procs, OnlyMoves(p), NEW c, CardsCounted(c),
         ~HasCardOf(p, c), ~HasCardOf(p, c)',
         \A i \in Items : Chat[i] = c =>
           sent'[i] = sent[i] /\ (row[i] = "decided" => row'[i] = "decided"),
         \A i \in Sendable(c) :
           (row[i] = "pending" => row'[i] = "pending") /\ msg'[i] = msg[i],
         faults <= faults', overlaps <= overlaps'
  PROVE  CardsCounted(c)'
<1>1. Unanswered(c)' \subseteq Unanswered(c)
  BY NoNewCard
<1>2. Debtors(c)' \subseteq Debtors(c)
  BY DebtorsAfter DEF HasCardOf, Holding, Owing, Sendable
<1>3. Closed(c) => Closed(c)'
  BY StaysClosed
<1> QED
  BY <1>1, <1>2, <1>3, QuietStep

\* The steps that have nothing to do with a card: the spec and the chat of a pass, a
\* stamp, a /next, the queue and the archive.
LEMMA CardsAside ==
  ASSUME Inv, TypeOK', NEW c \in Chats, CardsCounted(c)
  PROVE  /\ \A i \in Items : Archive(i) => CardsCounted(c)'
         /\ StartPass \/ NextChat \/ EndPass => CardsCounted(c)'
         /\ \A h \in Handlers :
              Stamp(h) \/ (\E d \in Chats : NextCommand(h, d)) => CardsCounted(c)'
         /\ \A p \in Procs : SelectNext(p) \/ TopUp(p) \/ InsertRow(p) => CardsCounted(c)'
<1>0. TypeOK /\ FetchJob \in Procs /\ Handlers \subseteq Procs
  BY DEF Inv, Procs
<1> USE <1>0
<1>1. ASSUME NEW p \in Procs, OnlyMoves(p), pc[p] \notin Holding, pc'[p] \notin Holding,
             UNCHANGED <<msg, sent, history>>,
             \A i \in Items : row'[i] = row[i] \/ row[i] = "none"
      PROVE  CardsCounted(c)'
  <2>1. ~HasCardOf(p, c) /\ ~HasCardOf(p, c)'
    BY <1>1 DEF HasCardOf
  <2>2. /\ \A i \in Items : Chat[i] = c =>
             sent'[i] = sent[i] /\ (row[i] = "decided" => row'[i] = "decided")
        /\ \A i \in Sendable(c) :
             (row[i] = "pending" => row'[i] = "pending") /\ msg'[i] = msg[i]
    BY <1>1 DEF Sendable
  <2>3. faults <= faults' /\ overlaps <= overlaps'
    BY <1>1, FaultsAssumption DEF TypeOK, history
  <2> QED
    BY <1>1, <2>1, <2>2, <2>3, Aside
<1>2. ASSUME NEW i \in Items, Archive(i) PROVE CardsCounted(c)'
  <2>1. row[i] = "none"
    BY <1>2 DEF Archive, Inv, RowsAreArchived
  <2> QED
    BY <1>1, <1>2, <2>1 DEF Archive, OnlyMoves, Holding, TypeOK, cards
<1>3. CASE StartPass
  BY <1>1, <1>3 DEF StartPass, OnlyMoves, Holding, TypeOK, cards, Goto
<1>4. CASE NextChat
  BY <1>1, <1>4 DEF NextChat, OnlyMoves, Holding, TypeOK, cards, Goto
<1>5. CASE EndPass
  BY <1>1, <1>5 DEF EndPass, OnlyMoves, Holding, TypeOK, cards, Goto
<1>6. ASSUME NEW h \in Handlers, Stamp(h) PROVE CardsCounted(c)'
  BY <1>1, <1>6 DEF Stamp, OnlyMoves, Holding, TypeOK, Goto
<1>7. ASSUME NEW h \in Handlers, NEW d \in Chats, NextCommand(h, d) PROVE CardsCounted(c)'
  BY <1>1, <1>7 DEF NextCommand, OnlyMoves, Holding, TypeOK, cards, Goto
<1>8. ASSUME NEW p \in Procs, Leave(p) \/ Abandon(p)
      PROVE  OnlyMoves(p) /\ pc'[p] \notin Holding
  BY <1>8, LeaveEffect DEF OnlyMoves, Holding, TypeOK
<1>9. ASSUME NEW p \in Procs, SelectNext(p) PROVE CardsCounted(c)'
  <2>1. OnlyMoves(p) /\ pc'[p] \notin Holding
    <3>1. CASE Leave(p)
      BY <1>8, <3>1
    <3>2. CASE \E l \in {"claim", "topup"} : Goto(p, l) /\ \E x : ctx' = [ctx EXCEPT ![p].item = x]
      BY <3>2 DEF Goto, OnlyMoves, Holding, TypeOK
    <3>3. CASE Goto(p, "topup") /\ UNCHANGED ctx
      BY <3>3 DEF Goto, OnlyMoves, Holding, TypeOK
    <3> QED
      BY <1>9, <3>1, <3>2, <3>3 DEF SelectNext
  <2> QED
    BY <1>1, <1>9, <2>1 DEF SelectNext, Holding, cards
<1>10. ASSUME NEW p \in Procs, TopUp(p) PROVE CardsCounted(c)'
  <2>1. OnlyMoves(p) /\ pc'[p] \notin Holding
    <3>1. CASE Leave(p)
      BY <1>8, <3>1
    <3>2. CASE Goto(p, "insert") /\ \E x : ctx' = [ctx EXCEPT ![p].item = x]
      BY <3>2 DEF Goto, OnlyMoves, Holding, TypeOK
    <3> QED
      BY <1>10, <3>1, <3>2 DEF TopUp
  <2> QED
    BY <1>1, <1>10, <2>1 DEF TopUp, Holding, cards
<1>11. ASSUME NEW p \in Procs, InsertRow(p) PROVE CardsCounted(c)'
  <2>1. OnlyMoves(p) /\ pc'[p] \notin Holding
    <3>1. CASE Leave(p)
      BY <1>8, <3>1
    <3>2. CASE Goto(p, "select") /\ \E x : ctx' = [ctx EXCEPT ![p] = x]
      BY <3>2 DEF Goto, OnlyMoves, Holding, TypeOK
    <3> QED
      BY <1>11, <3>1, <3>2 DEF InsertRow
  <2>2. \A i \in Items : row'[i] = row[i] \/ row[i] = "none"
    BY <1>11 DEF InsertRow, TypeOK
  <2> QED
    BY <1>1, <1>11, <2>1, <2>2 DEF InsertRow, Holding, cards
<1> QED
  BY <1>2, <1>3, <1>4, <1>5, <1>6, <1>7, <1>9, <1>10, <1>11

\* A step of a process with the card of an item changes nothing for a chat that this
\* card is not of, or if the card cannot be sent at all.
LEMMA CardsElsewhere ==
  ASSUME TypeOK, TypeOK', NEW p \in Procs, OnlyMoves(p), NEW i \in Items,
         NEW c, CardsCounted(c), i \notin Sendable(c),
         pc[p] \in Holding => ctx[p].item = i,
         pc'[p] \in Holding => ctx'[p].item = i,
         \A j \in Items : row[j] = "decided" => row'[j] = "decided",
         sent'[i] = sent[i] \/ Chat[i] # c,
         \A j \in Items \ {i} : row'[j] = row[j] /\ msg'[j] = msg[j] /\ sent'[j] = sent[j],
         faults <= faults', overlaps <= overlaps'
  PROVE  CardsCounted(c)'
<1>1. ~HasCardOf(p, c) /\ ~HasCardOf(p, c)'
  BY DEF HasCardOf, Sendable
<1>2. /\ \A j \in Items : Chat[j] = c =>
           sent'[j] = sent[j] /\ (row[j] = "decided" => row'[j] = "decided")
      /\ \A j \in Sendable(c) :
           (row[j] = "pending" => row'[j] = "pending") /\ msg'[j] = msg[j]
  BY DEF Sendable
<1> QED
  BY <1>1, <1>2, Aside

\* A press answers a card: the chat opens, and the card is unanswered no more.
LEMMA CardsPress ==
  ASSUME Inv, TypeOK', NEW c, CardsCounted(c),
         NEW h \in Handlers, NEW i \in Items, NEW v \in Verdicts, Press(h, i, v)
  PROVE  CardsCounted(c)'
<1>1. /\ h \in Procs /\ pc[h] = "idle" /\ pc'[h] = "stamp" /\ OnlyMoves(h)
      /\ row' = [row EXCEPT ![i] = "decided"] /\ sent[i] > 0
      /\ UNCHANGED <<msg, sent, faults, overlaps>>
  BY DEF Press, Goto, OnlyMoves, Inv, TypeOK, cards, history, Procs
<1>2. TypeOK /\ faults <= faults' /\ overlaps <= overlaps'
  BY <1>1, FaultsAssumption DEF Inv, TypeOK
<1>3. CASE Chat[i] # c
  <2>1. i \notin Sendable(c)
    BY <1>3 DEF Sendable
  <2> QED
    BY <1>1, <1>2, <1>3, <2>1, CardsElsewhere DEF Holding, TypeOK
<1>4. CASE Chat[i] = c
  <2>1. Unanswered(c)' \subseteq Unanswered(c)
    BY <1>1, <1>2, NoNewCard DEF TypeOK
  <2>2. Debtors(c)' \subseteq Debtors(c)
    BY <1>1, DebtorsAfter DEF Owing
  <2>3. <<i, 1>> \in Unanswered(c)
    <3>1. row[i] # "decided"
      BY DEF Press
    <3>2. 1 \in 1..sent[i]
      BY <1>1, <1>2 DEF TypeOK
    <3> QED
      BY <1>4, <3>1, <3>2 DEF Unanswered
  <2>4. <<i, 1>> \notin Unanswered(c)'
    BY <1>1, <1>2 DEF Unanswered, TypeOK
  <2> QED
    BY <1>2, <2>1, <2>2, <2>3, <2>4, QuietStep
<1> QED
  BY <1>3, <1>4

\* An orphan is taken over: as the only sender of its chat, or as an overlap.
LEMMA CardsFindOrphan ==
  ASSUME Inv, TypeOK', NEW c, CardsCounted(c), NEW p \in Procs, FindOrphan(p)
  PROVE  CardsCounted(c)'
<1>0. /\ TypeOK /\ pc[p] = "orphan" /\ faults \in Nat /\ overlaps \in Nat
      /\ UNCHANGED <<row, msg, sent, faults>>
  BY FaultsAssumption DEF Inv, TypeOK, FindOrphan, cards
<1>1. CASE Goto(p, "select") /\ UNCHANGED <<ctx, overlaps>>
  <2>1. OnlyMoves(p) /\ pc'[p] = "select"
    BY <1>0, <1>1 DEF OnlyMoves, Goto, TypeOK
  <2>2. ~HasCardOf(p, c) /\ ~HasCardOf(p, c)'
    BY <1>0, <2>1 DEF HasCardOf, Holding
  <2> QED
    BY <1>0, <1>1, <2>1, <2>2, Aside
<1>2. ASSUME NEW i \in Items, row[i] = "pending", msg[i] = 0,
             ctx' = [ctx EXCEPT ![p].item = i],
             NEW l \in {"drop", "send"}, Goto(p, l),
             overlaps' = overlaps +
               (IF i \notin Unsendable /\ \E q \in Procs \ {p} : ctx[q].item = i /\ pc[q] # "insert" THEN 1 ELSE 0)
      PROVE  CardsCounted(c)'
  <2>1. OnlyMoves(p) /\ pc'[p] = l /\ l \in Owing
    BY <1>0, <1>2 DEF OnlyMoves, Goto, TypeOK, Owing
  <2>2. ctx'[p].item = i
    <3>1. ctx[p] \in Context
      BY <1>0 DEF TypeOK
    <3> QED
      BY <1>0, <1>2, <3>1 DEF TypeOK, Context
  <2>3. overlaps <= overlaps' /\ faults <= faults'
    BY <1>0, <1>2
  <2>4. CASE i \notin Sendable(c)
    BY <1>0, <2>1, <2>2, <2>3, <2>4, CardsElsewhere DEF Holding
  <2>5. CASE i \in Sendable(c)
    <3>1. Unanswered(c)' \subseteq Unanswered(c)
      BY <1>0, NoNewCard
    <3>2. Debtors(c)' \subseteq Debtors(c) \cup {p}
      BY <2>1, DebtorsAfter
    <3>3. Closed(c)'
      <4>1. ClosedBy(i)'
        BY <1>0, <1>2, <2>1, <2>2 DEF ClosedBy, Holding
      <4> QED
        BY <2>5, <4>1 DEF Closed, Sendable
    <3>4. CASE \E q \in Procs \ {p} : ctx[q].item = i /\ pc[q] # "insert"
      <4>1. overlaps' = overlaps + 1
        BY <1>2, <2>5, <3>4 DEF Sendable
      <4> QED
        BY <1>0, <3>1, <3>2, <3>3, <4>1, BorrowStep
    <3>5. CASE ~ \E q \in Procs \ {p} : ctx[q].item = i /\ pc[q] # "insert"
      <4>1. overlaps' = overlaps
        BY <1>0, <1>2, <3>5
      <4>2. ~Closed(c)
        <5> SUFFICES ASSUME NEW j \in Sendable(c), ClosedBy(j) PROVE FALSE
          BY DEF Closed
        <5>1. j = i
          BY <1>2, <2>5 DEF ClosedBy, Sendable, Inv, OnePendingPerChat
        <5> QED
          BY <1>0, <1>2, <3>5, <5>1 DEF ClosedBy, Holding
      <4> QED
        BY <1>0, <3>1, <3>2, <3>3, <4>1, <4>2, BorrowStep
    <3> QED
      BY <3>4, <3>5
  <2> QED
    BY <2>4, <2>5
<1> QED
  BY <1>1, <1>2 DEF FindOrphan, Orphans, Pending

\* A claim commits in a chat without a pending row, or nothing is changed.
LEMMA CardsCommitClaim ==
  ASSUME Inv, TypeOK', NEW c, CardsCounted(c), NEW p \in Procs, CommitClaim(p)
  PROVE  CardsCounted(c)'
<1> DEFINE i == ctx[p].item
<1>0. /\ TypeOK /\ pc[p] = "claim" /\ i \in Items /\ row[i] = "queued"
      /\ faults \in Nat /\ overlaps \in Nat
      /\ UNCHANGED <<msg, sent, faults, overlaps>>
  BY FaultsAssumption
     DEF Inv, TypeOK, HoldsARow, ClaimsAreLocked, CommitClaim, cards, history
<1>1. CASE Abandon(p) /\ UNCHANGED row
  <2>1. OnlyMoves(p) /\ pc'[p] \notin Holding
    BY <1>0, <1>1, LeaveEffect DEF OnlyMoves, Holding, TypeOK
  <2>2. ~HasCardOf(p, c) /\ ~HasCardOf(p, c)'
    BY <1>0, <2>1 DEF HasCardOf, Holding
  <2> QED
    BY <1>0, <1>1, <2>1, <2>2, Aside
<1>2. CASE Pending(Chat[i]) = {} /\ row' = [row EXCEPT ![i] = "pending"] /\ Goto(p, "send")
           /\ UNCHANGED ctx
  <2>1. OnlyMoves(p) /\ pc'[p] = "send" /\ ctx'[p].item = i
    BY <1>0, <1>2 DEF OnlyMoves, Goto, TypeOK
  <2>2. CASE i \notin Sendable(c)
    <3>1. \A j \in Items \ {i} : row'[j] = row[j] /\ msg'[j] = msg[j] /\ sent'[j] = sent[j]
      BY <1>0, <1>2 DEF TypeOK
    <3>2. \A j \in Items : row[j] = "decided" => row'[j] = "decided"
      BY <1>0, <1>2 DEF TypeOK
    <3>3. sent'[i] = sent[i] /\ faults <= faults' /\ overlaps <= overlaps'
      BY <1>0
    <3> QED
      BY <1>0, <2>1, <2>2, <3>1, <3>2, <3>3, CardsElsewhere DEF Holding
  <2>3. CASE i \in Sendable(c)
    <3>1. Unanswered(c)' \subseteq Unanswered(c)
      BY <1>0, <1>2, NoNewCard DEF TypeOK
    <3>2. Debtors(c)' \subseteq Debtors(c) \cup {p}
      BY <2>1, DebtorsAfter
    <3>3. Closed(c)'
      <4>1. ClosedBy(i)'
        BY <1>0, <1>2, <2>1 DEF ClosedBy, Holding, TypeOK
      <4> QED
        BY <2>1, <2>3, <4>1 DEF Closed, Sendable
    <3>4. ~Closed(c)
      BY <1>2, <2>3 DEF Closed, ClosedBy, Pending, Sendable
    <3> QED
      BY <1>0, <3>1, <3>2, <3>3, <3>4, BorrowStep
  <2> QED
    BY <2>2, <2>3
<1> QED
  BY <1>1, <1>2 DEF CommitClaim

\* What every step of a process with a card has in common.
LEMMA CardHolder ==
  ASSUME Inv, TypeOK', NEW p \in Procs,
         DropGone(p) \/ SendCard(p) \/ AttachMessage(p) \/ ReleaseClaim(p)
  PROVE  /\ TypeOK /\ OnlyMoves(p) /\ ctx[p].item \in Items /\ pc[p] \in Holding
         /\ faults \in Nat /\ overlaps \in Nat
         /\ pc'[p] \in Holding => ctx'[p].item = ctx[p].item
<1>0. /\ TypeOK /\ ctx[p].item \in Items /\ pc[p] \in Holding
      /\ faults \in Nat /\ overlaps \in Nat
  BY FaultsAssumption
     DEF Inv, TypeOK, HoldsARow, DropGone, SendCard, AttachMessage, ReleaseClaim, Holding
<1>1. CASE Leave(p)
  BY <1>0, <1>1, LeaveEffect DEF OnlyMoves, Holding, TypeOK
<1>2. CASE DropGone(p)
  BY <1>0, <1>2 DEF DropGone, Goto, OnlyMoves, Holding, TypeOK
<1>3. CASE SendCard(p)
  <2>1. OnlyMoves(p)
    BY <1>0, <1>3 DEF SendCard, Goto, OnlyMoves, TypeOK
  <2>2. ctx'[p].item = ctx[p].item
    <3>1. ctx[p] \in Context
      BY <1>0 DEF TypeOK
    <3>2. ASSUME NEW n, ctx' = [ctx EXCEPT ![p].card = n]
          PROVE  ctx'[p].item = ctx[p].item
      BY <1>0, <3>1, <3>2 DEF TypeOK, Context
    <3> QED
      BY <1>3, <3>2 DEF SendCard
  <2> QED
    BY <1>0, <2>1, <2>2
<1> QED
  BY <1>0, <1>1, <1>2, <1>3 DEF AttachMessage, ReleaseClaim

\* A card reaches the chat, or not: its sender owes no other, or there was a fault.
LEMMA CardsSendCard ==
  ASSUME Inv, TypeOK', NEW c, CardsCounted(c), NEW p \in Procs, SendCard(p)
  PROVE  CardsCounted(c)'
<1> DEFINE i == ctx[p].item
<1>0. /\ TypeOK /\ OnlyMoves(p) /\ i \in Items /\ pc[p] \in Holding
      /\ faults \in Nat /\ overlaps \in Nat
      /\ pc'[p] \in Holding => ctx'[p].item = i
  BY CardHolder
<1>1. pc[p] = "send" /\ UNCHANGED <<row, msg, overlaps>>
  BY DEF SendCard, history, Fault
<1>2. \/ /\ i \notin Unsendable /\ pc'[p] = "attach" /\ faults' = faults
         /\ sent' = [sent EXCEPT ![i] = @ + 1]
      \/ /\ i \notin Unsendable /\ pc'[p] = "release" /\ faults' = faults + 1
         /\ sent' \in {sent, [sent EXCEPT ![i] = @ + 1]}
      \/ i \in Unsendable /\ pc'[p] = "release" /\ faults' = faults /\ sent' = sent
  BY <1>0 DEF SendCard, Goto, Fault, history, TypeOK
<1>3. \A j \in Items \ {i} : sent'[j] = sent[j]
  BY <1>0, <1>2 DEF TypeOK
<1>4. CASE i \notin Sendable(c)
  <2>1. sent'[i] = sent[i] \/ Chat[i] # c
    BY <1>0, <1>2, <1>4 DEF Sendable
  <2>2. faults <= faults' /\ overlaps <= overlaps'
    BY <1>0, <1>1, <1>2
  <2> QED
    BY <1>0, <1>1, <1>3, <1>4, <2>1, <2>2, CardsElsewhere
<1>5. CASE i \in Sendable(c)
  <2>1. Unanswered(c)' \subseteq Unanswered(c) \cup {<<i, sent[i] + 1>>}
    <3> SUFFICES ASSUME NEW x \in Unanswered(c)', x # <<i, sent[i] + 1>>
                 PROVE  x \in Unanswered(c)
      OBVIOUS
    <3>1. PICK j \in Items : /\ Chat[j] = c /\ row'[j] # "decided"
                             /\ x \in {j} \X (1..sent'[j])
      BY DEF Unanswered
    <3>2. row[j] # "decided"
      BY <1>1, <3>1
    <3>3. PICK n \in 1..sent'[j] : x = <<j, n>>
      BY <3>1
    <3>4. n \in 1..sent[j]
      <4>1. CASE j # i
        BY <1>3, <3>1, <3>3, <4>1
      <4>2. CASE j = i
        <5>1. sent[i] \in Nat /\ sent'[i] \in {sent[i], sent[i] + 1}
          BY <1>0, <1>2 DEF TypeOK
        <5>2. n # sent[i] + 1
          BY <3>3, <4>2
        <5> QED
          BY <3>3, <4>2, <5>1, <5>2
      <4> QED
        BY <4>1, <4>2
    <3>5. x \in {j} \X (1..sent[j])
      BY <3>3, <3>4
    <3> QED
      BY <3>1, <3>2, <3>5 DEF Unanswered
  <2>2. Debtors(c)' \subseteq Debtors(c)
    BY <1>0, <1>1, <1>5, DebtorsAfter DEF Owing
  <2>3. Closed(c) => Closed(c)'
    BY <1>0, <1>1, <1>2, StaysClosed DEF Holding
  <2>4. p \in Debtors(c)
    BY <1>0, <1>1, <1>5, DebtorsAfter DEF Owing
  <2>5. CASE faults' = faults
    <3>1. p \notin Debtors(c)'
      BY <1>0, <1>2, <1>5, <2>5, DebtorsAfter DEF Owing, Sendable
    <3> QED
      BY <1>0, <1>1, <2>1, <2>2, <2>3, <2>4, <2>5, <3>1, PayStep
  <2>6. CASE faults' = faults + 1
    BY <1>0, <1>1, <2>1, <2>2, <2>3, <2>6, PayStep
  <2> QED
    BY <1>2, <2>5, <2>6
<1> QED
  BY <1>4, <1>5

\* The id of a card that is in the chat is stored: the row keeps the chat closed.
LEMMA CardsAttachMessage ==
  ASSUME Inv, TypeOK', NEW c, CardsCounted(c), NEW p \in Procs, AttachMessage(p)
  PROVE  CardsCounted(c)'
<1> DEFINE i == ctx[p].item
<1>0. /\ TypeOK /\ OnlyMoves(p) /\ i \in Items /\ pc[p] \in Holding
      /\ faults \in Nat /\ overlaps \in Nat
      /\ pc'[p] \in Holding => ctx'[p].item = i
  BY CardHolder
<1>1. /\ pc[p] = "attach" /\ pc'[p] \notin Holding
      /\ msg' = [msg EXCEPT ![i] = ctx[p].card]
      /\ UNCHANGED <<row, sent, faults, overlaps>>
  BY <1>0, LeaveEffect DEF AttachMessage, Holding, TypeOK, cards, history
<1>2. msg'[i] # 0
  BY <1>0, <1>1 DEF Inv, CardsWereSent, TypeOK
<1>3. \A j \in Items \ {i} : msg'[j] = msg[j]
  BY <1>0, <1>1 DEF TypeOK
<1>4. CASE i \notin Sendable(c)
  BY <1>0, <1>1, <1>3, <1>4, CardsElsewhere
<1>5. CASE i \in Sendable(c)
  <2>1. Unanswered(c)' \subseteq Unanswered(c)
    BY <1>1, NoNewCard
  <2>2. Debtors(c)' \subseteq Debtors(c)
    BY <1>0, <1>1, DebtorsAfter DEF Owing, Holding
  <2>3. Closed(c) => Closed(c)'
    BY <1>0, <1>1, <1>2, <1>3, StaysClosed DEF Sendable
  <2> QED
    BY <1>0, <1>1, <2>1, <2>2, <2>3, QuietStep
<1> QED
  BY <1>4, <1>5

\* A row is laid down: the chat may open, but its holder owes no card any more.
LEMMA CardsLaidDown ==
  ASSUME Inv, TypeOK', NEW c, CardsCounted(c), NEW p \in Procs, DropGone(p) \/ ReleaseClaim(p)
  PROVE  CardsCounted(c)'
<1> DEFINE i == ctx[p].item
<1>0. /\ TypeOK /\ OnlyMoves(p) /\ i \in Items /\ pc[p] \in Holding
      /\ faults \in Nat /\ overlaps \in Nat
      /\ pc'[p] \in Holding => ctx'[p].item = i
  BY CardHolder
<1>1. /\ pc[p] \in Owing /\ pc'[p] \notin Holding
      /\ row' = [row EXCEPT ![i] = IF @ = "pending" THEN "queued" ELSE @]
      /\ UNCHANGED <<msg, sent, faults, overlaps>>
  BY <1>0, LeaveEffect
     DEF DropGone, ReleaseClaim, Goto, Holding, Owing, TypeOK, cards, history
<1>2. /\ \A j \in Items : row[j] = "decided" => row'[j] = "decided"
      /\ \A j \in Items \ {i} : row'[j] = row[j]
  BY <1>0, <1>1 DEF TypeOK
<1>3. CASE i \notin Sendable(c)
  BY <1>0, <1>1, <1>2, <1>3, CardsElsewhere
<1>4. CASE i \in Sendable(c)
  <2>1. Unanswered(c)' \subseteq Unanswered(c)
    BY <1>1, <1>2, NoNewCard
  <2>2. Debtors(c)' \subseteq Debtors(c) /\ p \in Debtors(c) /\ p \notin Debtors(c)'
    BY <1>0, <1>1, <1>4, DebtorsAfter DEF Owing, Holding
  <2> QED
    BY <1>0, <1>1, <2>1, <2>2, QuietStep
<1> QED
  BY <1>3, <1>4

\* Whoever dies leaves the chat open, which is a fault.
LEMMA CardsCrash ==
  ASSUME Inv, TypeOK', NEW c, CardsCounted(c), NEW p \in Procs, Crash(p)
  PROVE  CardsCounted(c)'
<1>1. /\ TypeOK /\ OnlyMoves(p) /\ pc'[p] \notin Owing
  BY LeaveEffect DEF Inv, Crash, OnlyMoves, Owing, TypeOK
<1>2. /\ UNCHANGED <<row, msg, sent, overlaps>> /\ faults' = faults + 1
      /\ faults \in Nat /\ overlaps \in Nat
  BY FaultsAssumption DEF Crash, Fault, cards, Inv, TypeOK
<1>3. Unanswered(c)' \subseteq Unanswered(c)
  BY <1>2, NoNewCard
<1>4. Debtors(c)' \subseteq Debtors(c)
  BY <1>1, DebtorsAfter
<1> QED
  BY <1>1, <1>2, <1>3, <1>4, QuietStep

\* At first there are no cards and no debtors.
LEMMA CardsInit == Init => CardsInv
<1> SUFFICES ASSUME Init, NEW c \in Chats PROVE CardsCounted(c)
  BY DEF CardsInv
<1>1. Unanswered(c) = {}
  BY DEF Init, Unanswered
<1>2. Debtors(c) = {}
  BY DEF Init, Debtors, Owing
<1>3. IsFiniteSet({}) /\ Cardinality({}) = 0
  BY FS_EmptySet
<1>4. faults = 0 /\ overlaps = 0
  BY DEF Init
<1> QED
  BY <1>1, <1>2, <1>3, <1>4 DEF CardsCounted

\* Every step of the job, of a handler or of a fault keeps the account of every chat.
LEMMA CardsStep == Inv /\ TypeOK' /\ CardsInv /\ [Next]_vars => CardsInv'
<1> SUFFICES ASSUME Inv, TypeOK', CardsInv, [Next]_vars, NEW c \in Chats
             PROVE  CardsCounted(c)'
  BY DEF CardsInv
<1>1. CardsCounted(c)
  BY DEF CardsInv
<1>2. CASE UNCHANGED vars
  BY <1>1, <1>2
     DEF vars, cards, history, CardsCounted, Unanswered, Debtors, Closed, ClosedBy, Sendable
<1>3. CASE Next
  BY <1>1, <1>3, CardsAside, CardsPress, CardsFindOrphan, CardsCommitClaim, CardsSendCard,
     CardsAttachMessage, CardsLaidDown, CardsCrash DEF Next, Step
<1> QED
  BY <1>2, <1>3

\* Every unanswered card of a chat beyond the first is due to a crash, to a lost
\* response or to a row that was taken over while its owner was still sending it.
THEOREM SecondCards == Spec => []SecondCardsExplained
<1>1. Inv /\ [Next]_vars => Inv' /\ TypeOK'
  BY TypeOKStep, RestStep DEF Inv, Rest
<1>2. Inv /\ CardsInv => SecondCardsExplained
  <2> SUFFICES ASSUME Inv, NEW c \in Chats, CardsCounted(c)
               PROVE  Cardinality(Unanswered(c)) <= 1 + faults + overlaps
    BY DEF CardsInv, SecondCardsExplained
  <2>1. /\ Cardinality(Unanswered(c)) \in Nat /\ Cardinality(Debtors(c)) \in Nat
        /\ faults \in Nat /\ overlaps \in Nat
    BY CountsKnown DEF Inv
  <2>2. Cardinality(Unanswered(c)) + Cardinality(Debtors(c))
          <= faults + overlaps + (IF Closed(c) THEN 1 ELSE 0)
    BY DEF CardsCounted
  <2> QED
    BY <2>1, <2>2
<1> QED
  BY InvInit, CardsInit, CardsStep, <1>1, <1>2, PTL DEF Spec

\* "The claim is taken before the send so two processes cannot both build a card for
\* the same chat" holds until a claim is taken over from an owner that is still sending:
\* what run feedback_overlap shows is the only way to break it.
THEOREM OneCardAlone == Spec => [](overlaps = 0 => OneUnansweredCard)
<1>1. TypeOK /\ SecondCardsExplained => (overlaps = 0 => OneUnansweredCard)
  BY DEF TypeOK, SecondCardsExplained, OneUnansweredCard
<1> QED
  BY <1>1, TypeCorrect, SecondCards, PTL
=============================================================================
