---------------------------- MODULE FeedbackLoop ----------------------------
(***************************************************************************)
(* The admin review loop: newsbot/feedback.py over archive/feedback.py.    *)
(*                                                                         *)
(* Two kinds of process drive it.  The fetch job walks every review chat   *)
(* at the end of a pass (advance_all); a webhook handler applies a button  *)
(* press or a /next and then advances the chat it came from.  Nothing but  *)
(* the rows of feedback_reviews coordinates them, and every Telegram call  *)
(* is an await: all the database statements of one advance() are steps of  *)
(* their own here, interleaved with those of every other process.          *)
(*                                                                         *)
(* An item's number is its place in first_seen order, which is also the    *)
(* order of queued_utc (a topped-up row is backdated to first_seen_utc).   *)
(* Duplicates are never queued nor drawn, so they are not items here.      *)
(***************************************************************************)
EXTENDS Naturals, FiniteSets, FiniteSetsExt

CONSTANTS
  NumItems,  \* how many items the archive may come to hold
  Sources,   \* the feeds
  SourceOf,  \* SourceOf[i]: the feed of item i
  ChatOf,    \* ChatOf[s]: the review chat feed s is configured with
  Specs,     \* the spec versions in use: [Sources -> Presence]
  FetchJob,  \* the fetch job; the advisory lock lets one run at a time
  Handlers,  \* webhook requests that can be in flight together
  Verdicts,  \* "approved", "rejected"
  Unsendable,\* items whose card Telegram refuses for good: too long, malformed
  None,      \* no item, no chat, no verdict
  MaxFaults  \* bound on crashes, refused sends and lost responses

Items == 1..NumItems
Presence == {"gone", "plain", "review"} \* not in the spec; no review chat; has one
Procs == {FetchJob} \cup Handlers
Chats == {ChatOf[s] : s \in Sources}
Chat == [i \in Items |-> ChatOf[SourceOf[i]]]

ASSUME ItemsAssumption == NumItems \in Nat
ASSUME SourcesAssumption ==
  SourceOf \in [Items -> Sources] /\ DOMAIN ChatOf = Sources
ASSUME SpecsAssumption == Specs \subseteq [Sources -> Presence]
ASSUME ProcsAssumption == FetchJob \notin Handlers
ASSUME NoneAssumption == None \notin Items \cup Chats \cup Verdicts
ASSUME FaultsAssumption == MaxFaults \in Nat

VARIABLES
  archived,  \* items stored so far
  row,       \* row[i]: "none" or the review_state of i's row
  label,     \* label[i]: the column "approved", None while undecided
  msg,       \* msg[i]: the column message_id, 0 for NULL
  sent,      \* sent[i]: how many cards for i reached its chat; the n-th is card n
  marks,     \* marks[i]: the <<n, v>> such that card n was stamped with verdict v
  pc,        \* where each process is
  ctx,       \* ctx[p]: what p holds in local variables
  todo,      \* chats the fetch job has yet to visit in this pass
  faults,    \* faults so far
  overlaps   \* claims in another process's hands that were taken for orphans, if they can be sent

cards == <<sent, marks>>
history == <<faults, overlaps>>
vars == <<archived, row, label, msg, cards, pc, ctx, todo, history>>

PCs == {"idle", "pass", "orphan", "drop", "select", "claim", "topup", "insert",
        "send", "attach", "release", "stamp"}

\* What a process holds: the spec it loaded, the chat it is advancing, the row
\* and the message id it read, the verdict it is about to stamp, and whether
\* this advance() has already drawn from the archive.
Context == [spec : [Sources -> Presence], chat : Chats \cup {None},
            item : Items \cup {None}, card : Nat,
            verdict : Verdicts \cup {None}, topped : BOOLEAN]

TypeOK ==
  /\ archived \subseteq Items
  /\ row \in [Items -> {"none", "queued", "pending", "decided"}]
  /\ label \in [Items -> Verdicts \cup {None}]
  /\ msg \in [Items -> Nat]
  /\ sent \in [Items -> Nat]
  /\ marks \in [Items -> SUBSET (Nat \X Verdicts)]
  /\ pc \in [Procs -> PCs]
  /\ ctx \in [Procs -> Context]
  /\ todo \subseteq Chats
  /\ faults \in 0..MaxFaults
  /\ overlaps \in Nat

\* FeedbackBot.chat_ids, and the rows each statement selects.
ReviewChats(s) == {ChatOf[f] : f \in {g \in Sources : s[g] = "review"}}
Pending(c) == {i \in Items : Chat[i] = c /\ row[i] = "pending"}
\* Variant: the message_id IS NULL condition is missing.
OrphansShowing(c) == Pending(c)
Orphans(c) == {i \in Pending(c) : msg[i] = 0}
Locked == {ctx[p].item : p \in {q \in Procs : pc[q] = "claim"}}
Claimable(c, s) ==
  {i \in Items : Chat[i] = c /\ row[i] = "queued" /\ s[SourceOf[i]] # "gone"} \ Locked
\* Variant: only items newer than everything reviewed so far are drawn.
UnreviewedNewer(c, s) ==
  {i \in archived : /\ Chat[i] = c /\ row[i] = "none" /\ s[SourceOf[i]] = "review"
                    /\ \A j \in Items : row[j] # "none" => j < i}
Unreviewed(c, s) ==
  {i \in archived : Chat[i] = c /\ row[i] = "none" /\ s[SourceOf[i]] = "review"}

NoSpec == [f \in Sources |-> "gone"]
Advancing(s, c) == [spec |-> s, chat |-> c, item |-> None, card |-> 0,
                    verdict |-> None, topped |-> FALSE]
Nothing == Advancing(NoSpec, None)

Init ==
  /\ archived \in {{j \in Items : j <= k} : k \in {0} \cup Items}
  /\ row = [i \in Items |-> "none"]
  /\ label = [i \in Items |-> None]
  /\ msg = [i \in Items |-> 0]
  /\ sent = [i \in Items |-> 0]
  /\ marks = [i \in Items |-> {}]
  /\ pc = [p \in Procs |-> "idle"]
  /\ ctx = [p \in Procs |-> Nothing]
  /\ todo = {}
  /\ faults = 0
  /\ overlaps = 0

-----------------------------------------------------------------------------
(* Control flow shared by the actions.                                     *)

Goto(p, l) == pc' = [pc EXCEPT ![p] = l]

\* advance() of one chat returns: the fetch job goes on with its pass, a
\* handler is done with its update.
Leave(p) ==
  IF p = FetchJob
    THEN /\ Goto(p, "pass")
         /\ ctx' = [ctx EXCEPT ![p] = Advancing(@.spec, None)]
    ELSE /\ Goto(p, "idle")
         /\ ctx' = [ctx EXCEPT ![p] = Nothing]

\* An exception that no statement of advance() handles, or the end of the
\* process: feedback_phase gives up the whole pass, the webhook answers 200.
Abandon(p) ==
  /\ Goto(p, "idle")
  /\ ctx' = [ctx EXCEPT ![p] = Nothing]
  /\ todo' = IF p = FetchJob THEN {} ELSE todo

Fault ==
  /\ faults < MaxFaults
  /\ faults' = faults + 1
  /\ UNCHANGED overlaps

-----------------------------------------------------------------------------
(* What starts a process.                                                  *)

\* The ingest half of a pass stores the next item and, when the spec gives its
\* source a review chat, queues it in the same transaction.
Archive(i) ==
  /\ pc[FetchJob] = "idle"
  /\ i \notin archived
  /\ {j \in Items : j < i} \subseteq archived
  /\ archived' = archived \cup {i}
  /\ \E s \in Specs :
       /\ s[SourceOf[i]] # "gone"
       /\ row' = [row EXCEPT ![i] = IF s[SourceOf[i]] = "review" THEN "queued" ELSE @]
  /\ UNCHANGED <<label, msg, cards, pc, ctx, todo, history>>

\* feedback_phase: the job works through the chats of the spec it loaded.
StartPass ==
  /\ pc[FetchJob] = "idle"
  /\ \E s \in Specs :
       /\ ReviewChats(s) # {}
       /\ ctx' = [ctx EXCEPT ![FetchJob] = Advancing(s, None)]
       /\ todo' = ReviewChats(s)
  /\ Goto(FetchJob, "pass")
  /\ UNCHANGED <<archived, row, label, msg, cards, history>>

NextChat ==
  /\ pc[FetchJob] = "pass"
  /\ \E c \in todo :
       /\ todo' = todo \ {c}
       /\ ctx' = [ctx EXCEPT ![FetchJob].chat = c]
  /\ Goto(FetchJob, "orphan")
  /\ UNCHANGED <<archived, row, label, msg, cards, history>>

EndPass ==
  /\ pc[FetchJob] = "pass"
  /\ todo = {}
  /\ Goto(FetchJob, "idle")
  /\ ctx' = [ctx EXCEPT ![FetchJob] = Nothing]
  /\ UNCHANGED <<archived, row, label, msg, cards, todo, history>>

\* Variant: the deciding UPDATE lacks its state condition.
PressAnswered(h, i, v) ==
  /\ pc[h] = "idle"
  /\ row[i] \in {"pending", "decided"} /\ sent[i] > 0
  /\ row' = [row EXCEPT ![i] = "decided"]
  /\ label' = [label EXCEPT ![i] = v]
  /\ \E s \in Specs :
       ctx' = [ctx EXCEPT ![h] = [Advancing(s, Chat[i]) EXCEPT
                 !.item = i, !.card = msg[i], !.verdict = v]]
  /\ Goto(h, "stamp")
  /\ UNCHANGED <<archived, msg, cards, todo, history>>

\* handle_callback up to the stamp.  The press may come from any card of i that
\* ever reached the chat, late or repeated; a press that decides nothing is
\* answered "already" or "stale" and changes no state.
Press(h, i, v) ==
  /\ pc[h] = "idle"
  /\ sent[i] > 0
  /\ row[i] = "pending"
  /\ row' = [row EXCEPT ![i] = "decided"]
  /\ label' = [label EXCEPT ![i] = v]
  /\ \E s \in Specs :
       /\ Chat[i] \in ReviewChats(s)
       /\ ctx' = [ctx EXCEPT ![h] = [Advancing(s, Chat[i]) EXCEPT
                     !.item = i, !.card = msg[i], !.verdict = v]]
  /\ Goto(h, "stamp")
  /\ UNCHANGED <<archived, msg, cards, todo, history>>

\* _stamp_card: the card whose id the deciding UPDATE returned loses its
\* buttons and shows the verdict, unless Telegram refuses the edit.  A row
\* without message id, or of a source that left the spec, is not stamped.
Stamp(h) ==
  /\ pc[h] = "stamp"
  /\ LET c == ctx[h] IN
       \/ /\ c.card # 0
          /\ c.spec[SourceOf[c.item]] # "gone"
          /\ marks' = [marks EXCEPT ![c.item] = @ \cup {<<c.card, c.verdict>>}]
       \/ UNCHANGED marks
  /\ ctx' = [ctx EXCEPT ![h] = Advancing(@.spec, @.chat)]
  /\ Goto(h, "orphan")
  /\ UNCHANGED <<archived, row, label, msg, sent, todo, history>>

\* /next: refused while a card is up, otherwise the chat is advanced.
NextCommand(h, c) ==
  /\ pc[h] = "idle"
  /\ Pending(c) = {}
  /\ \E s \in Specs :
       /\ c \in ReviewChats(s)
       /\ ctx' = [ctx EXCEPT ![h] = Advancing(s, c)]
  /\ Goto(h, "orphan")
  /\ UNCHANGED <<archived, row, label, msg, cards, todo, history>>

-----------------------------------------------------------------------------
(* advance(): one action for each statement it runs.                       *)

\* orphaned_claim: a pending row without message id is taken over for a resend,
\* or let go when its source has left the spec.
FindOrphan(p) ==
  /\ pc[p] = "orphan"
  /\ LET c == ctx[p] IN
       \/ /\ Orphans(c.chat) = {}
          /\ Goto(p, "select")
          /\ UNCHANGED <<ctx, overlaps>>
       \/ \E i \in Orphans(c.chat) :
            /\ ctx' = [ctx EXCEPT ![p].item = i]
            /\ Goto(p, IF c.spec[SourceOf[i]] = "gone" THEN "drop" ELSE "send")
            /\ overlaps' = overlaps +
                 (IF /\ i \notin Unsendable
                     /\ \E q \in Procs \ {p} : ctx[q].item = i /\ pc[q] # "insert" THEN 1 ELSE 0)
  /\ UNCHANGED <<archived, row, label, msg, cards, todo, faults>>

\* release_claim of an orphan whose source is gone; the queue is read next.
DropGone(p) ==
  /\ pc[p] = "drop"
  /\ row' = [row EXCEPT ![ctx[p].item] = IF @ = "pending" THEN "queued" ELSE @]
  /\ ctx' = [ctx EXCEPT ![p].item = None]
  /\ Goto(p, "select")
  /\ UNCHANGED <<archived, label, msg, cards, todo, history>>

\* The snapshot and the row lock of claim_next: FIFO, SKIP LOCKED, and NOT
\* EXISTS of a pending row.  With nothing to claim, the archive is tried once.
SelectNext(p) ==
  /\ pc[p] = "select"
  /\ LET c == ctx[p]
         ready == IF Pending(c.chat) = {} THEN Claimable(c.chat, c.spec) ELSE {} IN
       \/ /\ ready # {}
          /\ ctx' = [ctx EXCEPT ![p].item = Min(ready)]
          /\ Goto(p, "claim")
       \/ /\ ready = {} /\ ~c.topped
          /\ Goto(p, "topup")
          /\ UNCHANGED ctx
       \/ /\ ready = {} /\ c.topped
          /\ Leave(p)
  /\ UNCHANGED <<archived, row, label, msg, cards, todo, history>>

\* Variant: no unique index behind the NOT EXISTS.
CommitClaimNoIndex(p) ==
  /\ pc[p] = "claim"
  /\ row' = [row EXCEPT ![ctx[p].item] = "pending"]
  /\ Goto(p, "send")
  /\ UNCHANGED <<archived, label, msg, cards, ctx, todo, history>>

\* The write of claim_next commits, unless another claim for the chat got in
\* since the snapshot: then the partial unique index raises.
CommitClaim(p) ==
  /\ pc[p] = "claim"
  /\ LET i == ctx[p].item IN
       \/ /\ Pending(Chat[i]) = {}
          /\ row' = [row EXCEPT ![i] = "pending"]
          /\ Goto(p, "send")
          /\ UNCHANGED <<ctx, todo>>
       \/ /\ Pending(Chat[i]) # {}
          /\ Abandon(p)
          /\ UNCHANGED row
  /\ UNCHANGED <<archived, label, msg, cards, history>>

\* top_up with a batch of one: its snapshot has the newest archived item of the
\* chat's sources that has no row yet.
TopUp(p) ==
  /\ pc[p] = "topup"
  /\ LET pool == Unreviewed(ctx[p].chat, ctx[p].spec) IN
       \/ /\ pool = {}
          /\ Leave(p)
       \/ /\ pool # {}
          /\ ctx' = [ctx EXCEPT ![p].item = Max(pool)]
          /\ Goto(p, "insert")
  /\ UNCHANGED <<archived, row, label, msg, cards, todo, history>>

\* Its row is inserted, unless another process inserted one since the snapshot:
\* ON CONFLICT leaves that alone, and the archive counts as exhausted.
InsertRow(p) ==
  /\ pc[p] = "insert"
  /\ LET i == ctx[p].item IN
       \/ /\ row[i] = "none"
          /\ row' = [row EXCEPT ![i] = "queued"]
          /\ ctx' = [ctx EXCEPT ![p] = [@ EXCEPT !.item = None, !.topped = TRUE]]
          /\ Goto(p, "select")
       \/ /\ row[i] # "none"
          /\ Leave(p)
          /\ UNCHANGED row
  /\ UNCHANGED <<archived, label, msg, cards, todo, history>>

\* Variant: the error of the send is ignored and an id attached all the same.
SendCardUnchecked(p) ==
  /\ pc[p] = "send"
  /\ LET i == ctx[p].item IN
       /\ ctx' = [ctx EXCEPT ![p].card = sent[i] + 1]
       /\ \/ sent' = [sent EXCEPT ![i] = @ + 1] /\ UNCHANGED history
          \/ Fault /\ UNCHANGED sent
  /\ Goto(p, "attach")
  /\ UNCHANGED <<archived, row, label, msg, marks, todo>>

\* sendMessage: the card reaches the chat and its id comes back; or the card
\* reaches the chat and the response is lost; or it never leaves; or Telegram
\* refuses it, now as ever.
SendCard(p) ==
  /\ pc[p] = "send"
  /\ LET i == ctx[p].item IN
       \/ /\ i \notin Unsendable
          /\ sent' = [sent EXCEPT ![i] = @ + 1]
          /\ ctx' = [ctx EXCEPT ![p].card = sent'[i]]
          /\ Goto(p, "attach")
          /\ UNCHANGED history
       \/ /\ i \notin Unsendable
          /\ Fault
          /\ sent' \in {sent, [sent EXCEPT ![i] = @ + 1]}
          /\ Goto(p, "release")
          /\ UNCHANGED ctx
       \/ /\ i \in Unsendable
          /\ Goto(p, "release")
          /\ UNCHANGED <<sent, ctx, history>>
  /\ UNCHANGED <<archived, row, label, msg, marks, todo>>

\* attach_message writes the id whatever the row's state is by now.
AttachMessage(p) ==
  /\ pc[p] = "attach"
  /\ msg' = [msg EXCEPT ![ctx[p].item] = ctx[p].card]
  /\ Leave(p)
  /\ UNCHANGED <<archived, row, label, cards, todo, history>>

\* Variants: a state outside review_state; the state condition is missing.
ReleaseClaimUnknown(p) ==
  /\ pc[p] = "release"
  /\ row' = [row EXCEPT ![ctx[p].item] = "released"]
  /\ Leave(p)
  /\ UNCHANGED <<archived, label, msg, cards, todo, history>>
ReleaseClaimAnyState(p) ==
  /\ pc[p] = "release"
  /\ row' = [row EXCEPT ![ctx[p].item] = "queued"]
  /\ Leave(p)
  /\ UNCHANGED <<archived, label, msg, cards, todo, history>>

\* release_claim after a failed send; message_id keeps what it held.
ReleaseClaim(p) ==
  /\ pc[p] = "release"
  /\ row' = [row EXCEPT ![ctx[p].item] = IF @ = "pending" THEN "queued" ELSE @]
  /\ Leave(p)
  /\ UNCHANGED <<archived, label, msg, cards, todo, history>>

\* The replica dies between two statements; an open statement rolls back.
Crash(p) ==
  /\ pc[p] # "idle"
  /\ Fault
  /\ Abandon(p)
  /\ UNCHANGED <<archived, row, label, msg, cards>>

-----------------------------------------------------------------------------
Step(p) ==
  \/ FindOrphan(p) \/ DropGone(p) \/ SelectNext(p) \/ CommitClaim(p) \/ TopUp(p) \/ InsertRow(p)
  \/ SendCard(p) \/ AttachMessage(p) \/ ReleaseClaim(p)

Next ==
  \/ \E i \in Items : Archive(i)
  \/ StartPass \/ NextChat \/ EndPass
  \/ \E h \in Handlers :
       \/ \E i \in Items, v \in Verdicts : Press(h, i, v)
       \/ \E c \in Chats : NextCommand(h, c)
       \/ Stamp(h)
  \/ \E p \in Procs : Step(p) \/ Crash(p)

Spec == Init /\ [][Next]_vars

\* A killed job starts again at the next tick of its schedule, a handler runs
\* to its end unless it dies, the chat is visited, and operators answer what
\* they see.  A press is a request of its own and waits for no other, so the
\* bound on Handlers must not starve it: strong fairness.
Fairness ==
  /\ WF_vars(StartPass) /\ WF_vars(NextChat) /\ WF_vars(EndPass)
  /\ \A p \in Procs : WF_vars(Step(p))
  /\ \A h \in Handlers : WF_vars(Stamp(h))
  /\ \A i \in Items : SF_vars(\E h \in Handlers, v \in Verdicts : Press(h, i, v))

FairSpec == Spec /\ Fairness

-----------------------------------------------------------------------------
(* Safety.                                                                 *)

\* However the claims of the job and of the webhook interleave, a chat never
\* has two rows in state pending (migration 0004's index, claim_next).
OnePendingPerChat ==
  \A i, j \in Items :
    (row[i] = "pending" /\ row[j] = "pending" /\ Chat[i] = Chat[j]) => i = j

\* The chat reads as a true log: a card stamped with a verdict is a card of an
\* item whose stored label is that verdict, however many operators pressed and
\* whichever handler stamped last (_stamp_card, decide).
StampsTellTheLabel ==
  \A i \in Items : \A m \in marks[i] :
    m[1] \in 1..sent[i] /\ row[i] = "decided" /\ label[i] = m[2]

\* A chat is never blocked for good: a pending row that orphaned_claim cannot
\* find (it has a message id) has a card in the chat that was not stamped, so
\* an operator can still answer it.
BlockingRowIsReachable ==
  \A i \in Items :
    (row[i] = "pending" /\ msg[i] # 0) => (sent[i] > 0 /\ marks[i] = {})

\* Unanswered cards of a chat: cards of rows nobody decided yet.
Unanswered(c) ==
  UNION {{i} \X (1..sent[i]) : i \in {j \in Items : Chat[j] = c /\ row[j] # "decided"}}

\* Every unanswered card beyond the first is accounted for by a crash, a lost
\* response or a claim resent while its owner was still sending it: nothing
\* else in the loop puts a second card in front of an operator.
SecondCardsExplained ==
  \A c \in Chats : Cardinality(Unanswered(c)) <= 1 + faults + overlaps

\* The claim that "the claim is taken before the send so two processes cannot
\* both build a card for the same chat" (archive/feedback.py): without any
\* fault, one unanswered card at a time.
OneUnansweredCard ==
  faults = 0 => \A c \in Chats : Cardinality(Unanswered(c)) <= 1

\* The rows alone behave as the abstract queue: no step of any process skips a
\* state, reopens a decided row or rewrites a label.
Queue == INSTANCE ReviewQueue WITH Chat <- Chat, NoLabel <- None
ImplementsQueue == Queue!Spec

-----------------------------------------------------------------------------
(* Liveness, under FairSpec.                                               *)

\* A card that Telegram refuses for good is in the line of the chat of i: released, it is at the head of
\* the FIFO again, and the archive is drawn upon only when the line is empty.
Blocked(i) == \E j \in Unsendable : Chat[j] = Chat[i] /\ row[j] \in {"queued", "pending"}

\* Every archived item of a reviewed feed reaches a human and gets its label: the queue moves past
\* released and half-sent claims, and feeds itself with what was never queued.  Nothing else than a card
\* that is refused for good can stand in its way.
ArchiveIsReviewed == \A i \in Items : (i \in archived) ~> (row[i] = "decided" \/ Blocked(i))
=============================================================================
