--------------------------- MODULE PostingProofs ---------------------------
(***************************************************************************)
(* Proofs about Posting, for every set of items, feeds, spec versions and  *)
(* jobs, every policy and cap, and every number of crashes.                *)
(*                                                                         *)
(* The delivery guarantees rest on the advisory lock, so those theorems    *)
(* assume that every process is a job (Loops = {}).  The heart of the      *)
(* invariant is NothingStale: what a job read at the start of its phase    *)
(* and has yet to handle is still postable, because nobody else was let in *)
(* and what the job itself handled left its batch first.                   *)
(***************************************************************************)
EXTENDS Posting, NumberLemmas, FiniteSetTheorems, TLAPS

-----------------------------------------------------------------------------
(* Type correctness; it needs no lock.                                     *)

\* What an idle process holds is a context, and so is every spec it may load.
LEMMA ContextTypes ==
  /\ Nothing \in Context
  /\ \A s \in Specs : s \in [enabled : BOOLEAN, bound : SUBSET Sources]
<1>1. Nothing \in Context
  BY DEF Nothing, Context, Statuses
<1> QED
  BY <1>1, SourcesAssumption

\* The ways in which a step changes what a process holds keep it a context.
LEMMA ContextStep ==
  ASSUME ctx \in [Procs -> Context], NEW p \in Procs,
         \/ UNCHANGED ctx
         \/ \E s \in Specs : ctx' = [ctx EXCEPT ![p].spec = s]
         \/ \E B, F \in SUBSET Items : ctx' = [ctx EXCEPT ![p].batch = B, ![p].fresh = F]
         \/ \E B \in SUBSET Items : ctx' = [ctx EXCEPT ![p].batch = B]
         \/ \E B \in SUBSET Items, i \in Items, r \in Statuses :
              ctx' = [ctx EXCEPT ![p].batch = B, ![p].item = i, ![p].result = r]
         \/ \E r \in Statuses : ctx' = [ctx EXCEPT ![p].result = r]
         \/ ctx' = [ctx EXCEPT ![p].item = None, ![p].result = "none"]
         \/ ctx' = [ctx EXCEPT ![p] = Nothing]
  PROVE  ctx' \in [Procs -> Context]
<1>1. ctx[p] \in Context
  OBVIOUS
<1>2. ASSUME NEW c \in Context, ctx' = [ctx EXCEPT ![p] = c]
      PROVE  ctx' \in [Procs -> Context]
  BY <1>2
<1>3. CASE \E s \in Specs : ctx' = [ctx EXCEPT ![p].spec = s]
  <2>1. PICK s \in Specs : ctx' = [ctx EXCEPT ![p] = [ctx[p] EXCEPT !.spec = s]]
    BY <1>3
  <2>2. [ctx[p] EXCEPT !.spec = s] \in Context
    BY <1>1, ContextTypes DEF Context
  <2> QED
    BY <1>2, <2>1, <2>2
<1>4. CASE \E B, F \in SUBSET Items : ctx' = [ctx EXCEPT ![p].batch = B, ![p].fresh = F]
  <2>1. PICK B, F \in SUBSET Items : ctx' = [ctx EXCEPT ![p].batch = B, ![p].fresh = F]
    BY <1>4
  <2>2. [ctx[p] EXCEPT !.batch = B, !.fresh = F] \in Context
    BY <1>1 DEF Context
  <2> QED
    BY <1>2, <2>1, <2>2
<1>5. CASE \E B \in SUBSET Items : ctx' = [ctx EXCEPT ![p].batch = B]
  <2>1. PICK B \in SUBSET Items : ctx' = [ctx EXCEPT ![p].batch = B]
    BY <1>5
  <2>2. [ctx[p] EXCEPT !.batch = B] \in Context
    BY <1>1 DEF Context
  <2> QED
    BY <1>2, <2>1, <2>2
<1>6. CASE \E B \in SUBSET Items, i \in Items, r \in Statuses :
             ctx' = [ctx EXCEPT ![p].batch = B, ![p].item = i, ![p].result = r]
  <2>1. PICK B \in SUBSET Items, i \in Items, r \in Statuses :
          ctx' = [ctx EXCEPT ![p].batch = B, ![p].item = i, ![p].result = r]
    BY <1>6
  <2>2. [ctx[p] EXCEPT !.batch = B, !.item = i, !.result = r] \in Context
    BY <1>1 DEF Context
  <2> QED
    BY <1>2, <2>1, <2>2
<1>7. CASE \E r \in Statuses : ctx' = [ctx EXCEPT ![p].result = r]
  <2>1. PICK r \in Statuses : ctx' = [ctx EXCEPT ![p].result = r]
    BY <1>7
  <2>2. [ctx[p] EXCEPT !.result = r] \in Context
    BY <1>1 DEF Context
  <2> QED
    BY <1>2, <2>1, <2>2
<1>8. CASE ctx' = [ctx EXCEPT ![p].item = None, ![p].result = "none"]
  <2>1. [ctx[p] EXCEPT !.item = None, !.result = "none"] \in Context
    BY <1>1 DEF Context, Statuses
  <2> QED
    BY <1>2, <1>8, <2>1
<1> QED
  BY <1>2, <1>3, <1>4, <1>5, <1>6, <1>7, <1>8, ContextTypes

\* The initial states are well typed.
LEMMA TypeOKInit == Init => TypeOK
BY ContextTypes, SettingsAssumption
   DEF Init, TypeOK, Decisions, Statuses, PCs

\* The row whose turn it is belongs to the batch.
LEMMA MinOfBatch ==
  ASSUME NEW B \in SUBSET Items, B # {}
  PROVE  Min(B) \in B /\ Min(B) \in Items
<1>1. B \in SUBSET Nat
  BY ItemsAssumption
<1> QED
  BY <1>1, MinExists

\* The selection posts and drops nothing but what it was given.
LEMMA SelectionTypes ==
  ASSUME NEW S \in SUBSET Items
  PROVE  /\ ToPost(S) \in SUBSET S
         /\ Dropped(S) \in SUBSET S
         /\ ToPost(S) \cap Dropped(S) = {}
BY DEF ToPost, Dropped, Newest, Oldest

\* Every step keeps the state well typed.
LEMMA TypeOKStep == TypeOK /\ [Next]_vars => TypeOK'
<1> SUFFICES ASSUME TypeOK, [Next]_vars PROVE TypeOK'
  OBVIOUS
<1> USE DEF PCs, Goto, world, chatlog
<1>0. \A p \in Procs : /\ ctx[p].batch \in SUBSET Items /\ ctx[p].fresh \in SUBSET Items
                       /\ ctx[p].result \in Statuses
  BY DEF TypeOK, Context
<1>1. ASSUME NEW p \in Procs, StartJob(p) PROVE TypeOK'
  <2>1. ctx' \in [Procs -> Context]
    BY <1>1, ContextStep DEF StartJob, TypeOK
  <2> QED
    BY <1>1, <2>1 DEF StartJob, TypeOK
<1>2. ASSUME NEW p \in Procs, StartLoop(p) PROVE TypeOK'
  <2>1. ctx' \in [Procs -> Context]
    BY <1>2, ContextStep DEF StartLoop, TypeOK
  <2> QED
    BY <1>2, <2>1 DEF StartLoop, TypeOK
<1>3. ASSUME NEW p \in Procs, NEW i \in Items, Ingest(p, i) PROVE TypeOK'
  BY <1>3 DEF Ingest, Mark, Decisions, TypeOK
<1>4. ASSUME NEW p \in Procs, ReadBacklog(p) PROVE TypeOK'
  <2>1. Backlog \cap aged \in SUBSET Items /\ Backlog \ aged \in SUBSET Items
    BY DEF Backlog
  <2>2. ctx' \in [Procs -> Context]
    <3>1. ctx \in [Procs -> Context]
      BY DEF TypeOK
    <3>2. \/ UNCHANGED ctx
          \/ ctx' = [ctx EXCEPT ![p].batch = Backlog \cap aged, ![p].fresh = Backlog \ aged]
      BY <1>4 DEF ReadBacklog
    <3>3. UNCHANGED ctx \/ \E B, F \in SUBSET Items :
                              ctx' = [ctx EXCEPT ![p].batch = B, ![p].fresh = F]
      BY <2>1, <3>2
    <3> QED
      BY <3>1, <3>3, ContextStep
  <2> QED
    BY <1>4, <2>2 DEF ReadBacklog, TypeOK
<1>5. ASSUME NEW p \in Procs, Finish(p) PROVE TypeOK'
  BY <1>5, ContextTypes DEF Finish, TypeOK
<1>6. ASSUME NEW p \in Procs, Abort(p)
      PROVE  /\ crashes' \in 0..MaxCrashes
             /\ lock' \in Jobs \cup {None}
             /\ pc' \in [Procs -> PCs]
             /\ ctx' \in [Procs -> Context]
  BY <1>6, ContextTypes, SettingsAssumption DEF Abort, TypeOK
<1>7. ASSUME NEW p \in Procs, Crash(p) PROVE TypeOK'
  <2>1. astray' \in [Items -> Nat]
    <3>1. \/ UNCHANGED astray
          \/ \E i \in Items \cup {None} : astray' = [astray EXCEPT ![i] = @ + 1]
      BY <1>7 DEF Crash, TypeOK, Context
    <3> QED
      BY <3>1 DEF TypeOK
  <2> QED
    BY <1>6, <1>7, <2>1 DEF Crash, TypeOK
<1>8. ASSUME NEW p \in Procs, SendRaises(p) PROVE TypeOK'
  <2>1. posts' \in [Items -> Nat] /\ astray' \in [Items -> Nat]
    BY <1>8 DEF SendRaises, Unacknowledged, TypeOK
  <2> QED
    BY <1>6, <1>8, <2>1 DEF SendRaises, TypeOK
<1>9. ASSUME NEW p \in Procs, NEW d \in Decisions, NEW i,
             Mark(i, d) /\ Advance(p), UNCHANGED <<status, attempt, world, lock, pc, crashes>>
      PROVE  TypeOK'
  <2>1. ctx' \in [Procs -> Context]
    BY <1>0, <1>9, ContextStep DEF Advance, TypeOK
  <2> QED
    BY <1>9, <2>1 DEF Mark, TypeOK
<1>10. ASSUME NEW p \in Procs, RetireAged(p) PROVE TypeOK'
  BY <1>9, <1>10 DEF RetireAged, Decisions
<1>11. ASSUME NEW p \in Procs, AfterRetire(p) PROVE TypeOK'
  BY <1>11 DEF AfterRetire, TypeOK
<1>12. ASSUME NEW p \in Procs, ClaimSlot(p) PROVE TypeOK'
  <2>1. \E B \in SUBSET Items : ctx' = [ctx EXCEPT ![p].batch = B]
    BY <1>0, <1>12, SelectionTypes DEF ClaimSlot
  <2>2. ctx' \in [Procs -> Context]
    BY <2>1, ContextStep DEF TypeOK
  <2>3. open' \in BOOLEAN
    BY <1>12, SettingsAssumption DEF ClaimSlot, TypeOK
  <2> QED
    BY <1>12, <2>2, <2>3 DEF ClaimSlot, TypeOK
<1>13. ASSUME NEW p \in Procs, Gate(p) PROVE TypeOK'
  <2>1. CASE ctx[p].batch = {}
    BY <1>13, <2>1 DEF Gate, TypeOK
  <2>2. CASE ctx[p].batch # {}
    BY <1>9, <1>13, <2>2 DEF Gate, Decisions
  <2> QED
    BY <2>1, <2>2
<1>14. ASSUME NEW p \in Procs, Drop(p) PROVE TypeOK'
  <2>1. CASE ctx[p].batch = {}
    <3>1. ToPost(ctx[p].fresh) \in SUBSET Items
      BY <1>0, SelectionTypes
    <3>2. ctx' \in [Procs -> Context]
      BY <1>14, <2>1, <3>1, ContextStep DEF Drop, TypeOK
    <3> QED
      BY <1>14, <2>1, <3>2 DEF Drop, TypeOK
  <2>2. CASE ctx[p].batch # {}
    BY <1>9, <1>14, <2>2 DEF Drop, Decisions
  <2> QED
    BY <2>1, <2>2
<1>15. ASSUME NEW p \in Procs, NextPost(p) PROVE TypeOK'
  <2> DEFINE i == Min(ctx[p].batch)
  <2>1. CASE ctx[p].batch = {}
    BY <1>15, <2>1 DEF NextPost, TypeOK
  <2>2. CASE ctx[p].batch # {} /\ SourceOf[i] \notin ctx[p].spec.bound
    BY <1>9, <1>15, <2>2 DEF NextPost, Decisions
  <2>3. CASE ctx[p].batch # {} /\ SourceOf[i] \in ctx[p].spec.bound
    <3>1. i \in Items /\ ctx[p].batch \ {i} \in SUBSET Items
      BY <1>0, <2>3, MinOfBatch
    <3>2. \E r \in Statuses :
            ctx' = [ctx EXCEPT ![p].batch = ctx[p].batch \ {i}, ![p].item = i, ![p].result = r]
      BY <1>15, <2>3 DEF NextPost, Statuses
    <3>3. ctx' \in [Procs -> Context]
      BY <3>1, <3>2, ContextStep DEF TypeOK
    <3>4. pc' \in [Procs -> PCs]
      BY <1>15, <2>3 DEF NextPost, TypeOK
    <3> QED
      BY <1>15, <2>3, <3>3, <3>4 DEF NextPost, TypeOK
  <2> QED
    BY <2>1, <2>2, <2>3
<1>16. ASSUME NEW p \in Procs, NEW l \in PCs, NEW r \in Statuses, Call(p, l, r),
              UNCHANGED <<decision, status, attempt, aged, open, lock, crashes>>
       PROVE  TypeOK'
  <2>1. \E s \in Statuses : ctx' = [ctx EXCEPT ![p].result = s]
    BY <1>16 DEF Call, Statuses
  <2>2. ctx' \in [Procs -> Context]
    BY <2>1, ContextStep DEF TypeOK
  <2>3. posts' \in [Items -> Nat] /\ astray' \in [Items -> Nat]
    BY <1>16 DEF Call, Acknowledged, Unacknowledged, TypeOK
  <2>4. pc' \in [Procs -> PCs]
    BY <1>16 DEF Call, TypeOK
  <2> QED
    BY <1>16, <2>2, <2>3, <2>4 DEF TypeOK
<1>17. ASSUME NEW p \in Procs, SendPhoto(p) \/ SendText(p) PROVE TypeOK'
  BY <1>16, <1>17 DEF SendPhoto, SendText, Statuses
<1>18. ASSUME NEW p \in Procs, Record(p) PROVE TypeOK'
  <2>1. ctx' \in [Procs -> Context]
    BY <1>18, ContextStep DEF Record, TypeOK
  <2>2. /\ status' \in [Items -> Statuses]
        /\ attempt' \in [Items -> Nat]
        /\ decision' \in [Items -> Decisions]
    <3>1. decision' = decision \/ \E i : decision' = [decision EXCEPT ![i] = "routed"]
      BY <1>18 DEF Record, Mark
    <3>2. decision' \in [Items -> Decisions]
      BY <3>1 DEF Decisions, TypeOK
    <3>3. status' \in [Items -> Statuses]
      BY <1>0, <1>18 DEF Record, TypeOK
    <3>4. attempt' \in [Items -> Nat]
      <4>1. attempt \in [Items -> Nat]
        BY DEF TypeOK
      <4>2. PICK i : attempt' = [attempt EXCEPT ![i] = attempt[i] + 1]
        BY <1>18 DEF Record
      <4>3. attempt' = [j \in Items |-> IF j = i THEN attempt[j] + 1 ELSE attempt[j]]
        BY <4>1, <4>2
      <4> QED
        BY <4>1, <4>3
    <3> QED
      BY <3>2, <3>3, <3>4
  <2> QED
    BY <1>18, <2>1, <2>2 DEF Record, TypeOK
<1>19. ASSUME WindowOpens \/ \E i \in CanAge : ItemAges(i) PROVE TypeOK'
  BY <1>19 DEF WindowOpens, ItemAges, TypeOK
<1>20. CASE UNCHANGED vars
  BY <1>20 DEF vars, TypeOK
<1> QED
  BY <1>1, <1>2, <1>3, <1>4, <1>5, <1>7, <1>8, <1>10, <1>11, <1>12, <1>13, <1>14,
     <1>15, <1>17, <1>18, <1>19, <1>20 DEF Next, PostPhase

\* Every state of every behaviour is well typed, with or without the lock.
THEOREM TypeCorrect == Spec => []TypeOK
BY TypeOKInit, TypeOKStep, PTL DEF Spec

-----------------------------------------------------------------------------
(* The invariant of the locked pass.                                       *)

\* The advisory lock: only its holder is anywhere in a pass.
LockIsExclusive == \A p \in Procs : pc[p] # "idle" => lock = p

\* Whatever the job has read and not handled yet is still postable.
NothingStale ==
  \A p \in Procs :
    /\ pc[p] \in {"retire", "gate", "drop", "next", "photo", "text", "record"} =>
         ctx[p].batch \subseteq Backlog
    /\ pc[p] \in {"retire", "slot"} => ctx[p].fresh \subseteq Backlog
    /\ pc[p] = "retire" => ctx[p].batch \cap ctx[p].fresh = {}
    /\ pc[p] = "drop" => /\ ToPost(ctx[p].fresh) \subseteq Backlog
                         /\ ctx[p].batch \cap ToPost(ctx[p].fresh) = {}

\* The post on its way is postable too, and no longer in the batch; a process
\* that records has an outcome.
InHand ==
  \A p \in Procs :
    /\ pc[p] \in {"photo", "text", "record"} => ctx[p].item \in Backlog \ ctx[p].batch
    /\ pc[p] = "record" => ctx[p].result \in {"sent", "failed", "skipped"}

\* An item without a delivery row has no attempts behind it.
FirstAttempt == \A i \in Items : status[i] = "none" => attempt[i] = 0

Inv ==
  /\ TypeOK
  /\ LockIsExclusive
  /\ NothingStale
  /\ InHand
  /\ FirstAttempt
  /\ DeliveredReadsRouted
  /\ RetriesBounded

\* The initial states satisfy the invariant.
LEMMA InvInit == Init => Inv
<1> SUFFICES ASSUME Init PROVE Inv
  OBVIOUS
<1>1. TypeOK
  BY TypeOKInit
<1> QED
  BY <1>1, SettingsAssumption DEF Init, Inv, LockIsExclusive, NothingStale, InHand, FirstAttempt,
     DeliveredReadsRouted, RetriesBounded

\* What a step of the job p can do to the records of the other items: an item
\* outside what p touches keeps its place in the backlog.
LEMMA BacklogFrame ==
  ASSUME NEW i, \A j \in Items \ {i} : /\ decision'[j] = decision[j]
                                       /\ status'[j] = status[j]
                                       /\ attempt'[j] = attempt[j]
  PROVE  \A j \in Items \ {i} : j \in Backlog <=> j \in Backlog'
BY DEF Backlog

\* Under the lock every step keeps the invariant: one case for each action.
LEMMA InvStep == Loops = {} /\ Inv /\ TypeOK' /\ [Next]_vars => Inv'
<1> SUFFICES ASSUME Loops = {}, Inv, TypeOK', [Next]_vars PROVE Inv'
  OBVIOUS
<1> USE DEF Goto, world, chatlog
<1>0. TypeOK /\ Procs = Jobs /\ None \notin Procs
  BY NoneAssumption DEF Inv, Procs
<1>c. ASSUME NEW p \in Procs PROVE ctx[p] \in Context
  BY <1>0 DEF TypeOK
<1>a. ASSUME NEW p \in Procs, pc[p] # "idle"
      PROVE  lock = p /\ \A q \in Procs \ {p} : pc[q] = "idle"
  BY <1>0, <1>a DEF Inv, LockIsExclusive
<1>1. ASSUME NEW p \in Procs, StartJob(p) PROVE Inv'
  <2>1. \A q \in Procs : pc[q] = "idle"
    BY <1>0, <1>1 DEF StartJob, Inv, LockIsExclusive
  <2>2. \A q \in Procs : pc'[q] = IF q = p THEN "fetch" ELSE "idle"
    BY <1>0, <1>1, <2>1 DEF StartJob, TypeOK
  <2>3. LockIsExclusive' /\ NothingStale' /\ InHand'
    BY <1>1, <2>2 DEF StartJob, LockIsExclusive, NothingStale, InHand
  <2> QED
    BY <1>1, <2>3 DEF StartJob, Inv, FirstAttempt, DeliveredReadsRouted, RetriesBounded
<1>2. ASSUME NEW p \in Procs, StartLoop(p) PROVE Inv'
  BY <1>2 DEF StartLoop
<1>3. ASSUME NEW p \in Procs, NEW i \in Items, Ingest(p, i) PROVE Inv'
  <2>1. pc[p] = "fetch" /\ \A q \in Procs \ {p} : pc[q] = "idle"
    BY <1>3, <1>a DEF Ingest
  <2>2. NothingStale' /\ InHand' /\ LockIsExclusive'
    BY <1>3, <2>1 DEF Ingest, NothingStale, InHand, LockIsExclusive, Inv
  <2>3. DeliveredReadsRouted'
    BY <1>3 DEF Ingest, Mark, Inv, DeliveredReadsRouted, TypeOK
  <2> QED
    BY <1>3, <2>2, <2>3 DEF Ingest, Inv, FirstAttempt, RetriesBounded
<1>4. ASSUME NEW p \in Procs, ReadBacklog(p) PROVE Inv'
  <2>1. pc[p] = "fetch" /\ lock = p /\ \A q \in Procs \ {p} : pc[q] = "idle"
    BY <1>4, <1>a DEF ReadBacklog
  <2>2. \A q \in Procs \ {p} : pc'[q] = "idle"
    BY <1>0, <1>4, <2>1 DEF ReadBacklog, TypeOK
  <2>3. CASE ctx[p].spec.enabled
    <3>1. pc'[p] = "retire" /\ ctx'[p].batch = Backlog \cap aged /\ ctx'[p].fresh = Backlog \ aged
      BY <1>0, <1>4, <1>c, <2>3 DEF ReadBacklog, TypeOK, Context
    <3> QED
      BY <1>4, <2>1, <2>2, <3>1 DEF ReadBacklog, NothingStale, InHand, LockIsExclusive, Inv, Backlog,
         FirstAttempt, DeliveredReadsRouted, RetriesBounded
  <2>4. CASE ~ctx[p].spec.enabled
    <3>1. pc'[p] = "done"
      BY <1>0, <1>4, <2>4 DEF ReadBacklog, TypeOK
    <3> QED
      BY <1>4, <2>1, <2>2, <3>1 DEF ReadBacklog, NothingStale, InHand, LockIsExclusive, Inv,
         FirstAttempt, DeliveredReadsRouted, RetriesBounded
  <2> QED
    BY <2>3, <2>4
<1>5. ASSUME NEW p \in Procs, pc[p] # "idle", pc' = [pc EXCEPT ![p] = "idle"],
             UNCHANGED <<decision, status, attempt>>
      PROVE  Inv'
  <2>1. \A q \in Procs : pc'[q] = "idle"
    BY <1>0, <1>5, <1>a DEF TypeOK
  <2> QED
    BY <1>5, <2>1 DEF NothingStale, InHand, LockIsExclusive, Inv,
       FirstAttempt, DeliveredReadsRouted, RetriesBounded
<1>6. ASSUME NEW p \in Procs, Finish(p) \/ Crash(p) \/ SendRaises(p) PROVE Inv'
  BY <1>5, <1>6 DEF Finish, Crash, SendRaises, Abort
\* The row marked by a loop over the batch leaves the batch with the same step.
<1>7. ASSUME NEW p \in Procs, pc[p] \in {"retire", "gate", "drop", "next"}, ctx[p].batch # {},
             NEW d \in {"too_old", "gated", "rate_limited", "channel_disabled"},
             Mark(Min(ctx[p].batch), d), Advance(p),
             UNCHANGED <<status, attempt, world, lock, pc, crashes>>
      PROVE  Inv'
  <2> DEFINE i == Min(ctx[p].batch)
  <2>1. lock = p /\ \A q \in Procs \ {p} : pc[q] = "idle"
    BY <1>7, <1>a
  <2>2. i \in ctx[p].batch /\ ctx[p].batch \in SUBSET Items
    BY <1>7, <1>c, MinOfBatch DEF Context
  <2>3. ctx'[p].batch = ctx[p].batch \ {i} /\ ctx'[p].fresh = ctx[p].fresh
    BY <1>0, <1>7, <1>c DEF Advance, TypeOK, Context
  <2>4. i \in Backlog /\ ctx[p].batch \subseteq Backlog
    BY <1>7, <2>2 DEF Inv, NothingStale
  <2>5. \A j \in Items \ {i} : j \in Backlog <=> j \in Backlog'
    <3>1. \A j \in Items \ {i} : decision'[j] = decision[j]
      BY <1>0, <1>7 DEF Mark, TypeOK
    <3> QED
      BY <1>7, <3>1, BacklogFrame
  <2>6. ctx'[p].batch \subseteq Backlog'
    BY <2>2, <2>3, <2>4, <2>5
  <2>7. pc[p] = "retire" => /\ ctx'[p].fresh \subseteq Backlog'
                            /\ ctx'[p].batch \cap ctx'[p].fresh = {}
    <3>1. pc[p] = "retire" => /\ ctx[p].fresh \subseteq Backlog
                              /\ ctx[p].batch \cap ctx[p].fresh = {}
      BY DEF Inv, NothingStale
    <3>2. Backlog \subseteq Items
      BY DEF Backlog
    <3> QED
      BY <2>2, <2>3, <2>5, <3>1, <3>2
  <2>8. pc[p] = "drop" => /\ ToPost(ctx'[p].fresh) \subseteq Backlog'
                          /\ ctx'[p].batch \cap ToPost(ctx'[p].fresh) = {}
    <3>1. pc[p] = "drop" => /\ ToPost(ctx[p].fresh) \subseteq Backlog
                            /\ ctx[p].batch \cap ToPost(ctx[p].fresh) = {}
      BY DEF Inv, NothingStale
    <3>2. Backlog \subseteq Items
      BY DEF Backlog
    <3>3. ToPost(ctx'[p].fresh) = ToPost(ctx[p].fresh)
      BY <2>3
    <3> QED
      BY <2>2, <2>3, <2>5, <3>1, <3>2, <3>3
  <2>9. NothingStale' /\ InHand' /\ LockIsExclusive'
    BY <1>7, <2>1, <2>6, <2>7, <2>8 DEF NothingStale, InHand, LockIsExclusive
  <2>10. DeliveredReadsRouted'
    BY <1>0, <1>7, <2>4 DEF Backlog, Mark, Inv, DeliveredReadsRouted, TypeOK
  <2> QED
    BY <1>7, <2>9, <2>10 DEF Inv, FirstAttempt, RetriesBounded
<1>8. ASSUME NEW p \in Procs, RetireAged(p) PROVE Inv'
  BY <1>7, <1>8 DEF RetireAged
\* A step that only moves p and leaves the records alone keeps the backlog.
<1>9. ASSUME NEW p \in Procs, NEW l, pc[p] # "idle", pc' = [pc EXCEPT ![p] = l],
             UNCHANGED <<decision, status, attempt, lock>>,
             l \notin {"retire", "photo", "text", "record"},
             l \in {"gate", "drop", "next"} => ctx'[p].batch \subseteq Backlog,
             l = "slot" => ctx'[p].fresh \subseteq Backlog,
             l = "drop" => /\ ToPost(ctx'[p].fresh) \subseteq Backlog
                           /\ ctx'[p].batch \cap ToPost(ctx'[p].fresh) = {}
      PROVE  Inv'
  <2>1. lock = p /\ \A q \in Procs \ {p} : pc[q] = "idle"
    BY <1>9, <1>a
  <2>2. pc'[p] = l /\ \A q \in Procs \ {p} : pc'[q] = "idle"
    BY <1>0, <1>9, <2>1 DEF TypeOK
  <2>3. Backlog' = Backlog
    BY <1>9 DEF Backlog
  <2>4. NothingStale' /\ InHand' /\ LockIsExclusive'
    BY <1>9, <2>1, <2>2, <2>3 DEF NothingStale, InHand, LockIsExclusive
  <2> QED
    BY <1>9, <2>4 DEF Inv, FirstAttempt, DeliveredReadsRouted, RetriesBounded
<1>10. ASSUME NEW p \in Procs, AfterRetire(p) PROVE Inv'
  <2>1. ctx[p].fresh \subseteq Backlog
    BY <1>10 DEF AfterRetire, Inv, NothingStale
  <2> QED
    BY <1>9, <1>10, <2>1 DEF AfterRetire
<1>11. ASSUME NEW p \in Procs, ClaimSlot(p) PROVE Inv'
  <2>1. ctx[p].fresh \subseteq Backlog /\ ctx[p].fresh \in SUBSET Items
    BY <1>11, <1>c DEF ClaimSlot, Inv, NothingStale, Context
  <2>2. ASSUME NEW B, ctx' = [ctx EXCEPT ![p].batch = B]
        PROVE  ctx'[p].batch = B /\ ctx'[p].fresh = ctx[p].fresh
    BY <1>0, <1>c, <2>2 DEF TypeOK, Context
  <2>3. CASE open
    <3>1. ctx'[p].batch = Dropped(ctx[p].fresh) /\ ctx'[p].fresh = ctx[p].fresh
      BY <1>11, <2>2, <2>3 DEF ClaimSlot
    <3>2. /\ ctx'[p].batch \subseteq Backlog
          /\ ToPost(ctx'[p].fresh) \subseteq Backlog
          /\ ctx'[p].batch \cap ToPost(ctx'[p].fresh) = {}
      BY <2>1, <3>1, SelectionTypes
    <3> QED
      BY <1>9, <1>11, <2>3, <3>2 DEF ClaimSlot
  <2>4. CASE ~open
    <3>1. ctx'[p].batch \subseteq Backlog
      BY <1>11, <2>1, <2>2, <2>4 DEF ClaimSlot
    <3> QED
      BY <1>9, <1>11, <2>4, <3>1 DEF ClaimSlot
  <2> QED
    BY <2>3, <2>4
<1>12. ASSUME NEW p \in Procs, Gate(p) PROVE Inv'
  <2>1. CASE ctx[p].batch = {}
    BY <1>9, <1>12, <2>1 DEF Gate
  <2>2. CASE ctx[p].batch # {}
    BY <1>7, <1>12, <2>2 DEF Gate
  <2> QED
    BY <2>1, <2>2
<1>13. ASSUME NEW p \in Procs, Drop(p) PROVE Inv'
  <2>1. CASE ctx[p].batch = {}
    <3>1. ctx'[p].batch = ToPost(ctx[p].fresh)
      BY <1>0, <1>13, <1>c, <2>1 DEF Drop, TypeOK, Context
    <3>2. ctx'[p].batch \subseteq Backlog
      BY <1>13, <3>1 DEF Drop, Inv, NothingStale
    <3> QED
      BY <1>9, <1>13, <2>1, <3>2 DEF Drop
  <2>2. CASE ctx[p].batch # {}
    BY <1>7, <1>13, <2>2 DEF Drop
  <2> QED
    BY <2>1, <2>2
\* The post in hand stays postable while p only sends it.
<1>14. ASSUME NEW p \in Procs, pc[p] # "idle", NEW l \in {"photo", "text", "record"},
              pc' = [pc EXCEPT ![p] = l],
              UNCHANGED <<decision, status, attempt, lock>>,
              ctx'[p].batch \subseteq Backlog, ctx'[p].item \in Backlog \ ctx'[p].batch,
              l = "record" => ctx'[p].result \in {"sent", "failed", "skipped"}
       PROVE  Inv'
  <2>1. lock = p /\ \A q \in Procs \ {p} : pc[q] = "idle"
    BY <1>14, <1>a
  <2>2. pc'[p] = l /\ \A q \in Procs \ {p} : pc'[q] = "idle"
    BY <1>0, <1>14, <2>1 DEF TypeOK
  <2>3. Backlog' = Backlog
    BY <1>14 DEF Backlog
  <2>4. NothingStale' /\ InHand' /\ LockIsExclusive'
    BY <1>14, <2>1, <2>2, <2>3 DEF NothingStale, InHand, LockIsExclusive
  <2> QED
    BY <1>14, <2>4 DEF Inv, FirstAttempt, DeliveredReadsRouted, RetriesBounded
<1>15. ASSUME NEW p \in Procs, NextPost(p) PROVE Inv'
  <2> DEFINE i == Min(ctx[p].batch)
             r == IF p \in DryRunners THEN "skipped" ELSE "none"
  <2>1. CASE ctx[p].batch = {}
    BY <1>9, <1>15, <2>1 DEF NextPost
  <2>2. CASE ctx[p].batch # {} /\ SourceOf[i] \notin ctx[p].spec.bound
    BY <1>7, <1>15, <2>2 DEF NextPost
  <2>3. CASE ctx[p].batch # {} /\ SourceOf[i] \in ctx[p].spec.bound
    <3>1. i \in ctx[p].batch /\ ctx[p].batch \subseteq Backlog
      BY <1>15, <1>c, <2>3, MinOfBatch DEF NextPost, Inv, NothingStale, Context
    <3>2. ctx' = [ctx EXCEPT ![p].batch = @ \ {i}, ![p].item = i, ![p].result = r]
      BY <1>15, <2>3 DEF NextPost
    <3> HIDE DEF i, r
    <3>3. /\ ctx'[p].batch = ctx[p].batch \ {i}
          /\ ctx'[p].item = i
          /\ ctx'[p].result = r
      BY <1>0, <1>c, <3>2 DEF TypeOK, Context
    <3>4. ctx'[p].batch \subseteq Backlog /\ ctx'[p].item \in Backlog \ ctx'[p].batch
      BY <3>1, <3>3
    <3>5. PICK l \in {"photo", "text", "record"} :
            /\ pc' = [pc EXCEPT ![p] = l]
            /\ l = "record" => r = "skipped"
      BY <1>15, <2>3 DEF NextPost, i, r
    <3> QED
      <4>1. ctx'[p].batch \subseteq Backlog /\ ctx'[p].item \in Backlog \ ctx'[p].batch
        BY <3>4
      <4>2. l = "record" => ctx'[p].result \in {"sent", "failed", "skipped"}
        BY <3>3, <3>5
      <4>3. pc[p] # "idle" /\ UNCHANGED <<decision, status, attempt, lock>>
        BY <1>15, <2>3 DEF NextPost, i
      <4> QED
        BY <1>14, <3>5, <4>1, <4>2, <4>3
  <2> QED
    BY <2>1, <2>2, <2>3
<1>16. ASSUME NEW p \in Procs, pc[p] \in {"photo", "text"},
              NEW l \in {"text", "record"}, NEW r \in {"none", "failed"}, Call(p, l, r),
              l = "record" => r = "failed",
              UNCHANGED <<decision, status, attempt, lock>>
       PROVE  Inv'
  <2>1. \E m \in {l, "record"}, s \in {r, "sent"} :
          /\ pc' = [pc EXCEPT ![p] = m]
          /\ ctx' = [ctx EXCEPT ![p].result = s]
          /\ m = "record" => s \in {"sent", "failed"}
    BY <1>16 DEF Call
  <2>2. ctx'[p].batch = ctx[p].batch /\ ctx'[p].item = ctx[p].item
    BY <1>0, <1>c, <2>1 DEF TypeOK, Context
  <2>3. \A s : ctx' = [ctx EXCEPT ![p].result = s] => ctx'[p].result = s
    BY <1>0, <1>c DEF TypeOK, Context
  <2>4. ctx[p].batch \subseteq Backlog /\ ctx[p].item \in Backlog \ ctx[p].batch
    BY <1>16 DEF Inv, NothingStale, InHand
  <2> QED
    BY <1>14, <1>16, <2>1, <2>2, <2>3, <2>4
<1>17. ASSUME NEW p \in Procs, SendPhoto(p) \/ SendText(p) PROVE Inv'
  BY <1>16, <1>17 DEF SendPhoto, SendText
<1>18. ASSUME NEW p \in Procs, Record(p) PROVE Inv'
  <2> DEFINE i == ctx[p].item
  <2>1. pc[p] = "record" /\ lock = p /\ \A q \in Procs \ {p} : pc[q] = "idle"
    BY <1>18, <1>a DEF Record
  <2>2. pc'[p] = "next" /\ \A q \in Procs \ {p} : pc'[q] = "idle"
    BY <1>0, <1>18, <2>1 DEF Record, TypeOK
  <2>3. /\ i \in Backlog \ ctx[p].batch
        /\ ctx[p].batch \subseteq Backlog
        /\ ctx[p].result \in {"sent", "failed", "skipped"}
    BY <2>1 DEF Inv, NothingStale, InHand
  <2>4. i \in Items /\ decision[i] \in {"routed", "gated"} /\ attempt[i] < MaxAttempts
    <3>1. i \in Items /\ decision[i] \in {"routed", "gated"}
      BY <2>3 DEF Backlog
    <3>2. status[i] = "none" => attempt[i] = 0
      BY <3>1 DEF Inv, FirstAttempt
    <3> QED
      BY <2>3, <3>1, <3>2, SettingsAssumption DEF Backlog
  <2>5. /\ status'[i] = ctx[p].result
        /\ attempt'[i] = attempt[i] + 1
        /\ ctx[p].result # "failed" => decision'[i] = "routed"
    BY <1>0, <1>18, <2>4 DEF Record, Mark, TypeOK
  <2>6. \A j \in Items \ {i} : /\ decision'[j] = decision[j]
                               /\ status'[j] = status[j]
                               /\ attempt'[j] = attempt[j]
    BY <1>0, <1>18 DEF Record, Mark, TypeOK
  <2>7. ctx'[p].batch = ctx[p].batch
    BY <1>0, <1>18, <1>c DEF Record, TypeOK, Context
  <2> HIDE DEF i
  <2>8. ctx'[p].batch \subseteq Backlog'
    <3>1. \A j \in Items \ {i} : j \in Backlog <=> j \in Backlog'
      BY <2>6, BacklogFrame
    <3>2. Backlog \subseteq Items
      BY DEF Backlog
    <3> QED
      BY <2>3, <2>7, <3>1, <3>2
  <2>9. NothingStale' /\ InHand' /\ LockIsExclusive'
    BY <1>18, <2>1, <2>2, <2>8 DEF Record, NothingStale, InHand, LockIsExclusive
  <2>10. FirstAttempt' /\ DeliveredReadsRouted'
    BY <2>3, <2>4, <2>5, <2>6 DEF Inv, FirstAttempt, DeliveredReadsRouted
  <2>11. RetriesBounded'
    <3>1. \A j \in Items : attempt[j] \in Nat
      BY <1>0 DEF TypeOK
    <3> QED
      BY <2>4, <2>5, <2>6, <3>1, SettingsAssumption DEF Inv, RetriesBounded
  <2> QED
    BY <2>9, <2>10, <2>11 DEF Inv
<1>19. ASSUME UNCHANGED <<decision, status, attempt, lock, pc, ctx>> PROVE Inv'
  <2>1. Backlog' = Backlog
    BY <1>19 DEF Backlog
  <2> QED
    BY <1>19, <2>1 DEF Inv, NothingStale, InHand, LockIsExclusive,
       FirstAttempt, DeliveredReadsRouted, RetriesBounded
<1>20. ASSUME WindowOpens \/ \E i \in CanAge : ItemAges(i) PROVE Inv'
  BY <1>19, <1>20 DEF WindowOpens, ItemAges
<1>21. CASE UNCHANGED vars
  BY <1>19, <1>21 DEF vars
<1> QED
  BY <1>1, <1>2, <1>3, <1>4, <1>6, <1>8, <1>10, <1>11, <1>12, <1>13, <1>15,
     <1>17, <1>18, <1>20, <1>21 DEF Next, PostPhase

-----------------------------------------------------------------------------
(* The theorems.                                                           *)

\* With jobs only, the inductive invariant holds in every state: one pass at a
\* time, nothing stale in its hands, and delivered rows read routed.
THEOREM Invariance ==
  ASSUME Loops = {}
  PROVE  Spec => []Inv
<1>1. Inv /\ [Next]_vars => Inv'
  BY TypeOKStep, InvStep DEF Inv
<1> QED
  BY InvInit, <1>1, PTL DEF Spec

\* Whatever has been delivered reads "routed" in the archive.
THEOREM FinalWord ==
  ASSUME Loops = {}
  PROVE  Spec => []DeliveredReadsRouted
<1>1. Inv => DeliveredReadsRouted
  BY DEF Inv
<1>2. Spec => []Inv
  BY Invariance
<1> QED
  BY <1>1, <1>2, PTL

\* No item is tried more often than MaxAttempts.
THEOREM BoundedRetries ==
  ASSUME Loops = {}
  PROVE  Spec => []RetriesBounded
<1>1. Inv => RetriesBounded
  BY DEF Inv
<1>2. Spec => []Inv
  BY Invariance
<1> QED
  BY <1>1, <1>2, PTL

\* A step can send or record nothing but what is postable at that moment, and
\* decides anew only about a postable item or one that had no decision.
LEMMA OnlyBacklogMoves ==
  Inv /\ [Next]_vars =>
    \A i \in Items \ Backlog :
      /\ posts'[i] = posts[i] /\ status'[i] = status[i] /\ attempt'[i] = attempt[i]
      /\ decision[i] # "none" => decision'[i] = decision[i]
<1> SUFFICES ASSUME Inv, [Next]_vars, NEW i \in Items \ Backlog
             PROVE  /\ posts'[i] = posts[i] /\ status'[i] = status[i]
                    /\ attempt'[i] = attempt[i]
                    /\ decision[i] # "none" => decision'[i] = decision[i]
  OBVIOUS
<1> USE DEF world, chatlog
<1>0. TypeOK
  BY DEF Inv
<1>1. ASSUME NEW p \in Procs, pc[p] \in {"retire", "gate", "drop", "next"}, ctx[p].batch # {}
      PROVE  Min(ctx[p].batch) # i
  <2>1. ctx[p] \in Context /\ ctx[p].batch \subseteq Backlog
    BY <1>0, <1>1 DEF Inv, NothingStale, TypeOK
  <2>2. Min(ctx[p].batch) \in ctx[p].batch
    BY <1>1, <2>1, MinOfBatch DEF Context
  <2> QED
    BY <2>1, <2>2
<1>2. ASSUME NEW p \in Procs, pc[p] \in {"photo", "text", "record"} PROVE ctx[p].item # i
  BY <1>2 DEF Inv, InHand
<1>3. ASSUME UNCHANGED <<decision, status, attempt, posts>>
      PROVE  /\ posts'[i] = posts[i] /\ status'[i] = status[i] /\ attempt'[i] = attempt[i]
             /\ decision[i] # "none" => decision'[i] = decision[i]
  BY <1>3
<1>4. CASE \E p \in Procs : \/ StartJob(p) \/ StartLoop(p) \/ ReadBacklog(p) \/ Finish(p)
                            \/ Crash(p) \/ AfterRetire(p) \/ ClaimSlot(p)
  BY <1>3, <1>4 DEF StartJob, StartLoop, ReadBacklog, Finish, Crash, AfterRetire, ClaimSlot
<1>5. CASE WindowOpens \/ UNCHANGED vars \/ \E j \in CanAge : ItemAges(j)
  BY <1>3, <1>5 DEF WindowOpens, ItemAges, vars
<1>6. ASSUME NEW p \in Procs, NEW j \in Items, Ingest(p, j)
      PROVE  /\ posts'[i] = posts[i] /\ status'[i] = status[i] /\ attempt'[i] = attempt[i]
             /\ decision[i] # "none" => decision'[i] = decision[i]
  BY <1>0, <1>6 DEF Ingest, Mark, TypeOK
<1>7. ASSUME NEW p \in Procs, RetireAged(p) \/ Gate(p) \/ Drop(p) \/ NextPost(p)
      PROVE  /\ posts'[i] = posts[i] /\ status'[i] = status[i] /\ attempt'[i] = attempt[i]
             /\ decision[i] # "none" => decision'[i] = decision[i]
  <2>1. UNCHANGED <<status, attempt, posts>>
    BY <1>7 DEF RetireAged, Gate, Drop, NextPost
  <2>2. \/ UNCHANGED decision
        \/ /\ pc[p] \in {"retire", "gate", "drop", "next"} /\ ctx[p].batch # {}
           /\ \E d : Mark(Min(ctx[p].batch), d)
    BY <1>7 DEF RetireAged, Gate, Drop, NextPost
  <2>3. decision'[i] = decision[i]
    BY <1>0, <1>1, <2>2 DEF Mark, TypeOK
  <2> QED
    BY <2>1, <2>3
<1>8. ASSUME NEW p \in Procs, SendPhoto(p) \/ SendText(p) \/ SendRaises(p)
      PROVE  /\ posts'[i] = posts[i] /\ status'[i] = status[i] /\ attempt'[i] = attempt[i]
             /\ decision[i] # "none" => decision'[i] = decision[i]
  <2>1. pc[p] \in {"photo", "text"} /\ UNCHANGED <<decision, status, attempt>>
    BY <1>8 DEF SendPhoto, SendText, SendRaises
  <2>2. UNCHANGED posts \/ posts' = [posts EXCEPT ![ctx[p].item] = @ + 1]
    BY <1>8 DEF SendPhoto, SendText, SendRaises, Call, Acknowledged, Unacknowledged
  <2>3. posts'[i] = posts[i]
    BY <1>0, <1>2, <2>1, <2>2 DEF TypeOK
  <2> QED
    BY <2>1, <2>3
<1>9. ASSUME NEW p \in Procs, Record(p)
      PROVE  /\ posts'[i] = posts[i] /\ status'[i] = status[i] /\ attempt'[i] = attempt[i]
             /\ decision[i] # "none" => decision'[i] = decision[i]
  <2>1. ctx[p].item # i
    BY <1>2, <1>9 DEF Record
  <2> QED
    BY <1>0, <1>9, <2>1 DEF Record, Mark, TypeOK
<1> QED
  BY <1>4, <1>5, <1>6, <1>7, <1>8, <1>9 DEF Next, PostPhase

\* A delivery that was recorded is the last: no later pass repeats it.
THEOREM OneDelivery ==
  ASSUME Loops = {}
  PROVE  Spec => DeliveryIsFinal
<1>1. Inv /\ [Next]_vars =>
        [\A i \in Items : status[i] \in {"sent", "skipped"} =>
           posts'[i] = posts[i] /\ status'[i] = status[i] /\ attempt'[i] = attempt[i]]_vars
  BY OnlyBacklogMoves DEF Backlog
<1>2. Spec => []Inv
  BY Invariance
<1> QED
  BY <1>1, <1>2, PTL DEF Spec, DeliveryIsFinal

\* What was dropped, aged out, unbound or filtered stays so and is never posted.
THEOREM RetiredForGood ==
  ASSUME Loops = {}
  PROVE  Spec => RetiredIsFinal
<1>1. Inv /\ [Next]_vars =>
        [\A i \in Items : decision[i] \in Terminal =>
           decision'[i] = decision[i] /\ posts'[i] = posts[i]]_vars
  BY OnlyBacklogMoves DEF Backlog, Terminal
<1>2. Spec => []Inv
  BY Invariance
<1> QED
  BY <1>1, <1>2, PTL DEF Spec, RetiredIsFinal

-----------------------------------------------------------------------------
(* No copy in the channel is unaccounted for.                              *)

\* p is the process that sent j and has yet to record it.
Owes(p, j) == pc[p] = "record" /\ ctx[p].result = "sent" /\ ctx[p].item = j

Accounted ==
  \A j \in Items :
    posts[j] = astray[j] + (IF status[j] = "sent" THEN 1 ELSE 0)
                         + (IF \E p \in Procs : Owes(p, j) THEN 1 ELSE 0)

\* Under the lock at most one process owes a delivery row.
LEMMA UnrecordedCount ==
  ASSUME LockIsExclusive, NEW j
  PROVE  Cardinality(Unrecorded(j)) = IF \E p \in Procs : Owes(p, j) THEN 1 ELSE 0
<1>1. CASE \E p \in Procs : Owes(p, j)
  <2>1. PICK p \in Procs : Owes(p, j)
    BY <1>1
  <2>2. Unrecorded(j) = {p}
    BY <2>1 DEF Unrecorded, Owes, LockIsExclusive
  <2> QED
    BY <1>1, <2>2, FS_Singleton
<1>2. CASE ~\E p \in Procs : Owes(p, j)
  <2>1. Unrecorded(j) = {}
    BY <1>2 DEF Unrecorded, Owes
  <2> QED
    BY <1>2, <2>1, FS_EmptySet
<1> QED
  BY <1>1, <1>2

\* Every step keeps the account of the posts in the channel.
LEMMA AccountedStep ==
  ASSUME Loops = {}
  PROVE  Inv /\ Accounted /\ [Next]_vars => Accounted'
<1> SUFFICES ASSUME Inv, Accounted, [Next]_vars PROVE Accounted'
  OBVIOUS
<1> USE DEF Goto, world, chatlog
<1>0. TypeOK /\ Procs = Jobs /\ None \notin Procs
  BY NoneAssumption DEF Inv, Procs
<1>c. ASSUME NEW p \in Procs PROVE ctx[p] \in Context
  BY <1>0 DEF TypeOK
<1>a. ASSUME NEW p \in Procs, pc[p] # "idle"
      PROVE  \A q \in Procs \ {p} : pc[q] = "idle"
  BY <1>0, <1>a DEF Inv, LockIsExclusive
<1>n. \A j \in Items : posts[j] \in Nat /\ astray[j] \in Nat
  BY <1>0 DEF TypeOK
\* Steps that neither send nor record: nobody owes a row after them who did not before.
<1>1. ASSUME UNCHANGED <<posts, astray, status>>,
             \A q \in Procs : \A j \in Items : Owes(q, j) <=> Owes(q, j)'
      PROVE  Accounted'
  BY <1>1 DEF Accounted
<1>2. ASSUME NEW p \in Procs, NEW l, pc' = [pc EXCEPT ![p] = l],
             \A q \in Procs \ {p} : ctx'[q] = ctx[q],
             pc[p] # "record", l = "record" => ctx'[p].result # "sent",
             UNCHANGED <<posts, astray, status>>
      PROVE  Accounted'
  <2>1. \A q \in Procs \ {p} : \A j \in Items : Owes(q, j) <=> Owes(q, j)'
    BY <1>0, <1>2 DEF Owes, TypeOK
  <2>2. \A j \in Items : ~Owes(p, j) /\ ~Owes(p, j)'
    BY <1>0, <1>2 DEF Owes, TypeOK
  <2> QED
    BY <1>1, <1>2, <2>1, <2>2
<1>3. ASSUME NEW p \in Procs,
             \/ StartJob(p) \/ StartLoop(p) \/ ReadBacklog(p) \/ Finish(p)
             \/ AfterRetire(p) \/ ClaimSlot(p)
      PROVE  Accounted'
  <2>1. \A q \in Procs \ {p} : ctx'[q] = ctx[q]
    BY <1>0, <1>3 DEF StartJob, StartLoop, ReadBacklog, Finish, AfterRetire, ClaimSlot, TypeOK
  <2>2. pc[p] # "record" /\ UNCHANGED <<posts, astray, status>>
    BY <1>3 DEF StartJob, StartLoop, ReadBacklog, Finish, AfterRetire, ClaimSlot
  <2>3. \E l \in PCs \ {"record"} : pc' = [pc EXCEPT ![p] = l]
    BY <1>3 DEF StartJob, StartLoop, ReadBacklog, Finish, AfterRetire, ClaimSlot, PCs
  <2> QED
    BY <1>2, <2>1, <2>2, <2>3
<1>4. ASSUME NEW p \in Procs, RetireAged(p) \/ Gate(p) \/ Drop(p) \/ NextPost(p)
      PROVE  Accounted'
  <2>1. \A q \in Procs \ {p} : ctx'[q] = ctx[q]
    BY <1>0, <1>4 DEF RetireAged, Gate, Drop, NextPost, Advance, TypeOK
  <2>2. pc[p] # "record" /\ UNCHANGED <<posts, astray, status>>
    BY <1>4 DEF RetireAged, Gate, Drop, NextPost
  <2>3. \E l : /\ pc' = [pc EXCEPT ![p] = l]
               /\ l = "record" => ctx'[p].result # "sent"
    <3>1. CASE NextPost(p)
      <4> DEFINE i == Min(ctx[p].batch)
                 r == IF p \in DryRunners THEN "skipped" ELSE "none"
      <4>1. CASE ctx[p].batch = {}
        BY <3>1, <4>1 DEF NextPost
      <4>2. CASE ctx[p].batch # {} /\ SourceOf[i] \notin ctx[p].spec.bound
        <5>1. pc' = [pc EXCEPT ![p] = "next"]
          BY <1>0, <3>1, <4>2 DEF NextPost, TypeOK
        <5>2. "next" # "record"
          OBVIOUS
        <5> QED
          BY <5>1, <5>2, Zenon
      <4>3. CASE ctx[p].batch # {} /\ SourceOf[i] \in ctx[p].spec.bound
        <5>1. ctx' = [ctx EXCEPT ![p].batch = @ \ {i}, ![p].item = i, ![p].result = r]
          BY <3>1, <4>3 DEF NextPost
        <5>2. ctx'[p].result = r
          BY <1>0, <1>c, <5>1 DEF TypeOK, Context
        <5>3. \E l : pc' = [pc EXCEPT ![p] = l]
          BY <3>1, <4>3 DEF NextPost
        <5> QED
          BY <5>2, <5>3
      <4> QED
        BY <4>1, <4>2, <4>3
    <3>2. CASE RetireAged(p) \/ Gate(p) \/ Drop(p)
      <4>1. \E l \in PCs \ {"record"} : pc' = [pc EXCEPT ![p] = l]
        BY <1>0, <3>2 DEF RetireAged, Gate, Drop, PCs, TypeOK
      <4> QED
        BY <4>1
    <3> QED
      BY <1>4, <3>1, <3>2
  <2> QED
    BY <1>2, <2>1, <2>2, <2>3
<1>5. ASSUME NEW p \in Procs, NEW i \in Items, Ingest(p, i) PROVE Accounted'
  BY <1>1, <1>5 DEF Ingest, Owes
<1>6. ASSUME WindowOpens \/ UNCHANGED vars \/ \E i \in CanAge : ItemAges(i) PROVE Accounted'
  BY <1>1, <1>6 DEF WindowOpens, ItemAges, vars, Owes
\* A call: the holder of the lock owed nothing before it, and owes the post in
\* hand after it exactly when it was acknowledged.
<1>7. ASSUME NEW p \in Procs, pc[p] \in {"photo", "text"}
      PROVE  ctx[p].item \in Items /\ \A q \in Procs, j \in Items : ~Owes(q, j)
  <2>1. \A q \in Procs \ {p} : pc[q] = "idle"
    BY <1>7, <1>a
  <2>2. ctx[p].item \in Items
    BY <1>7 DEF Inv, InHand, Backlog
  <2> QED
    BY <1>7, <2>1, <2>2 DEF Owes
<1>8. ASSUME NEW p \in Procs, pc[p] \in {"photo", "text"}, Unacknowledged(ctx[p].item),
             UNCHANGED status, \A q \in Procs, j \in Items : ~Owes(q, j)'
      PROVE  Accounted'
  BY <1>0, <1>n, <1>7, <1>8 DEF Unacknowledged, Accounted, TypeOK
<1>9. ASSUME NEW p \in Procs, pc[p] \in {"photo", "text"},
             NEW l \in {"text", "record"}, NEW r \in {"none", "failed"}, Call(p, l, r),
             UNCHANGED status
      PROVE  Accounted'
  <2> DEFINE i == ctx[p].item
  <2>1. \A q \in Procs \ {p} : pc[q] = "idle"
    BY <1>9, <1>a
  <2>2. CASE /\ Acknowledged(i)
             /\ ctx' = [ctx EXCEPT ![p].result = "sent"]
             /\ Goto(p, "record")
    <3>1. ctx'[p].item = i /\ ctx'[p].result = "sent"
      BY <1>0, <1>c, <2>2 DEF TypeOK, Context
    <3>2. pc'[p] = "record" /\ \A q \in Procs \ {p} : pc'[q] = "idle"
      BY <1>0, <2>1, <2>2 DEF TypeOK
    <3>3. \A j \in Items : (\E q \in Procs : Owes(q, j)') <=> j = i
      BY <3>1, <3>2 DEF Owes
    <3>4. \A j \in Items : /\ astray'[j] = astray[j]
                           /\ posts'[j] = IF j = i THEN posts[j] + 1 ELSE posts[j]
      BY <1>0, <2>2 DEF Acknowledged, TypeOK
    <3> QED
      BY <1>n, <1>7, <1>9, <3>3, <3>4 DEF Accounted
  <2>3. CASE /\ Unacknowledged(i)
             /\ ctx' = [ctx EXCEPT ![p].result = r]
             /\ Goto(p, l)
    <3>1. ctx'[p].result = r
      BY <1>0, <1>c, <2>3 DEF TypeOK, Context
    <3>2. \A q \in Procs \ {p} : pc'[q] = "idle"
      BY <1>0, <2>1, <2>3 DEF TypeOK
    <3>3. \A q \in Procs, j \in Items : ~Owes(q, j)'
      BY <3>1, <3>2 DEF Owes
    <3> QED
      BY <1>8, <1>9, <2>3, <3>3
  <2> QED
    BY <1>9, <2>2, <2>3 DEF Call
<1>10. ASSUME NEW p \in Procs, SendPhoto(p) \/ SendText(p) PROVE Accounted'
  BY <1>9, <1>10 DEF SendPhoto, SendText
\* After an abort nobody owes anything.
<1>11. ASSUME NEW p \in Procs, pc[p] # "idle", Abort(p)
       PROVE  \A q \in Procs, j \in Items : ~Owes(q, j)'
  BY <1>0, <1>a, <1>11 DEF Abort, Owes, TypeOK
<1>12. ASSUME NEW p \in Procs, SendRaises(p) PROVE Accounted'
  BY <1>8, <1>11, <1>12 DEF SendRaises
<1>13. ASSUME NEW p \in Procs, Crash(p) PROVE Accounted'
  <2>1. \A q \in Procs \ {p} : pc[q] = "idle"
    BY <1>13, <1>a DEF Crash
  <2>2. \A q \in Procs, j \in Items : ~Owes(q, j)'
    BY <1>11, <1>13 DEF Crash
  <2>3. \A j \in Items : (\E q \in Procs : Owes(q, j)) <=> Owes(p, j)
    BY <2>1 DEF Owes
  <2>4. \A j \in Items : astray'[j] = IF Owes(p, j) THEN astray[j] + 1 ELSE astray[j]
    BY <1>0, <1>13 DEF Crash, Owes, TypeOK
  <2> QED
    BY <1>n, <1>13, <2>2, <2>3, <2>4 DEF Crash, Accounted
<1>14. ASSUME NEW p \in Procs, Record(p) PROVE Accounted'
  <2> DEFINE i == ctx[p].item
  <2>1. pc[p] = "record" /\ \A q \in Procs \ {p} : pc[q] = "idle"
    BY <1>14, <1>a DEF Record
  <2>2. i \in Items /\ status[i] # "sent"
    BY <2>1 DEF Inv, InHand, Backlog
  <2>3. \A j \in Items : (\E q \in Procs : Owes(q, j)) <=> (j = i /\ ctx[p].result = "sent")
    BY <2>1 DEF Owes
  <2>4. \A q \in Procs, j \in Items : ~Owes(q, j)'
    BY <1>0, <1>14, <2>1 DEF Record, Owes, TypeOK
  <2>5. \A j \in Items : status'[j] = IF j = i THEN ctx[p].result ELSE status[j]
    BY <1>0, <1>14 DEF Record, TypeOK
  <2>6. UNCHANGED <<posts, astray>>
    BY <1>14 DEF Record
  <2> QED
    BY <1>n, <2>2, <2>3, <2>4, <2>5, <2>6 DEF Accounted
<1> QED
  BY <1>3, <1>4, <1>5, <1>6, <1>10, <1>12, <1>13, <1>14 DEF Next, PostPhase

\* No double posting beyond what was lost on the way: every copy of an item is
\* recorded, about to be recorded, or one whose acknowledgement never arrived.
THEOREM NoUnaccountedPost ==
  ASSUME Loops = {}
  PROVE  Spec => []PostsAccountedFor
<1>1. Init => Accounted
  BY DEF Init, Accounted, Owes
<1>2. Inv /\ Accounted /\ [Next]_vars => Accounted'
  BY AccountedStep
<1>3. Inv /\ Accounted => PostsAccountedFor
  BY UnrecordedCount DEF Inv, Accounted, PostsAccountedFor
<1>4. Spec => []Inv
  BY Invariance
<1> QED
  BY <1>1, <1>2, <1>3, <1>4, PTL DEF Spec

-----------------------------------------------------------------------------
(* The log of the channel.                                                 *)

\* Nothing has been delivered, or tried, of an item without a decision.
UndecidedIsUntried == \A i \in Items : decision[i] = "none" => status[i] = "none"

\* A decision once made is replaced, never taken back, and with it goes at most the
\* one delivery row.
LEMMA UndecidedStep == Inv /\ UndecidedIsUntried /\ [Next]_vars => UndecidedIsUntried'
<1> SUFFICES ASSUME Inv, UndecidedIsUntried, [Next]_vars,
                    NEW i \in Items, decision'[i] = "none"
             PROVE  status'[i] = "none"
  BY DEF UndecidedIsUntried
<1>0. TypeOK
  BY DEF Inv
<1>1. decision[i] = "none"
  <2>1. UNCHANGED decision \/ \E j \in Items, d \in Decisions \ {"none"} : Mark(j, d)
    <3>1. ASSUME NEW p \in Procs, pc[p] \in {"retire", "gate", "drop", "next"}, ctx[p].batch # {}
          PROVE  Min(ctx[p].batch) \in Items
      <4>1. ctx[p] \in Context
        BY <1>0 DEF TypeOK
      <4> QED
        BY <3>1, <4>1, MinOfBatch DEF Context
    <3>2. ASSUME NEW p \in Procs, RetireAged(p) \/ Gate(p) \/ Drop(p) \/ NextPost(p)
          PROVE  UNCHANGED decision \/ \E j \in Items, d \in Decisions \ {"none"} : Mark(j, d)
      BY <3>1, <3>2 DEF RetireAged, Gate, Drop, NextPost, Decisions
    <3>3. ASSUME NEW p \in Procs, Record(p)
          PROVE  UNCHANGED decision \/ \E j \in Items, d \in Decisions \ {"none"} : Mark(j, d)
      BY <3>3 DEF Record, Decisions, Inv, InHand, Backlog
    <3>4. ASSUME NEW p \in Procs, NEW j \in Items, Ingest(p, j)
          PROVE  UNCHANGED decision \/ \E k \in Items, d \in Decisions \ {"none"} : Mark(k, d)
      BY <3>4 DEF Ingest, Decisions
    <3>5. ASSUME NEW p \in Procs,
                 \/ StartJob(p) \/ StartLoop(p) \/ ReadBacklog(p) \/ Finish(p) \/ Crash(p)
                 \/ AfterRetire(p) \/ ClaimSlot(p)
                 \/ SendPhoto(p) \/ SendText(p) \/ SendRaises(p)
          PROVE  UNCHANGED decision
      BY <3>5 DEF StartJob, StartLoop, ReadBacklog, Finish, Crash, AfterRetire, ClaimSlot,
         SendPhoto, SendText, SendRaises
    <3>6. CASE WindowOpens \/ UNCHANGED vars \/ \E j \in CanAge : ItemAges(j)
      BY <3>6 DEF WindowOpens, ItemAges, vars
    <3> QED
      BY <3>2, <3>3, <3>4, <3>5, <3>6 DEF Next, PostPhase
  <2> QED
    BY <1>0, <2>1 DEF Mark, TypeOK
<1>2. i \notin Backlog
  BY <1>1 DEF Backlog
<1>3. status'[i] = status[i]
  BY <1>2, OnlyBacklogMoves
<1> QED
  BY <1>1, <1>3 DEF UndecidedIsUntried

\* What the rows of an item say depends on them alone, and it waits exactly while it
\* is in the backlog.
LEMMA FateFacts ==
  ASSUME TypeOK, DeliveredReadsRouted, NEW i \in Items
  PROVE  /\ i \in Backlog <=> Fate(i) = "waiting"
         /\ (decision'[i] = decision[i] /\ status'[i] = status[i] /\ attempt'[i] = attempt[i])
              => Fate(i)' = Fate(i)
<1>1. i \in Backlog <=> Fate(i) = "waiting"
  BY DEF Fate, Backlog, Terminal, DeliveredReadsRouted
<1>2. ASSUME decision'[i] = decision[i], status'[i] = status[i], attempt'[i] = attempt[i]
      PROVE  Fate(i)' = Fate(i)
  BY <1>2 DEF Fate, Backlog
<1> QED
  BY <1>1, <1>2

\* A step that writes the rows of one item only changes that item's fate.
LEMMA OneFate ==
  ASSUME TypeOK, DeliveredReadsRouted, NEW i \in Items,
         \A j \in Items \ {i} : /\ decision'[j] = decision[j]
                                /\ status'[j] = status[j]
                                /\ attempt'[j] = attempt[j]
  PROVE  [j \in Items |-> Fate(j)]'
           = [[j \in Items |-> Fate(j)] EXCEPT ![i] = Fate(i)']
<1>1. \A j \in Items \ {i} : Fate(j)' = Fate(j)
  BY FateFacts
<1> QED
  BY <1>1

\* An item that is settled, or that arrives, is a step of the log.
LEMMA FateStep ==
  ASSUME TypeOK, DeliveredReadsRouted, NEW i \in Items, UNCHANGED posts,
         \A j \in Items \ {i} : /\ decision'[j] = decision[j]
                                /\ status'[j] = status[j]
                                /\ attempt'[j] = attempt[j],
         \/ Fate(i)' = Fate(i)
         \/ Fate(i) = "new" /\ Fate(i)' \in {"waiting", "retired"}
         \/ Fate(i) = "waiting" /\ Fate(i)' \in {"rehearsed", "spent", "retired"}
         \/ Fate(i) = "waiting" /\ Fate(i)' = "delivered" /\ posts[i] > 0
  PROVE  [Log!Next]_(Log!vars)
<1> DEFINE F == [j \in Items |-> Fate(j)]
           f == Fate(i)'
<1>1. F' = [F EXCEPT ![i] = f] /\ F[i] = Fate(i)
  BY OneFate
<1>2. CASE f = Fate(i)
  <2>1. F' = F
    BY <1>1, <1>2
  <2> QED
    BY <2>1 DEF Log!vars
<1>3. CASE Fate(i) = "new" /\ f \in {"waiting", "retired"}
  <2>1. /\ \A j \in {i} : F[j] = "new"
        /\ F' = [j \in Items |-> IF j \in {i} THEN [k \in Items |-> f][j] ELSE F[j]]
    BY <1>1, <1>3
  <2>2. {i} \in SUBSET Items /\ [k \in Items |-> f] \in [Items -> {"waiting", "retired"}]
    BY <1>3
  <2> HIDE DEF F, f
  <2>3. \E S \in SUBSET Items, g \in [Items -> {"waiting", "retired"}] :
          /\ \A j \in S : F[j] = "new"
          /\ F' = [j \in Items |-> IF j \in S THEN g[j] ELSE F[j]]
    BY <2>1, <2>2
  <2>4. Log!Arrive
    BY <2>3 DEF Log!Arrive, F
  <2> QED
    BY <2>4 DEF Log!Next
<1>4. CASE /\ Fate(i) = "waiting" /\ f \in Log!Ends
           /\ f = "delivered" => posts[i] > 0
  <2>2. Log!Settle(i)
    BY <1>1, <1>4 DEF Log!Settle
  <2> QED
    BY <2>2 DEF Log!Next
<1> QED
  BY <1>2, <1>3, <1>4 DEF Log!Ends

\* Every step of every job is a step of the log or a stutter.
LEMMA LogStep ==
  Loops = {} /\ Inv /\ Accounted /\ UndecidedIsUntried /\ [Next]_vars => [Log!Next]_(Log!vars)
<1> SUFFICES ASSUME Loops = {}, Inv, Accounted, UndecidedIsUntried, [Next]_vars
             PROVE  [Log!Next]_(Log!vars)
  OBVIOUS
<1> USE DEF world, chatlog
<1>0. TypeOK /\ DeliveredReadsRouted
  BY DEF Inv
<1>1. ASSUME UNCHANGED <<decision, status, attempt>>
      PROVE  [i \in Items |-> Fate(i)]' = [i \in Items |-> Fate(i)]
  <2>1. \A i \in Items : Fate(i)' = Fate(i)
    BY <1>0, <1>1, FateFacts
  <2> QED
    BY <2>1
<1>2. ASSUME UNCHANGED <<decision, status, attempt, posts>> PROVE [Log!Next]_(Log!vars)
  BY <1>1, <1>2 DEF Log!vars
<1>3. CASE \E p \in Procs : \/ StartJob(p) \/ StartLoop(p) \/ ReadBacklog(p) \/ Finish(p)
                            \/ Crash(p) \/ AfterRetire(p) \/ ClaimSlot(p)
  BY <1>2, <1>3 DEF StartJob, StartLoop, ReadBacklog, Finish, Crash, AfterRetire, ClaimSlot
<1>4. CASE WindowOpens \/ UNCHANGED vars \/ \E j \in CanAge : ItemAges(j)
  BY <1>2, <1>4 DEF WindowOpens, ItemAges, vars
<1>5. ASSUME NEW p \in Procs, NEW i \in Items, Ingest(p, i) PROVE [Log!Next]_(Log!vars)
  <2>1. /\ decision[i] = "none" /\ decision'[i] \in Terminal \cup {"routed"}
        /\ \A j \in Items \ {i} : decision'[j] = decision[j]
        /\ UNCHANGED <<status, attempt, posts>>
    BY <1>0, <1>5 DEF Ingest, Mark, Terminal, TypeOK
  <2>2. status[i] = "none"
    BY <2>1 DEF UndecidedIsUntried
  <2>3. Fate(i) = "new" /\ Fate(i)' \in {"waiting", "retired"}
    BY <2>1, <2>2 DEF Fate, Backlog, Terminal
  <2> QED
    BY <1>0, <2>1, <2>3, FateStep
<1>6. ASSUME NEW p \in Procs, pc[p] \in {"retire", "gate", "drop", "next"}, ctx[p].batch # {},
             NEW d \in {"too_old", "gated", "rate_limited", "channel_disabled"},
             Mark(Min(ctx[p].batch), d), UNCHANGED <<status, attempt, posts>>
      PROVE  [Log!Next]_(Log!vars)
  <2>1. PICK i \in Backlog : i = Min(ctx[p].batch)
    <3>1. ctx[p] \in Context /\ ctx[p].batch \subseteq Backlog
      BY <1>0, <1>6 DEF Inv, NothingStale, TypeOK
    <3> QED
      BY <1>6, <3>1, MinOfBatch DEF Context
  <2>2. i \in Items /\ decision'[i] = d /\ \A j \in Items \ {i} : decision'[j] = decision[j]
    BY <1>0, <1>6, <2>1 DEF Mark, Backlog, TypeOK
  <2>3. Fate(i) = "waiting"
    BY <1>0, <2>1, <2>2, FateFacts
  <2>4. Fate(i)' \in {"waiting", "retired"}
    BY <1>6, <2>1, <2>2 DEF Fate, Backlog, Terminal
  <2> QED
    BY <1>0, <1>6, <2>2, <2>3, <2>4, FateStep
<1>7. ASSUME NEW p \in Procs, RetireAged(p) \/ Gate(p) \/ Drop(p) \/ NextPost(p)
      PROVE  [Log!Next]_(Log!vars)
  <2>1. UNCHANGED <<status, attempt, posts>>
    BY <1>7 DEF RetireAged, Gate, Drop, NextPost
  <2>2. \/ UNCHANGED decision
        \/ /\ pc[p] \in {"retire", "gate", "drop", "next"} /\ ctx[p].batch # {}
           /\ \E d \in {"too_old", "gated", "rate_limited", "channel_disabled"} :
                Mark(Min(ctx[p].batch), d)
    BY <1>7 DEF RetireAged, Gate, Drop, NextPost
  <2> QED
    BY <1>2, <1>6, <2>1, <2>2
<1>8. ASSUME NEW p \in Procs, SendPhoto(p) \/ SendText(p) \/ SendRaises(p)
      PROVE  [Log!Next]_(Log!vars)
  <2> DEFINE i == ctx[p].item
  <2>1. pc[p] \in {"photo", "text"} /\ UNCHANGED <<decision, status, attempt>>
    BY <1>8 DEF SendPhoto, SendText, SendRaises
  <2>2. UNCHANGED posts \/ posts' = [posts EXCEPT ![i] = @ + 1]
    BY <1>8 DEF SendPhoto, SendText, SendRaises, Call, Acknowledged, Unacknowledged
  <2>3. i \in Backlog /\ i \in Items
    BY <2>1 DEF Inv, InHand, Backlog
  <2>4. Fate(i) = "waiting"
    BY <1>0, <2>3, FateFacts
  <2>5. CASE posts' = [posts EXCEPT ![i] = @ + 1]
    <3>1. Log!Post(i)
      BY <1>1, <2>1, <2>3, <2>4, <2>5 DEF Log!Post
    <3> QED
      BY <2>3, <3>1 DEF Log!Next
  <2> QED
    BY <1>2, <2>1, <2>2, <2>5
<1>9. ASSUME NEW p \in Procs, Record(p) PROVE [Log!Next]_(Log!vars)
  <2>0. pc[p] = "record" /\ ctx[p].item \in Backlog /\ UNCHANGED posts
    BY <1>9 DEF Record, Inv, InHand
  <2>1. PICK i \in Backlog : i = ctx[p].item
    BY <2>0
  <2>2. ctx[p].result \in {"sent", "failed", "skipped"}
    BY <2>0 DEF Inv, InHand
  <2>3. /\ i \in Items
        /\ status'[i] = ctx[p].result /\ attempt'[i] = attempt[i] + 1
        /\ decision'[i] \in {"routed", "gated"}
        /\ \A j \in Items \ {i} : /\ decision'[j] = decision[j]
                                  /\ status'[j] = status[j]
                                  /\ attempt'[j] = attempt[j]
    BY <1>0, <1>9, <2>1 DEF Record, Mark, Backlog, TypeOK
  <2>4. Fate(i) = "waiting"
    BY <1>0, <2>1, <2>3, FateFacts
  <2>5. CASE ctx[p].result = "sent"
    <3>1. Fate(i)' = "delivered"
      BY <2>3, <2>5 DEF Fate, Backlog, Terminal
    <3>2. posts[i] > 0
      <4>1. Owes(p, i)
        BY <2>0, <2>1, <2>5 DEF Owes
      <4>2. posts[i] \in Nat /\ astray[i] \in Nat
        BY <1>0, <2>3 DEF TypeOK
      <4> QED
        BY <2>3, <4>1, <4>2 DEF Accounted
    <3> QED
      BY <1>0, <2>0, <2>3, <2>4, <3>1, <3>2, FateStep
  <2>6. CASE ctx[p].result = "skipped"
    <3>1. Fate(i)' = "rehearsed"
      BY <2>3, <2>6 DEF Fate, Backlog, Terminal
    <3> QED
      BY <1>0, <2>0, <2>3, <2>4, <3>1, FateStep
  <2>7. CASE ctx[p].result = "failed"
    <3>1. Fate(i)' \in {"waiting", "spent"}
      BY <2>1, <2>3, <2>7 DEF Fate, Backlog, Terminal, Statuses
    <3> QED
      BY <1>0, <2>0, <2>3, <2>4, <3>1, FateStep
  <2> QED
    BY <2>2, <2>5, <2>6, <2>7
<1> QED
  BY <1>3, <1>4, <1>5, <1>7, <1>8, <1>9 DEF Next, PostPhase

\* Whatever jobs run, crash, gate, retry and rehearse, the channel and its rows
\* behave as the log: copies of an item only while it waits, and every end for good.
THEOREM Refinement ==
  ASSUME Loops = {}
  PROVE  Spec => ImplementsChannelLog
<1>1. Init => Log!Init
  <2> SUFFICES ASSUME Init PROVE Log!Init
    OBVIOUS
  <2>1. \A i \in Items : Fate(i) = "new"
    BY DEF Init, Fate, Backlog, Terminal
  <2> QED
    BY <2>1 DEF Init, Log!Init
<1>2. Init => Accounted /\ UndecidedIsUntried
  BY DEF Init, Accounted, Owes, UndecidedIsUntried
<1>3. Inv /\ Accounted /\ [Next]_vars => Accounted'
  BY AccountedStep
<1>4. Inv /\ Accounted /\ UndecidedIsUntried /\ [Next]_vars => [Log!Next]_(Log!vars)
  BY LogStep
<1>5. Spec => []Inv
  BY Invariance
<1> QED
  BY <1>1, <1>2, <1>3, <1>4, <1>5, UndecidedStep, PTL DEF Spec, ImplementsChannelLog, Log!Spec

-----------------------------------------------------------------------------
(* How often an item may be in the channel.                                *)

\* The calls that the attempt under way may have made for item i by now.
Calls(i) ==
  IF \E p \in Procs : pc[p] = "record" /\ ctx[p].item = i THEN 2
  ELSE IF \E p \in Procs : pc[p] = "text" /\ ctx[p].item = i THEN 1 ELSE 0

\* Every copy is one of the two calls of an attempt that was recorded, of a pass that
\* ended before its time, or of the attempt under way.
CopiesCounted == \A i \in Items : posts[i] <= 2 * (attempt[i] + crashes) + Calls(i)

\* Photo and text of every attempt, and those of every pass that died: whatever is
\* lost or repeated, no item is in the channel more often.
CopiesBounded == \A i \in Items : posts[i] <= 2 * (MaxAttempts + crashes)

\* While p alone is in a pass, it makes the calls.
LEMMA CallsOf ==
  ASSUME NEW p \in Procs, \A q \in Procs \ {p} : pc[q] = "idle", NEW i
  PROVE  Calls(i) = IF ctx[p].item # i THEN 0
                    ELSE IF pc[p] = "record" THEN 2 ELSE IF pc[p] = "text" THEN 1 ELSE 0
BY DEF Calls

\* Every step of a locked pass keeps the count.
LEMMA CopiesStep ==
  ASSUME Loops = {}
  PROVE  Inv /\ TypeOK' /\ CopiesCounted /\ [Next]_vars => CopiesCounted'
<1> SUFFICES ASSUME Inv, TypeOK', CopiesCounted, [Next]_vars PROVE CopiesCounted'
  OBVIOUS
<1> USE DEF Goto, world, chatlog
<1>0. TypeOK /\ Procs = Jobs /\ None \notin Procs
  BY NoneAssumption DEF Inv, Procs
<1>c. ASSUME NEW p \in Procs PROVE ctx[p] \in Context
  BY <1>0 DEF TypeOK
<1>a. ASSUME NEW p \in Procs, pc[p] # "idle"
      PROVE  \A q \in Procs \ {p} : pc[q] = "idle"
  BY <1>0, <1>a DEF Inv, LockIsExclusive
<1>n. /\ \A i \in Items : posts[i] \in Nat /\ attempt[i] \in Nat
      /\ \A i \in Items : posts'[i] \in Nat /\ attempt'[i] \in Nat
      /\ crashes \in Nat /\ crashes' \in Nat
  BY <1>0, SettingsAssumption DEF TypeOK
<1>k. \A i \in Items : /\ Calls(i) \in {0, 1, 2} /\ Calls(i)' \in {0, 1, 2}
                       /\ posts[i] <= 2 * (attempt[i] + crashes) + Calls(i)
  BY DEF Calls, CopiesCounted
\* Steps that neither call nor end a call.
<1>1. ASSUME UNCHANGED <<posts, attempt, crashes>>,
             \A i \in Items : Calls(i) <= Calls(i)'
      PROVE  CopiesCounted'
  BY <1>1, <1>n, <1>k DEF CopiesCounted
<1>2. ASSUME NEW p \in Procs, pc[p] \notin {"text", "record"},
             \A q \in Procs \ {p} : pc'[q] = pc[q] /\ ctx'[q] = ctx[q],
             UNCHANGED <<posts, attempt, crashes>>
      PROVE  CopiesCounted'
  <2>1. \A i \in Items : Calls(i) <= Calls(i)'
    BY <1>2 DEF Calls
  <2> QED
    BY <1>1, <1>2, <2>1
<1>3. ASSUME NEW p \in Procs,
             \/ StartJob(p) \/ StartLoop(p) \/ ReadBacklog(p) \/ Finish(p)
             \/ AfterRetire(p) \/ ClaimSlot(p)
      PROVE  CopiesCounted'
  <2>1. \A q \in Procs \ {p} : pc'[q] = pc[q] /\ ctx'[q] = ctx[q]
    BY <1>0, <1>3 DEF StartJob, StartLoop, ReadBacklog, Finish, AfterRetire, ClaimSlot, TypeOK
  <2>2. pc[p] \notin {"text", "record"} /\ UNCHANGED <<posts, attempt, crashes>>
    BY <1>3 DEF StartJob, StartLoop, ReadBacklog, Finish, AfterRetire, ClaimSlot
  <2> QED
    BY <1>2, <2>1, <2>2
<1>4. ASSUME NEW p \in Procs, RetireAged(p) \/ Gate(p) \/ Drop(p) \/ NextPost(p)
      PROVE  CopiesCounted'
  <2>1. \A q \in Procs \ {p} : pc'[q] = pc[q] /\ ctx'[q] = ctx[q]
    BY <1>0, <1>4 DEF RetireAged, Gate, Drop, NextPost, Advance, TypeOK
  <2>2. pc[p] \notin {"text", "record"} /\ UNCHANGED <<posts, attempt, crashes>>
    BY <1>4 DEF RetireAged, Gate, Drop, NextPost
  <2> QED
    BY <1>2, <2>1, <2>2
<1>5. ASSUME NEW p \in Procs, NEW i \in Items, Ingest(p, i) PROVE CopiesCounted'
  BY <1>2, <1>5 DEF Ingest
<1>6. ASSUME WindowOpens \/ UNCHANGED vars \/ \E i \in CanAge : ItemAges(i) PROVE CopiesCounted'
  BY <1>1, <1>6, <1>k DEF WindowOpens, ItemAges, vars, Calls
\* A call adds one copy at most, of the item in hand.
<1>7. ASSUME NEW p \in Procs, pc[p] \in {"photo", "text"},
             Unacknowledged(ctx[p].item) \/ Acknowledged(ctx[p].item)
      PROVE  \A i \in Items : posts'[i] <= posts[i] + (IF ctx[p].item = i THEN 1 ELSE 0)
  BY <1>0, <1>7, <1>n DEF Unacknowledged, Acknowledged, TypeOK
<1>8. ASSUME NEW p \in Procs, SendPhoto(p) \/ SendText(p) PROVE CopiesCounted'
  <2>1. /\ pc[p] \in {"photo", "text"} /\ UNCHANGED <<attempt, crashes>>
        /\ Unacknowledged(ctx[p].item) \/ Acknowledged(ctx[p].item)
    BY <1>8 DEF SendPhoto, SendText, Call
  <2>2. /\ pc'[p] \in {"text", "record"}
        /\ pc[p] = "text" => pc'[p] = "record"
        /\ \A q \in Procs \ {p} : pc'[q] = pc[q]
    BY <1>0, <1>8 DEF SendPhoto, SendText, Call, TypeOK
  <2>3. ctx'[p].item = ctx[p].item
    <3>1. ASSUME NEW r, ctx' = [ctx EXCEPT ![p].result = r] PROVE ctx'[p].item = ctx[p].item
      BY <1>0, <1>c, <3>1 DEF TypeOK, Context
    <3> QED
      BY <1>8, <3>1 DEF SendPhoto, SendText, Call
  <2>4. \A q \in Procs \ {p} : pc[q] = "idle" /\ pc'[q] = "idle"
    BY <1>a, <2>1, <2>2
  <2>5. ASSUME NEW i \in Items
        PROVE  posts'[i] <= 2 * (attempt'[i] + crashes') + Calls(i)'
    <3>1. posts'[i] <= posts[i] + (IF ctx[p].item = i THEN 1 ELSE 0)
      BY <1>7, <2>1
    <3>2. Calls(i) = IF ctx[p].item # i THEN 0 ELSE IF pc[p] = "text" THEN 1 ELSE 0
      BY <2>1, <2>4, CallsOf
    <3>3. Calls(i)' = IF ctx'[p].item # i THEN 0
                      ELSE IF pc'[p] = "record" THEN 2 ELSE IF pc'[p] = "text" THEN 1 ELSE 0
      BY <2>4 DEF Calls
    <3>4. Calls(i)' >= Calls(i) + (IF ctx[p].item = i THEN 1 ELSE 0)
      BY <2>1, <2>2, <2>3, <3>2, <3>3
    <3> QED
      BY <1>n, <1>k, <2>1, <3>1, <3>4
  <2> QED
    BY <2>5 DEF CopiesCounted
<1>9. ASSUME NEW p \in Procs, SendRaises(p) PROVE CopiesCounted'
  <2>1. /\ pc[p] \in {"photo", "text"} /\ attempt' = attempt /\ crashes' = crashes + 1
        /\ Unacknowledged(ctx[p].item)
    BY <1>9 DEF SendRaises, Abort
  <2>2. \A q \in Procs \ {p} : pc[q] = "idle"
    BY <1>a, <2>1
  <2>3. ASSUME NEW i \in Items
        PROVE  posts'[i] <= 2 * (attempt'[i] + crashes') + Calls(i)'
    <3>1. posts'[i] <= posts[i] + 1
      BY <1>7, <1>n, <2>1
    <3>2. Calls(i) <= 1
      BY <2>1, <2>2, CallsOf
    <3> QED
      BY <1>n, <1>k, <2>1, <3>1, <3>2
  <2> QED
    BY <2>3 DEF CopiesCounted
<1>10. ASSUME NEW p \in Procs, Crash(p) PROVE CopiesCounted'
  <2>1. UNCHANGED <<posts, attempt>> /\ crashes' = crashes + 1
    BY <1>10 DEF Crash, Abort
  <2> QED
    BY <1>n, <1>k, <2>1 DEF CopiesCounted
<1>11. ASSUME NEW p \in Procs, Record(p) PROVE CopiesCounted'
  <2>1. /\ pc[p] = "record" /\ ctx[p].item \in Items /\ UNCHANGED <<posts, crashes>>
        /\ attempt' = [attempt EXCEPT ![ctx[p].item] = @ + 1]
    BY <1>11 DEF Record, Inv, InHand, Backlog
  <2>2. \A q \in Procs \ {p} : pc[q] = "idle"
    BY <1>a, <2>1
  <2>3. ASSUME NEW i \in Items
        PROVE  posts'[i] <= 2 * (attempt'[i] + crashes') + Calls(i)'
    <3>1. Calls(i) = IF ctx[p].item # i THEN 0 ELSE 2
      BY <2>1, <2>2, CallsOf
    <3>2. attempt'[i] = IF ctx[p].item = i THEN attempt[i] + 1 ELSE attempt[i]
      BY <1>0, <2>1 DEF TypeOK
    <3> QED
      BY <1>n, <1>k, <2>1, <3>1, <3>2
  <2> QED
    BY <2>3 DEF CopiesCounted
<1> QED
  BY <1>3, <1>4, <1>5, <1>6, <1>8, <1>9, <1>10, <1>11 DEF Next, PostPhase

\* Retries, the photo fallback, lost answers and dead passes together put an item
\* into the channel at most twice for every attempt and every pass that died.
THEOREM CopiesAreBounded ==
  ASSUME Loops = {}
  PROVE  Spec => []CopiesBounded
<1>1. Init => CopiesCounted
  BY SettingsAssumption DEF Init, CopiesCounted, Calls
<1>2. Inv /\ TypeOK' /\ CopiesCounted /\ [Next]_vars => CopiesCounted'
  BY CopiesStep
<1>3. Inv /\ CopiesCounted => CopiesBounded
  <2> SUFFICES ASSUME Inv, CopiesCounted, NEW i \in Items
               PROVE  posts[i] <= 2 * (MaxAttempts + crashes)
    BY DEF CopiesBounded
  <2>1. posts[i] \in Nat /\ attempt[i] \in Nat /\ crashes \in Nat /\ attempt[i] <= MaxAttempts
    BY SettingsAssumption DEF Inv, TypeOK, RetriesBounded
  <2>2. posts[i] <= 2 * (attempt[i] + crashes) + Calls(i)
    BY DEF CopiesCounted
  <2>3. CASE Calls(i) = 0
    BY <2>1, <2>2, <2>3, SettingsAssumption
  <2>4. CASE Calls(i) # 0
    <3>1. i \in Backlog /\ Calls(i) <= 2 /\ Calls(i) \in Nat
      BY <2>4 DEF Calls, Inv, InHand
    <3>2. status[i] = "none" => attempt[i] = 0
      BY DEF Inv, FirstAttempt
    <3>3. attempt[i] + 1 <= MaxAttempts
      BY <2>1, <3>1, <3>2, SettingsAssumption DEF Backlog
    <3> QED
      BY <2>1, <2>2, <3>1, <3>3, SettingsAssumption
  <2> QED
    BY <2>3, <2>4
<1>4. Spec => []Inv
  BY Invariance
<1>5. Inv => TypeOK
  BY DEF Inv
<1> QED
  BY <1>1, <1>2, <1>3, <1>4, <1>5, PTL DEF Spec

-----------------------------------------------------------------------------
(* The cap of a window.                                                    *)

\* A window's selection is no larger than the cap, whichever the policy is.
LEMMA SelectionIsCapped ==
  ASSUME NEW S \in SUBSET Items
  PROVE  IsFiniteSet(ToPost(S)) /\ Cardinality(ToPost(S)) <= Cap
<1>1. S \in SUBSET Nat /\ IsFiniteSet(S) /\ Cap \in Nat
  BY ItemsAssumption, SettingsAssumption, FS_Subset
<1> DEFINE above == [i \in Newest(S) |-> Cardinality({j \in S : j > i})]
           below == [i \in Oldest(S) |-> Cardinality({j \in S : j < i})]
<1>2. Newest(S) \subseteq S /\ Oldest(S) \subseteq S
  BY DEF Newest, Oldest
<1>3. \A i, k \in S : i = k \/ i < k \/ k < i
  BY <1>1
<1>4. IsFiniteSet(Newest(S)) /\ Cardinality(Newest(S)) <= Cap
  <2>1. above \in [Newest(S) -> Nat] /\ \A i \in Newest(S) : above[i] < Cap
    BY <1>1, <1>2, RankedApart DEF Newest
  <2> DEFINE rank(i) == Cardinality({j \in S : j > i})
  <2>2. \A i, k \in S : i < k => rank(i) # rank(k)
    BY <1>1, RankedApart
  <2> HIDE DEF rank
  <2>3. \A i, k \in Newest(S) : rank(i) = rank(k) => i = k
    BY <1>2, <1>3, <2>2
  <2>4. \A i, k \in Newest(S) : above[i] = above[k] => i = k
    BY <2>3 DEF rank
  <2> HIDE DEF above
  <2> QED
    BY <1>1, <2>1, <2>4, RankedAreFew
<1>5. IsFiniteSet(Oldest(S)) /\ Cardinality(Oldest(S)) <= Cap
  <2>1. below \in [Oldest(S) -> Nat] /\ \A i \in Oldest(S) : below[i] < Cap
    BY <1>1, <1>2, RankedApart DEF Oldest
  <2> DEFINE rank(i) == Cardinality({j \in S : j < i})
  <2>2. \A i, k \in S : i < k => rank(i) # rank(k)
    BY <1>1, RankedApart
  <2> HIDE DEF rank
  <2>3. \A i, k \in Oldest(S) : rank(i) = rank(k) => i = k
    BY <1>2, <1>3, <2>2
  <2>4. \A i, k \in Oldest(S) : below[i] = below[k] => i = k
    BY <2>3 DEF rank
  <2> HIDE DEF below
  <2> QED
    BY <1>1, <2>1, <2>4, RankedAreFew
<1> QED
  BY <1>4, <1>5 DEF ToPost

\* What a process has selected for its window and not handled yet.
AtPosts == {"next", "photo", "text", "record"}
Selected(p) == ctx[p].batch \cup ({ctx[p].item} \ {None})

\* "Batch cap per posting window" (docs/configuration.md): of all the sources of the
\* channel together, a pass has no more than the cap to post, whatever piled up.
CapHeld ==
  \A p \in Procs : pc[p] \in AtPosts =>
    IsFiniteSet(Selected(p)) /\ Cardinality(Selected(p)) <= Cap

\* A process has an item in its hand only while it posts it.
OneAtATime == \A p \in Procs : pc[p] \notin AtPosts \ {"next"} => ctx[p].item = None

\* A step of one process keeps both when it narrows the selection or makes it anew.
LEMMA CapKept ==
  ASSUME TypeOK, CapHeld, OneAtATime, NEW p \in Procs,
         \A q \in Procs \ {p} : pc'[q] = pc[q] /\ ctx'[q] = ctx[q],
         pc'[p] \notin AtPosts \ {"next"} => ctx'[p].item = None,
         pc'[p] \in AtPosts =>
           \/ pc[p] \in AtPosts /\ Selected(p)' \subseteq Selected(p)
           \/ Selected(p)' = ToPost(ctx[p].fresh)
  PROVE  CapHeld' /\ OneAtATime'
<1>1. OneAtATime'
  BY DEF OneAtATime
<1>2. SUFFICES ASSUME NEW q \in Procs, pc'[q] \in AtPosts
               PROVE  IsFiniteSet(Selected(q)') /\ Cardinality(Selected(q)') <= Cap
  BY <1>1 DEF CapHeld
<1>3. CASE q # p
  <2>1. pc'[q] = pc[q] /\ Selected(q)' = Selected(q)
    BY <1>3 DEF Selected
  <2> QED
    BY <1>2, <2>1 DEF CapHeld
<1>4. CASE q = p /\ pc[p] \in AtPosts /\ Selected(p)' \subseteq Selected(p)
  <2>1. IsFiniteSet(Selected(p)) /\ Cardinality(Selected(p)) <= Cap
    BY <1>4 DEF CapHeld
  <2> DEFINE old == Selected(p)
             new == Selected(p)'
  <2>2. new \in SUBSET old
    BY <1>4
  <2> HIDE DEF old, new
  <2>3. IsFiniteSet(old) /\ Cardinality(old) <= Cap
    BY <2>1 DEF old
  <2>4. IsFiniteSet(new) /\ Cardinality(new) <= Cardinality(old)
    BY <2>2, <2>3, FS_Subset
  <2>a. Cardinality(new) \in Nat /\ Cardinality(old) \in Nat /\ Cap \in Nat
    BY <2>3, <2>4, FS_CardinalityType, SettingsAssumption
  <2>5. Cardinality(new) <= Cap
    BY <2>3, <2>4, <2>a
  <2> QED
    BY <1>4, <2>4, <2>5 DEF new
<1>5. CASE q = p /\ Selected(p)' = ToPost(ctx[p].fresh)
  <2>1. ctx[p].fresh \in SUBSET Items
    BY DEF TypeOK, Context
  <2> QED
    BY <1>5, <2>1, SelectionIsCapped
<1> QED
  BY <1>2, <1>3, <1>4, <1>5

\* Every step keeps the cap; it needs no lock.
LEMMA CapStep ==
  TypeOK /\ CapHeld /\ OneAtATime /\ [Next]_vars => CapHeld' /\ OneAtATime'
<1> SUFFICES ASSUME TypeOK, CapHeld, OneAtATime, [Next]_vars
             PROVE  CapHeld' /\ OneAtATime'
  OBVIOUS
<1> USE DEF Goto
<1>0. ASSUME NEW p \in Procs
      PROVE  /\ ctx[p] \in Context /\ ctx[p].batch \in SUBSET Items
             /\ pc[p] \notin AtPosts \ {"next"} => ctx[p].item = None
  BY DEF TypeOK, Context, OneAtATime
<1>1. ASSUME UNCHANGED <<pc, ctx>> PROVE CapHeld' /\ OneAtATime'
  BY <1>1 DEF CapHeld, OneAtATime, Selected
<1>2. ASSUME NEW p \in Procs,
             \/ StartJob(p) \/ StartLoop(p) \/ ReadBacklog(p) \/ RetireAged(p)
             \/ AfterRetire(p) \/ ClaimSlot(p) \/ Gate(p)
      PROVE  CapHeld' /\ OneAtATime'
  <2>1. /\ \A q \in Procs \ {p} : pc'[q] = pc[q] /\ ctx'[q] = ctx[q]
        /\ pc[p] \notin AtPosts /\ pc'[p] \notin AtPosts
        /\ ctx'[p].item = ctx[p].item
    BY <1>0, <1>2 DEF StartJob, StartLoop, ReadBacklog, RetireAged, AfterRetire, ClaimSlot, Gate,
       Advance, TypeOK, AtPosts, Context
  <2> QED
    BY <1>0, <2>1, CapKept
<1>3. ASSUME NEW p \in Procs, Finish(p) \/ Crash(p) \/ SendRaises(p)
      PROVE  CapHeld' /\ OneAtATime'
  <2>1. /\ \A q \in Procs \ {p} : pc'[q] = pc[q] /\ ctx'[q] = ctx[q]
        /\ pc'[p] = "idle" /\ ctx'[p] = Nothing
    BY <1>3 DEF Finish, Crash, SendRaises, Abort, TypeOK
  <2> QED
    BY <2>1, CapKept DEF Nothing, AtPosts
<1>4. ASSUME NEW p \in Procs, Drop(p) PROVE CapHeld' /\ OneAtATime'
  <2>1. /\ \A q \in Procs \ {p} : pc'[q] = pc[q] /\ ctx'[q] = ctx[q]
        /\ pc[p] = "drop" /\ pc'[p] \in {"drop", "next"}
        /\ ctx'[p].item = ctx[p].item
        /\ pc'[p] = "next" => ctx'[p].batch = ToPost(ctx[p].fresh)
    BY <1>0, <1>4 DEF Drop, Advance, TypeOK, Context
  <2>2. ctx'[p].item = None
    BY <1>0, <2>1 DEF AtPosts
  <2>3. pc'[p] \in AtPosts => Selected(p)' = ToPost(ctx[p].fresh)
    BY <2>1, <2>2 DEF AtPosts, Selected
  <2> QED
    BY <2>1, <2>2, <2>3, CapKept
<1>5. ASSUME NEW p \in Procs, NextPost(p) PROVE CapHeld' /\ OneAtATime'
  <2> DEFINE i == Min(ctx[p].batch)
  <2>1. /\ \A q \in Procs \ {p} : pc'[q] = pc[q] /\ ctx'[q] = ctx[q]
        /\ pc[p] = "next" /\ ctx[p].item = None
    BY <1>0, <1>5 DEF NextPost, Advance, TypeOK, AtPosts
  <2>2. \/ pc'[p] = "done" /\ ctx'[p].item = None
        \/ pc'[p] = "next" /\ ctx'[p].item = None /\ ctx'[p].batch \subseteq ctx[p].batch
        \/ /\ pc'[p] \in {"photo", "text", "record"} /\ i \in ctx[p].batch
           /\ ctx'[p].item = i /\ ctx'[p].batch \subseteq ctx[p].batch
    <3>1. ctx[p].batch # {} => i \in ctx[p].batch
      BY <1>0, MinOfBatch
    <3> HIDE DEF i
    <3>2. \/ pc'[p] = "done" /\ ctx' = ctx
          \/ pc' = pc /\ ctx' = [ctx EXCEPT ![p].batch = @ \ {i}]
          \/ /\ pc'[p] \in {"photo", "text", "record"} /\ ctx[p].batch # {}
             /\ \E r : ctx' = [ctx EXCEPT ![p].batch = @ \ {i}, ![p].item = i, ![p].result = r]
      BY <1>5 DEF NextPost, Advance, TypeOK, i
    <3> QED
      BY <1>0, <2>1, <3>1, <3>2 DEF TypeOK, Context
  <2> HIDE DEF i
  <2>3. pc'[p] \in AtPosts => pc[p] \in AtPosts /\ Selected(p)' \subseteq Selected(p)
    BY <2>1, <2>2 DEF AtPosts, Selected
  <2>4. pc'[p] \notin AtPosts \ {"next"} => ctx'[p].item = None
    BY <2>2 DEF AtPosts
  <2> QED
    BY <2>1, <2>3, <2>4, CapKept
<1>6. ASSUME NEW p \in Procs, SendPhoto(p) \/ SendText(p) PROVE CapHeld' /\ OneAtATime'
  <2>1. /\ \A q \in Procs \ {p} : pc'[q] = pc[q] /\ ctx'[q] = ctx[q]
        /\ pc[p] \in AtPosts /\ pc'[p] \in AtPosts \ {"next"}
    BY <1>6 DEF SendPhoto, SendText, Call, AtPosts, TypeOK
  <2>2. ctx'[p].item = ctx[p].item /\ ctx'[p].batch = ctx[p].batch
    BY <1>0, <1>6 DEF SendPhoto, SendText, Call, TypeOK, Context
  <2>3. Selected(p)' \subseteq Selected(p)
    BY <2>2 DEF Selected
  <2> QED
    BY <2>1, <2>3, CapKept
<1>7. ASSUME NEW p \in Procs, Record(p) PROVE CapHeld' /\ OneAtATime'
  <2>1. /\ \A q \in Procs \ {p} : pc'[q] = pc[q] /\ ctx'[q] = ctx[q]
        /\ pc[p] \in AtPosts
        /\ ctx'[p].item = None /\ ctx'[p].batch = ctx[p].batch
    BY <1>0, <1>7 DEF Record, AtPosts, TypeOK, Context
  <2>2. Selected(p)' \subseteq Selected(p)
    BY <2>1 DEF Selected
  <2> QED
    BY <2>1, <2>2, CapKept
<1>8. CASE UNCHANGED vars
  BY <1>1, <1>8 DEF vars
<1>9. ASSUME \/ \E p \in Procs, i \in Items : Ingest(p, i)
             \/ WindowOpens
             \/ \E i \in CanAge : ItemAges(i)
      PROVE  CapHeld' /\ OneAtATime'
  BY <1>1, <1>9 DEF Ingest, WindowOpens, ItemAges
<1> QED
  BY <1>2, <1>3, <1>4, <1>5, <1>6, <1>7, <1>8, <1>9 DEF Next, PostPhase

\* Of all the sources of a channel together, no window has more to post than
\* max_posts_per_run, with jobs and without the lock.
THEOREM CapPerWindow == Spec => []CapHeld
<1>1. Init => CapHeld /\ OneAtATime
  BY DEF Init, CapHeld, OneAtATime, AtPosts, Nothing
<1> QED
  BY <1>1, CapStep, TypeOKInit, TypeOKStep, PTL DEF Spec
=============================================================================
