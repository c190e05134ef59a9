-------------------------- MODULE FetchCycleProofs --------------------------
(***************************************************************************)
(* Proofs about FetchCycle, for every number of sources and items, every   *)
(* setting of the feeds, every relation of duplicates and any amount of    *)
(* time and crashes.  Each section proves an invariant from those before.  *)
(***************************************************************************)
EXTENDS FetchCycle, NumberLemmas, FiniteSetTheorems, TLAPS

-----------------------------------------------------------------------------
(* The newest n of a set.                                                  *)

\* The items of any source are finitely many, published ones too.
LEMMA ItemsFinite ==
  \A S \in SUBSET Items : IsFiniteSet(S) /\ S \subseteq Nat
BY ItemsAssumption, FS_Subset

\* How many items of S are newer than i is a number, and smaller for newer ones.
LEMMA NewerCount ==
  ASSUME NEW S \in SUBSET Items, NEW i \in Items
  PROVE  /\ Cardinality({j \in S : j > i}) \in Nat
         /\ \A k \in S : k > i =>
              Cardinality({j \in S : j > k}) < Cardinality({j \in S : j > i})
<1> DEFINE N(k) == {j \in S : j > k}
<1>1. \A k \in Items : IsFiniteSet(N(k)) /\ Cardinality(N(k)) \in Nat
  BY ItemsFinite, FS_CardinalityType
<1>2. ASSUME NEW k \in S, k > i
      PROVE  Cardinality(N(k)) < Cardinality(N(i))
  <2>1. i \in Nat /\ k \in Nat /\ \A j \in S : j \in Nat
    BY ItemsFinite
  <2>2. \A j \in S : j > k => j > i
    BY <1>2, <2>1
  <2>3. N(k) \subseteq N(i)
    BY <2>2
  <2>4. k \in N(i) /\ k \notin N(k)
    BY <1>2, <2>1
  <2>5. IsFiniteSet(N(i)) /\ N(k) \in SUBSET N(i)
    BY <1>1, <2>3
  <2> HIDE DEF N
  <2>6. /\ Cardinality(N(k)) <= Cardinality(N(i))
        /\ Cardinality(N(i)) = Cardinality(N(k)) => N(i) = N(k)
    BY <2>5, FS_Subset
  <2>7. Cardinality(N(i)) \in Nat /\ Cardinality(N(k)) \in Nat
    BY <1>1
  <2> QED
    BY <2>4, <2>6, <2>7
<1> QED
  BY <1>1, <1>2

\* The newest n are an upper part of the set.
LEMMA NewestUpper ==
  ASSUME NEW S \in SUBSET Items, NEW n \in Nat, NEW i \in S \ Newest(S, n),
         NEW k \in Newest(S, n)
  PROVE  i < k
<1>1. i \in Nat /\ k \in Nat /\ k \in S
  BY ItemsFinite DEF Newest
<1>2. ~(Cardinality({j \in S : j > i}) < n) /\ Cardinality({j \in S : j > k}) < n
  BY DEF Newest
<1>3. i # k
  BY <1>2
<1>4. i > k => Cardinality({j \in S : j > i}) < Cardinality({j \in S : j > k})
  BY <1>1, NewerCount
<1>5. Cardinality({j \in S : j > i}) \in Nat /\ Cardinality({j \in S : j > k}) \in Nat
  BY <1>1, NewerCount
<1> DEFINE ni == Cardinality({j \in S : j > i})
           nk == Cardinality({j \in S : j > k})
<1> HIDE DEF ni, nk
<1>6. ~(ni < n) /\ nk < n /\ (i > k => ni < nk) /\ ni \in Nat /\ nk \in Nat
  BY <1>2, <1>4, <1>5 DEF ni, nk
<1> QED
  BY <1>1, <1>3, <1>6

\* There are at most n of them,
LEMMA NewestAtMost ==
  ASSUME NEW S \in SUBSET Items, NEW n \in Nat
  PROVE  /\ IsFiniteSet(Newest(S, n)) /\ Cardinality(Newest(S, n)) \in Nat
         /\ Cardinality(Newest(S, n)) <= n
<1> DEFINE W == Newest(S, n)
<1>1. W \in SUBSET Items /\ W \subseteq S /\ W \in SUBSET Nat
  BY ItemsFinite DEF Newest
<1>2. IsFiniteSet(W) /\ Cardinality(W) \in Nat
  BY <1>1, ItemsFinite, FS_CardinalityType
<1>3. CASE W = {}
  BY <1>2, <1>3, FS_EmptySet
<1>4. CASE W # {}
  <2> DEFINE m == Min(W)
             N == {j \in S : j > m}
  <2>1. m \in W /\ \A j \in W : m <= j
    BY <1>1, <1>4, MinExists
  <2> HIDE DEF m
  <2>2. Cardinality(N) < n
    BY <2>1 DEF Newest
  <2>3. IsFiniteSet(N) /\ Cardinality(N) \in Nat
    BY ItemsFinite, FS_CardinalityType
  <2>4. W \ {m} \subseteq N
    <3> SUFFICES ASSUME NEW j \in W, j # m PROVE j \in S /\ j > m
      OBVIOUS
    <3>1. j \in Nat /\ m \in Nat /\ m <= j /\ j \in S
      BY <1>1, <2>1
    <3> QED
      BY <3>1
  <2>5. Cardinality(W \ {m}) <= Cardinality(N)
    BY <2>3, <2>4, FS_Subset
  <2>6. Cardinality(W \ {m}) = Cardinality(W) - 1
    BY <1>2, <2>1, FS_RemoveElement
  <2> QED
    BY <1>2, <2>2, <2>3, <2>5, <2>6
<1> QED
  BY <1>2, <1>3, <1>4

\* and no fewer, when an item is left out.
LEMMA NewestAtLeast ==
  ASSUME NEW S \in SUBSET Items, NEW n \in Nat, S \ Newest(S, n) # {}
  PROVE  Cardinality(Newest(S, n)) >= n
<1> DEFINE W == Newest(S, n)
           N(i) == {j \in S : j > i}
           Counts == {Cardinality(N(i)) : i \in S \ W}
<1>1. S \subseteq Items /\ \A i \in S : Cardinality(N(i)) \in Nat
  BY NewerCount
<1>2. Counts \in SUBSET Nat /\ Counts # {}
  BY <1>1
<1>3. PICK i \in S \ W : \A k \in S \ W : Cardinality(N(i)) <= Cardinality(N(k))
  <2>1. Min(Counts) \in Counts /\ \A c \in Counts : Min(Counts) <= c
    BY <1>2, MinExists
  <2>2. PICK i \in S \ W : Min(Counts) = Cardinality(N(i))
    BY <2>1
  <2>3. \A k \in S \ W : Cardinality(N(k)) \in Counts
    OBVIOUS
  <2> HIDE DEF Counts
  <2>4. \A k \in S \ W : Cardinality(N(i)) <= Cardinality(N(k))
    BY <2>1, <2>2, <2>3
  <2> QED
    BY <2>4
<1>4. N(i) \subseteq W
  <2> SUFFICES ASSUME NEW k \in S, k > i, k \notin W PROVE FALSE
    OBVIOUS
  <2>1. Cardinality(N(k)) < Cardinality(N(i))
    BY NewerCount
  <2>2. Cardinality(N(i)) <= Cardinality(N(k))
    BY <1>3
  <2> HIDE DEF N
  <2> QED
    BY <1>1, <2>1, <2>2
<1>5. Cardinality(N(i)) >= n
  <2>1. ~(Cardinality(N(i)) < n)
    BY <1>3 DEF Newest
  <2> HIDE DEF N
  <2> QED
    BY <1>1, <2>1
<1>6. IsFiniteSet(W) /\ Cardinality(W) \in Nat
  BY NewestAtMost
<1>7. Cardinality(N(i)) <= Cardinality(W)
  BY <1>4, <1>6, FS_Subset
<1> HIDE DEF N, W
<1>8. Cardinality(W) >= n
  BY <1>1, <1>5, <1>6, <1>7
<1> QED
  BY <1>8 DEF W

\* The newest n of the newest m are the newest n, when m >= n.
LEMMA NewestOfNewest ==
  ASSUME NEW S \in SUBSET Items, NEW n \in Nat, NEW m \in Nat, n <= m
  PROVE  Newest(Newest(S, m), n) = Newest(S, n)
<1> DEFINE D == Newest(S, m)
<1>1. D \subseteq S /\ D \in SUBSET Items
  BY DEF Newest
<1>2. \A i \in S : Cardinality({j \in S : j > i}) \in Nat
  BY NewerCount
<1>3. Newest(S, n) \subseteq D
  BY <1>2 DEF Newest
<1>4. ASSUME NEW i \in D
      PROVE  {j \in D : j > i} = {j \in S : j > i}
  <2> SUFFICES ASSUME NEW j \in S, j > i, j \notin D PROVE FALSE
    BY <1>1
  <2>1. j < i
    BY <1>4, NewestUpper
  <2>2. i \in Nat /\ j \in Nat
    BY <1>1, ItemsFinite
  <2> QED
    BY <2>1, <2>2
<1>5. \A i \in D : i \in Newest(D, n) <=> i \in Newest(S, n)
  BY <1>1, <1>4 DEF Newest
<1>6. Newest(D, n) \subseteq D
  BY DEF Newest
<1> QED
  BY <1>3, <1>5, <1>6

-----------------------------------------------------------------------------
(* Type correctness.                                                       *)

\* The backoff lies between the interval and the cap, and the first failure
\* keeps the cadence.
LEMMA BackoffBounds ==
  ASSUME NEW s \in Sources, NEW n \in Nat \ {0}
  PROVE  /\ Backoff(s, n) \in Nat
         /\ Interval[s] <= Backoff(s, n)
         /\ Backoff(s, n) <= Max({Cap, Interval[s]})
         /\ n = 1 => Backoff(s, n) = Interval[s]
<1> DEFINE I == Interval[s]
           top == Max({Cap, I})
           p == 2 ^ (n - 1)
<1>1. I \in Nat \ {0} /\ Cap \in Nat
  BY SpecAssumption, BoundsAssumption
<1>2. p \in Nat /\ p >= 1
  <2>1. n - 1 \in Nat
    OBVIOUS
  <2> QED
    BY <2>1, PowerPositive
<1>3. n = 1 => p = 1
  OBVIOUS
<1>4. top \in Nat /\ I <= top
  BY <1>1, PairMax
<1> HIDE DEF p, top, I
<1>5. I * p \in Nat /\ I <= I * p /\ (p = 1 => I * p = I)
  BY <1>1, <1>2
<1>6. Min({I * p, top}) = IF I * p <= top THEN I * p ELSE top
  BY <1>4, <1>5, PairMin
<1>7. Backoff(s, n) = Min({I * p, top})
  BY DEF Backoff, I, p, top
<1>8. Backoff(s, n) = IF I * p <= top THEN I * p ELSE top
  BY <1>6, <1>7
<1>9. /\ Backoff(s, n) \in Nat /\ I <= Backoff(s, n) /\ Backoff(s, n) <= top
      /\ n = 1 => Backoff(s, n) = I
  BY <1>1, <1>3, <1>4, <1>5, <1>8
<1> QED
  BY <1>9 DEF I, top

\* The row after a failure is a row; what the failure changes in it.
LEMMA FailedRow ==
  ASSUME TypeOK, NEW s \in Sources
  PROVE  /\ Failed(s) \in SourceState
         /\ Failed(s).failures = row[s].failures + 1
         /\ Failed(s).next = ctx.started + Backoff(s, row[s].failures + 1)
         /\ Failed(s).etag = row[s].etag /\ Failed(s).last = row[s].last
         /\ Failed(s).cold_start_done = row[s].cold_start_done
<1>1. row[s] \in SourceState /\ ctx.started \in Nat
  BY DEF TypeOK, Context
<1>2. row[s].failures \in Nat
  BY <1>1 DEF SourceState
<1> DEFINE n == row[s].failures + 1
           due == ctx.started + Backoff(s, n)
<1>3. n \in Nat \ {0}
  BY <1>2
<1>4. due \in Nat
  <2> HIDE DEF n
  <2>1. Backoff(s, n) \in Nat
    BY <1>3, BackoffBounds
  <2> QED
    BY <1>1, <2>1
<1>5. Failed(s) = [row[s] EXCEPT !.failures = n, !.next = due]
  BY DEF Failed
<1>6. n = row[s].failures + 1 /\ due = ctx.started + Backoff(s, row[s].failures + 1)
  OBVIOUS
<1> HIDE DEF n, due
<1>7. /\ Failed(s) \in SourceState
      /\ Failed(s).failures = n /\ Failed(s).next = due
      /\ Failed(s).etag = row[s].etag /\ Failed(s).last = row[s].last
      /\ Failed(s).cold_start_done = row[s].cold_start_done
  BY <1>1, <1>3, <1>4, <1>5 DEF SourceState
<1> QED
  BY <1>6, <1>7

\* So is the row after a 304.
LEMMA UnchangedRow ==
  ASSUME TypeOK, NEW s \in Sources, NEW r,
         r = [row[s] EXCEPT !.next = ctx.started + Interval[s], !.last = TRUE, !.failures = 0]
  PROVE  /\ r \in SourceState
         /\ r.failures = 0 /\ r.next = ctx.started + Interval[s]
         /\ r.etag = row[s].etag /\ r.last = TRUE
         /\ r.cold_start_done = row[s].cold_start_done
<1>1. row[s] \in SourceState /\ ctx.started \in Nat /\ Interval[s] \in Nat
  BY SpecAssumption DEF TypeOK, Context
<1>2. ctx.started + Interval[s] \in Nat
  BY <1>1
<1> QED
  BY <1>1, <1>2 DEF SourceState

\* What a feed serves are published items of the source.
LEMMA DocTypes ==
  ASSUME TypeOK, NEW s \in Sources
  PROVE  /\ Doc(s) \in SUBSET Items /\ Doc(s) \subseteq ItemsOf(s) \cap published
         /\ Slice(s) \subseteq Doc(s) \ Broken
BY DEF TypeOK, Doc, Slice, Newest, ItemsOf

\* A step that moves the pass on, or ends it, leaves the locals well formed.
LEMMA ContextStep ==
  ASSUME ctx \in Context
  PROVE  /\ Nothing \in Context
         /\ [ctx EXCEPT !.turn = @ + 1] \in Context
         /\ \A t \in Nat : [Nothing EXCEPT !.now = t, !.turn = 1] \in Context
         /\ \A t, n \in Nat : [ctx EXCEPT !.started = t, !.streak = n] \in Context
         /\ \A t, n \in Nat : [ctx EXCEPT !.started = t, !.streak = n].turn = ctx.turn
<1>1. Nothing \in Context
  BY DEF Context, Nothing
<1>2. \A c \in Context, t, n \in Nat :
        /\ [c EXCEPT !.now = t, !.turn = n] \in Context
        /\ [c EXCEPT !.started = t, !.streak = n] \in Context
        /\ [c EXCEPT !.started = t, !.streak = n].turn = c.turn
        /\ [c EXCEPT !.turn = n] \in Context
  BY DEF Context
<1>3. ctx.turn + 1 \in Nat
  BY DEF Context
<1> QED
  BY <1>1, <1>2, <1>3

\* A step of an attempt that saves row r for the source it is at.
LEMMA SaveTypes ==
  ASSUME TypeOK, pc = "fetch", NEW r \in SourceState, Save(ctx.turn, r)
  PROVE  row' \in [Sources -> SourceState] /\ tried' \in [Sources -> Nat \cup {None}]
BY DEF TypeOK, Save, Context

\* Both ways on from a success.
LEMMA RecoveredTypes ==
  ASSUME TypeOK, pc = "fetch", Recovered
  PROVE  /\ pc' \in {"next", "resolve"} /\ ctx' \in Context
         /\ pc' = "resolve" => ctx'.turn \in Sources
BY ContextStep DEF TypeOK, Recovered, NextSource, PCs

\* Every local and every row keeps its type (TypeOK).
LEMMA TypeInit == Init => TypeOK
BY BoundsAssumption DEF Init, TypeOK, Decisions, SourceState, Fresh, Context, Nothing, PCs, Sources

\* No step breaks a type (TypeOK).
LEMMA TypeStep == TypeOK /\ [Next]_vars => TypeOK'
<1> SUFFICES ASSUME TypeOK, [Next]_vars PROVE TypeOK'
  OBVIOUS
<1> USE DEF archive, rows, events
<1>1. CASE StartPass
  <2>1. clock \in Nat
    BY BoundsAssumption DEF TypeOK
  <2>2. ctx' \in Context
    BY <1>1, <2>1, ContextStep DEF StartPass, TypeOK
  <2> QED
    BY <1>1, <2>2 DEF StartPass, TypeOK, PCs
<1>2. CASE SkipSource
  BY <1>2, ContextStep DEF SkipSource, TypeOK
<1>3. CASE StartFetch
  <2>1. clock \in Nat /\ row[ctx.turn].failures \in Nat
    BY <1>3, BoundsAssumption DEF StartFetch, TypeOK, SourceState
  <2>2. ctx' \in Context /\ ctx'.turn = ctx.turn
    BY <1>3, <2>1, ContextStep DEF StartFetch, TypeOK
  <2> QED
    BY <1>3, <2>2 DEF StartFetch, TypeOK, PCs
<1>4. CASE EndPass
  BY <1>4, ContextStep DEF EndPass, TypeOK, PCs
<1>5. CASE FetchFails
  BY <1>5, FailedRow, SaveTypes DEF FetchFails, TypeOK, PCs
<1>6. CASE ParseFails
  BY <1>6, FailedRow, SaveTypes DEF ParseFails, TypeOK, PCs
<1>7. CASE NotModified
  <2>1. ctx.turn \in Sources
    BY <1>7 DEF NotModified, TypeOK
  <2>2. row' \in [Sources -> SourceState] /\ tried' \in [Sources -> Nat \cup {None}]
    BY <1>7, <2>1, UnchangedRow, SaveTypes DEF NotModified
  <2> QED
    BY <1>7, <2>2, RecoveredTypes DEF NotModified, TypeOK, PCs
<1>8. CASE Store
  <2> DEFINE s == ctx.turn
             New == Slice(s) \ stored
  <2>1. s \in Sources /\ clock \in Nat
    BY <1>8, BoundsAssumption DEF Store, TypeOK
  <2>2. New \subseteq published \ (Broken \cup Poison) /\ New \subseteq Items
    BY <1>8, <2>1, DocTypes DEF Store
  <2>3. stored' = stored \cup New /\ seen' \in [Items -> Nat]
    BY <1>8, <2>1 DEF Store, StoreItems, TypeOK
  <2>4. PICK d \in Attributions(New) :
          /\ dupOf' = d
          /\ decision' = [i \in Items |-> IF i \in New THEN Decided(s, i, d[i])
                                          ELSE decision[i]]
    BY <1>8 DEF Store, StoreItems
  <2>5. dupOf' \in [Items -> Items \cup {None}]
    BY <2>2, <2>4 DEF Attributions, TypeOK
  <2>6. \A i \in Items : Decided(s, i, d[i]) \in Decisions
    BY DEF Decided, Decisions
  <2>7. decision' \in [Items -> Decisions]
    BY <2>4, <2>6 DEF TypeOK
  <2>8. PICK e \in {{Doc(s)}, {}} :
          Save(s, [next |-> ctx.started + Interval[s], last |-> TRUE, etag |-> e,
                   cold_start_done |-> TRUE, failures |-> 0])
    BY <1>8 DEF Store
  <2>9. ctx.started + Interval[s] \in Nat /\ e \in SUBSET SUBSET Items
    BY <2>1, DocTypes, SpecAssumption DEF TypeOK, Context
  <2>10. row' \in [Sources -> SourceState] /\ tried' \in [Sources -> Nat \cup {None}]
    BY <1>8, <2>8, <2>9, SaveTypes DEF Store, SourceState
  <2>11. excused' \in [Sources -> SUBSET Items]
    BY <1>8, <2>1 DEF Store, TypeOK, ItemsOf
  <2> QED
    BY <1>8, <2>2, <2>3, <2>5, <2>7, <2>10, <2>11, RecoveredTypes DEF Store, TypeOK, PCs
<1>9. CASE FetchRaises
  BY <1>9, ContextStep DEF FetchRaises, TypeOK, PCs
<1>10. CASE Report
  BY <1>10, ContextStep DEF Report, NextSource, TypeOK, PCs
<1>11. CASE Resolve
  BY <1>11, ContextStep DEF Resolve, NextSource, TypeOK, PCs
<1>12. CASE Crash
  <2>1. crashes' \in 0..MaxCrashes
    BY <1>12, BoundsAssumption DEF Crash, TypeOK
  <2>2. ctx' \in Context /\ orphaned' \subseteq Sources
    BY <1>12, ContextStep DEF Crash, TypeOK
  <2> QED
    BY <1>12, <2>1, <2>2 DEF Crash, TypeOK, PCs
<1>13. CASE Tick
  BY <1>13, BoundsAssumption DEF Tick, TypeOK
<1>14. CASE \E i \in Items : Publish(i)
  BY <1>14 DEF Publish, TypeOK
<1>15. CASE UNCHANGED vars
  BY <1>15 DEF vars, TypeOK
<1> QED
  BY <1>1, <1>2, <1>3, <1>4, <1>5, <1>6, <1>7, <1>8, <1>9, <1>10, <1>11, <1>12,
     <1>13, <1>14, <1>15 DEF Next, Pass

\* Every variable of the fetch cycle keeps its type, whatever feeds answer and
\* wherever passes die (TypeOK).
THEOREM TypeCorrect == Spec => []TypeOK
BY TypeInit, TypeStep, PTL DEF Spec

-----------------------------------------------------------------------------
(* Time and the backoff.                                                   *)

\* What the code relies on: no time it has read lies ahead of the clock.
NothingAhead ==
  /\ ctx.now <= clock /\ ctx.started <= clock
  /\ \A i \in stored : seen[i] <= clock

\* The next attempt of every source that was tried is due an interval after the
\* last at the earliest; a source is fetched when it is due; and its streak is
\* the one that was loaded, for nobody else writes its row meanwhile.
Paced ==
  /\ NextAttemptInBounds
  /\ \A s \in Sources : tried[s] # None => row[s].next >= tried[s] + Interval[s]
  /\ pc = "fetch" => row[ctx.turn].next <= ctx.started /\ ctx.streak = row[ctx.turn].failures

\* The clock only moves forward.
LEMMA ClockInit == Init => NothingAhead
BY DEF Init, NothingAhead, Nothing

\* No step reads a time ahead of the clock.
LEMMA ClockStep == TypeOK /\ NothingAhead /\ [Next]_vars => NothingAhead'
<1> SUFFICES ASSUME TypeOK, NothingAhead, [Next]_vars PROVE NothingAhead'
  OBVIOUS
<1> USE DEF archive, rows, events
<1>0. clock \in Nat /\ ctx \in Context /\ stored \subseteq Items /\ \A i \in Items : seen[i] \in Nat
  BY BoundsAssumption DEF TypeOK
<1>1. CASE StartPass
  <2>1. ctx'.now = clock /\ ctx'.started = 0
    BY <1>1 DEF StartPass, Nothing
  <2> QED
    BY <1>0, <1>1, <2>1 DEF StartPass, NothingAhead
<1>2. CASE SkipSource \/ EndPass \/ FetchRaises \/ Report \/ Resolve \/ Crash
  <2>1. ctx' = Nothing \/ ctx' = [ctx EXCEPT !.turn = @ + 1]
    BY <1>2 DEF SkipSource, EndPass, FetchRaises, Report, Resolve, Crash, NextSource
  <2>2. ctx'.now <= clock /\ ctx'.started <= clock
    BY <1>0, <2>1 DEF NothingAhead, Nothing, Context
  <2> QED
    BY <1>2, <2>2 DEF NothingAhead, SkipSource, EndPass, FetchRaises, Report, Resolve, Crash
<1>3. CASE StartFetch
  <2>1. ctx'.now = ctx.now /\ ctx'.started = clock
    BY <1>0, <1>3 DEF StartFetch, Context
  <2> QED
    BY <1>0, <1>3, <2>1 DEF StartFetch, NothingAhead
<1>4. CASE FetchFails \/ ParseFails
  BY <1>4 DEF NothingAhead, FetchFails, ParseFails
<1>5. CASE NotModified \/ Store
  <2>1. ctx'.now = ctx.now /\ ctx'.started = ctx.started /\ clock' = clock
    BY <1>0, <1>5 DEF NotModified, Store, Recovered, NextSource, Context
  <2>2. \A i \in stored' : seen'[i] <= clock
    <3>1. CASE NotModified
      BY <3>1 DEF NotModified, NothingAhead
    <3>2. CASE Store
      <4> DEFINE New == Slice(ctx.turn) \ stored
      <4>1. /\ stored' = stored \cup New
            /\ seen' = [i \in Items |-> IF i \in New THEN clock ELSE seen[i]]
        BY <3>2 DEF Store, StoreItems
      <4>2. New \subseteq Items
        BY <3>2, DocTypes DEF Store, TypeOK
      <4> HIDE DEF New
      <4> QED
        BY <1>0, <4>1, <4>2 DEF NothingAhead
    <3> QED
      BY <1>5, <3>1, <3>2
  <2> QED
    BY <2>1, <2>2 DEF NothingAhead
<1>6. CASE Tick
  <2>1. clock' = clock + 1 /\ UNCHANGED <<ctx, stored, seen>>
    BY <1>6 DEF Tick
  <2>2. ctx.now \in Nat /\ ctx.started \in Nat
    BY <1>0 DEF Context
  <2> QED
    BY <1>0, <2>1, <2>2 DEF NothingAhead
<1>7. CASE \E i \in Items : Publish(i)
  BY <1>7 DEF Publish, NothingAhead
<1>8. CASE UNCHANGED vars
  BY <1>8 DEF vars, NothingAhead
<1> QED
  BY <1>1, <1>2, <1>3, <1>4, <1>5, <1>6, <1>7, <1>8 DEF Next, Pass

\* Both together, for the invariants below.
LEMMA TimeIsRight == Spec => [](TypeOK /\ NothingAhead)
BY TypeInit, TypeStep, ClockInit, ClockStep, PTL DEF Spec

\* An attempt that saves a row whose next attempt is in bounds keeps the pace.
LEMMA SavePaced ==
  ASSUME TypeOK, Paced, pc = "fetch", pc' # "fetch", NEW r \in SourceState,
         Save(ctx.turn, r),
         ctx.started + Interval[ctx.turn] <= r.next,
         r.next <= ctx.started + Max({Cap, Interval[ctx.turn]}),
         r.failures <= 1 => r.next = ctx.started + Interval[ctx.turn]
  PROVE  Paced'
<1>1. ctx.turn \in Sources
  BY DEF TypeOK
<1>2. /\ row'[ctx.turn] = r /\ tried'[ctx.turn] = ctx.started
      /\ \A s \in Sources \ {ctx.turn} : row'[s] = row[s] /\ tried'[s] = tried[s]
  BY <1>1 DEF Save, TypeOK
<1> QED
  BY <1>1, <1>2 DEF Paced, NextAttemptInBounds

\* A step that writes no row and starts no attempt keeps it too.
LEMMA StutterPaced ==
  ASSUME Paced, UNCHANGED rows,
         pc' # "fetch" \/ (pc' = pc /\ ctx' = ctx)
  PROVE  Paced'
BY DEF Paced, NextAttemptInBounds, rows

\* Nothing was tried before the first pass.
LEMMA PacedInit == Init => Paced
BY DEF Init, Paced, NextAttemptInBounds

\* No step disturbs the pace: only attempts write rows, only after a due time.
LEMMA PacedStep == TypeOK /\ NothingAhead /\ Paced /\ [Next]_vars => Paced'
<1> SUFFICES ASSUME TypeOK, NothingAhead, Paced, [Next]_vars PROVE Paced'
  OBVIOUS
<1>1. CASE \/ StartPass \/ SkipSource \/ EndPass \/ FetchRaises \/ Report \/ Resolve
           \/ Crash \/ Tick \/ (\E i \in Items : Publish(i)) \/ UNCHANGED vars
  BY <1>1, StutterPaced DEF StartPass, SkipSource, EndPass, FetchRaises, Report,
     Resolve, NextSource, Crash, Tick, Publish, vars, rows
<1>2. CASE StartFetch
  <2> DEFINE s == ctx.turn
  <2>1. s \in Sources /\ row[s].next <= ctx.now /\ ctx.now <= clock /\ UNCHANGED rows
    BY <1>2 DEF StartFetch, Due, NothingAhead
  <2>2. row[s].next \in Nat /\ clock \in Nat /\ ctx.now \in Nat
    BY <2>1, BoundsAssumption DEF TypeOK, SourceState, Context
  <2>3. ctx'.turn = s /\ ctx'.started = clock /\ ctx'.streak = row[s].failures
    BY <1>2 DEF StartFetch, TypeOK, Context
  <2> QED
    BY <2>1, <2>2, <2>3 DEF Paced, NextAttemptInBounds, rows
<1>3. CASE FetchFails \/ ParseFails
  <2> DEFINE s == ctx.turn
             n == row[s].failures + 1
  <2>1. s \in Sources /\ pc = "fetch" /\ pc' = "report" /\ Save(s, Failed(s))
    BY <1>3 DEF FetchFails, ParseFails, TypeOK
  <2>2. ctx.started \in Nat /\ row[s].failures \in Nat
    BY <2>1 DEF TypeOK, Context, SourceState
  <2>3. n \in Nat \ {0} /\ (n <= 1 => n = 1)
    BY <2>2
  <2>4. /\ Failed(s) \in SourceState /\ Failed(s).failures = n
        /\ Failed(s).next = ctx.started + Backoff(s, n)
    BY <2>1, FailedRow
  <2> HIDE DEF n
  <2>5. /\ Backoff(s, n) \in Nat /\ Interval[s] <= Backoff(s, n)
        /\ Backoff(s, n) <= Max({Cap, Interval[s]})
        /\ n = 1 => Backoff(s, n) = Interval[s]
    BY <2>1, <2>3, BackoffBounds
  <2>6. Interval[s] \in Nat /\ Max({Cap, Interval[s]}) \in Nat
    BY <2>1, SpecAssumption, BoundsAssumption, PairMax
  <2>7. /\ ctx.started + Interval[s] <= Failed(s).next
        /\ Failed(s).next <= ctx.started + Max({Cap, Interval[s]})
        /\ Failed(s).failures <= 1 => Failed(s).next = ctx.started + Interval[s]
    BY <2>2, <2>3, <2>4, <2>5, <2>6
  <2> QED
    BY <2>1, <2>4, <2>7, SavePaced
<1>4. CASE NotModified \/ Store
  <2> DEFINE s == ctx.turn
  <2>1. s \in Sources /\ pc = "fetch" /\ pc' # "fetch"
    BY <1>4 DEF NotModified, Store, Recovered, NextSource, TypeOK
  <2>2. PICK r \in SourceState : /\ Save(s, r) /\ r.next = ctx.started + Interval[s]
    <3>1. CASE NotModified
      BY <2>1, <3>1, UnchangedRow DEF NotModified
    <3>2. CASE Store
      <4>1. PICK e \in {{Doc(s)}, {}} :
              Save(s, [next |-> ctx.started + Interval[s], last |-> TRUE, etag |-> e,
                       cold_start_done |-> TRUE, failures |-> 0])
        BY <3>2 DEF Store
      <4>2. ctx.started + Interval[s] \in Nat /\ e \in SUBSET SUBSET Items
        BY <2>1, DocTypes, SpecAssumption DEF TypeOK, Context
      <4> DEFINE r == [next |-> ctx.started + Interval[s], last |-> TRUE, etag |-> e,
                       cold_start_done |-> TRUE, failures |-> 0]
      <4>3. r \in SourceState /\ r.next = ctx.started + Interval[s] /\ Save(s, r)
        BY <4>1, <4>2 DEF SourceState
      <4> HIDE DEF r
      <4> QED
        BY <4>3
    <3> QED
      BY <1>4, <3>1, <3>2
  <2>3. /\ Interval[s] \in Nat /\ Max({Cap, Interval[s]}) \in Nat
        /\ Interval[s] <= Max({Cap, Interval[s]}) /\ ctx.started \in Nat
    <3>1. Interval[s] \in Nat /\ Cap \in Nat /\ ctx.started \in Nat
      BY <2>1, SpecAssumption, BoundsAssumption DEF TypeOK, Context
    <3> QED
      BY <3>1, PairMax
  <2>4. /\ ctx.started + Interval[s] <= r.next
        /\ r.next <= ctx.started + Max({Cap, Interval[s]})
    BY <2>2, <2>3
  <2> QED
    BY <2>1, <2>2, <2>4, SavePaced
<1> QED
  BY <1>1, <1>2, <1>3, <1>4 DEF Next, Pass

\* The backoff never leaves its bounds, however long the streak and whatever the
\* interval (NextAttemptInBounds).
THEOREM BackoffBounded == Spec => []NextAttemptInBounds
<1>1. Spec => []Paced
  BY TimeIsRight, PacedInit, PacedStep, PTL DEF Spec
<1>2. Paced => NextAttemptInBounds
  BY DEF Paced
<1> QED
  BY <1>1, <1>2, PTL

\* A dead feed is never polled faster than its interval, whatever crashes and
\* restarts lie between two attempts (PolledAtCadence).
THEOREM NoHotLoop == Spec => PolledAtCadence
<1> DEFINE Polled == \A s \in Sources : tried'[s] # tried[s] /\ tried[s] # None
                       => tried'[s] >= tried[s] + Interval[s]
<1>1. TypeOK /\ Paced /\ [Next]_vars => Polled
  <2> SUFFICES ASSUME TypeOK, Paced, [Next]_vars, NEW s \in Sources,
                      tried'[s] # tried[s], tried[s] # None
               PROVE  tried'[s] >= tried[s] + Interval[s]
    OBVIOUS
  <2>1. CASE UNCHANGED tried
    BY <2>1
  <2>2. CASE FetchFails \/ ParseFails \/ NotModified \/ Store
    <3>1. pc = "fetch" /\ tried' = [tried EXCEPT ![ctx.turn] = ctx.started]
      BY <2>2 DEF FetchFails, ParseFails, NotModified, Store, Save
    <3>2. s = ctx.turn /\ tried'[s] = ctx.started
      BY <3>1 DEF TypeOK
    <3>3. row[s].next <= ctx.started /\ row[s].next >= tried[s] + Interval[s]
      BY <3>1, <3>2 DEF Paced
    <3>4. /\ row[s].next \in Nat /\ ctx.started \in Nat /\ tried[s] \in Nat
          /\ Interval[s] \in Nat
      BY SpecAssumption DEF TypeOK, SourceState, Context
    <3> QED
      BY <3>2, <3>3, <3>4
  <2>3. CASE \/ StartPass \/ SkipSource \/ StartFetch \/ EndPass \/ FetchRaises \/ Report
             \/ Resolve \/ Crash \/ Tick \/ (\E i \in Items : Publish(i)) \/ UNCHANGED vars
    BY <2>1, <2>3 DEF StartPass, SkipSource, StartFetch, EndPass, FetchRaises, Report,
       Resolve, Crash, Tick, Publish, vars, rows
  <2> QED
    BY <2>2, <2>3 DEF Next, Pass
<1>2. Spec => [](TypeOK /\ Paced)
  BY TimeIsRight, PacedInit, PacedStep, PTL DEF Spec
<1>3. TypeOK /\ Paced /\ [Next]_vars => [Polled]_vars
  BY <1>1
<1>4. Spec => [][Polled]_vars
  BY <1>2, <1>3, PTL DEF Spec
<1> QED
  BY <1>4 DEF PolledAtCadence

-----------------------------------------------------------------------------
(* The archive: duplicates.                                                *)

\* The steps other than Store leave the archive alone.
LEMMA ArchiveStutter ==
  ASSUME [Next]_vars, ~Store
  PROVE  UNCHANGED archive
BY DEF Next, Pass, StartPass, SkipSource, StartFetch, EndPass, FetchFails, ParseFails,
   NotModified, FetchRaises, Report, Resolve, Crash, Tick, Publish, vars, archive

\* Among candidates there is one first seen before the others.
LEMMA FirstSeenExists ==
  ASSUME NEW C \in SUBSET Items, NEW at \in [Items -> Nat], C # {}
  PROVE  FirstSeen(C, at) # {}
<1> DEFINE T == {at[j] : j \in C}
<1>1. T \in SUBSET Nat /\ T # {}
  OBVIOUS
<1>2. Min(T) \in T /\ \A t \in T : Min(T) <= t
  BY <1>1, MinExists
<1>3. PICK j \in C : at[j] = Min(T)
  BY <1>2
<1>4. \A k \in C : at[k] \in T
  OBVIOUS
<1> HIDE DEF T
<1>5. \A k \in C : at[j] <= at[k]
  BY <1>2, <1>3, <1>4
<1> QED
  BY <1>5 DEF FirstSeen

\* What find_duplicate returns is a candidate that matches; it returns nothing
\* only when no candidate does.
LEMMA FoundOrNot ==
  ASSUME NEW New \in SUBSET Items, NEW at \in [Items -> Nat], NEW i \in New,
         NEW d \in [Items -> Items \cup {None}], TypeOK, Attributed(New, at, d)
  PROVE  \/ /\ d[i] = None
            /\ \A j \in Candidates(i, New, d) : {i, j} \notin Near
         \/ /\ d[i] \in Candidates(i, New, d) /\ {i, d[i]} \in Near
            /\ d[i] # None
<1> DEFINE C == Candidates(i, New, d)
           found == FirstSeen(Matches(i, C), at)
<1>1. C \in SUBSET Items
  BY DEF Candidates, Originals, TypeOK
<1>2. IF found = {} THEN d[i] = None ELSE d[i] \in found
  BY DEF Attributed
<1> HIDE DEF C
<1>3. Matches(i, C) \in SUBSET C /\ \A j \in Matches(i, C) : {i, j} \in Near
  BY PairsAssumption DEF Matches
<1>4. Matches(i, C) = {} => \A j \in C : {i, j} \notin Near
  BY DEF Matches
<1>5. found \subseteq Matches(i, C)
  BY DEF FirstSeen
<1>6. found = {} => Matches(i, C) = {}
  BY <1>1, <1>3, FirstSeenExists
<1>7. \A j \in Items : j # None
  BY ItemsAssumption, NoneAssumption
<1> HIDE DEF found
<1>8. CASE found = {}
  BY <1>2, <1>4, <1>6, <1>8 DEF C
<1>9. CASE found # {}
  <2>1. d[i] \in C /\ {i, d[i]} \in Near /\ d[i] \in Items
    BY <1>1, <1>2, <1>3, <1>5, <1>9
  <2> QED
    BY <1>7, <2>1 DEF C
<1> QED
  BY <1>8, <1>9

\* What Store does to the archive.
LEMMA StoreEffect ==
  ASSUME TypeOK, TypeOK', Store
  PROVE  \E New \in SUBSET Items :
           /\ New = Slice(ctx.turn) \ stored
           /\ stored' = stored \cup New
           /\ \A i \in New : i \notin stored /\ seen'[i] = clock
           /\ \A i \in stored : seen'[i] = seen[i] /\ dupOf'[i] = dupOf[i]
           /\ Attributed(New, seen', dupOf')
<1> DEFINE New == Slice(ctx.turn) \ stored
<1>1. New \in SUBSET Items /\ \A i \in New : i \notin stored
  BY DocTypes DEF Store, TypeOK
<1>2. stored' = stored \cup New /\ seen' = [i \in Items |-> IF i \in New THEN clock ELSE seen[i]]
  BY DEF Store, StoreItems
<1>3. PICK d \in Attributions(New) : dupOf' = d /\ Attributed(New, seen', d)
  BY DEF Store, StoreItems
<1> HIDE DEF New
<1>4. \A i \in Items \ New : dupOf'[i] = dupOf[i]
  BY <1>3 DEF Attributions
<1>5. stored \subseteq Items
  BY DEF TypeOK
<1>6. /\ \A i \in New : i \notin stored /\ seen'[i] = clock
      /\ \A i \in stored : seen'[i] = seen[i] /\ dupOf'[i] = dupOf[i]
      /\ Attributed(New, seen', dupOf')
  BY <1>1, <1>2, <1>3, <1>4, <1>5
<1> QED
  BY <1>1, <1>2, <1>6 DEF New

\* Store keeps stories apart.
LEMMA StoreKeepsApart ==
  ASSUME TypeOK, TypeOK', NothingAhead, OriginalsAreApart, Store
  PROVE  OriginalsAreApart'
<1>1. PICK New \in SUBSET Items :
           /\ stored' = stored \cup New
           /\ \A i \in New : i \notin stored /\ seen'[i] = clock
           /\ \A i \in stored : seen'[i] = seen[i] /\ dupOf'[i] = dupOf[i]
           /\ Attributed(New, seen', dupOf')
  BY StoreEffect
<1>2. /\ seen' \in [Items -> Nat] /\ dupOf' \in [Items -> Items \cup {None}]
      /\ clock \in Nat /\ Window \in Nat /\ ctx.started \in Nat /\ ctx.started <= clock
      /\ stored \subseteq Items /\ New \subseteq Nat
      /\ \A i \in Items : seen[i] \in Nat /\ seen'[i] \in Nat
  <2>1. New \subseteq Nat
    BY ItemsFinite
  <2>2. seen' \in [Items -> Nat] /\ dupOf' \in [Items -> Items \cup {None}]
    BY DEF TypeOK
  <2>3. /\ clock \in Nat /\ Window \in Nat /\ ctx.started \in Nat /\ ctx.started <= clock
        /\ stored \subseteq Items /\ seen \in [Items -> Nat]
    BY BoundsAssumption DEF TypeOK, Context, NothingAhead
  <2> QED
    BY <2>1, <2>2, <2>3
<1>3. \A i \in New : dupOf'[i] = None =>
        \A j \in Candidates(i, New, dupOf') : {i, j} \notin Near
  BY <1>1, <1>2, FoundOrNot, ZenonT(60)
<1>4. ASSUME NEW i \in New, NEW j \in stored, {i, j} \in Near,
             dupOf'[i] = None, dupOf'[j] = None
      PROVE  seen'[j] + Window < seen'[i]
  <2>1. j \notin Originals(ctx.started)
    BY <1>3, <1>4 DEF Candidates
  <2>2. dupOf[j] = None /\ seen'[j] = seen[j] /\ seen'[i] = clock
    BY <1>1, <1>4
  <2>3. ~(seen[j] + Window >= ctx.started)
    BY <2>1, <2>2 DEF Originals
  <2>4. seen[j] \in Nat
    BY <1>2
  <2> QED
    BY <1>2, <2>2, <2>3, <2>4
<1>5. ASSUME NEW i \in New, NEW j \in New, j > i,
             dupOf'[i] = None, dupOf'[j] = None
      PROVE  {i, j} \notin Near
  BY <1>3, <1>5 DEF Candidates
<1>6. \A i, j : {i, j} = {j, i}
  OBVIOUS
<1> SUFFICES ASSUME NEW i \in stored', NEW j \in stored', i # j, {i, j} \in Near,
                    dupOf'[i] = None, dupOf'[j] = None
             PROVE  seen'[i] + Window < seen'[j] \/ seen'[j] + Window < seen'[i]
  BY DEF OriginalsAreApart
<1>7. CASE i \in stored /\ j \in stored
  BY <1>1, <1>7 DEF OriginalsAreApart
<1>8. CASE i \in New /\ j \in stored
  BY <1>4, <1>8
<1>9. CASE i \in stored /\ j \in New
  BY <1>4, <1>6, <1>9
<1>10. CASE i \in New /\ j \in New
  <2>1. i \in Nat /\ j \in Nat /\ (i > j \/ j > i)
    BY <1>2, <1>10
  <2> QED
    BY <1>5, <1>6, <1>10, <2>1
<1> QED
  BY <1>1, <1>7, <1>8, <1>9, <1>10

\* Store keeps chains flat.
LEMMA StoreKeepsFlat ==
  ASSUME TypeOK, TypeOK', NothingAhead, ChainsAreFlat, Store
  PROVE  ChainsAreFlat'
<1>1. PICK New \in SUBSET Items :
           /\ stored' = stored \cup New
           /\ \A i \in New : i \notin stored /\ seen'[i] = clock
           /\ \A i \in stored : seen'[i] = seen[i] /\ dupOf'[i] = dupOf[i]
           /\ Attributed(New, seen', dupOf')
  BY StoreEffect
<1>2. /\ seen' \in [Items -> Nat] /\ dupOf' \in [Items -> Items \cup {None}]
      /\ New \subseteq Nat /\ clock \in Nat /\ \A i \in stored : seen[i] <= clock
  <2>1. New \subseteq Nat
    BY ItemsFinite
  <2>2. seen' \in [Items -> Nat] /\ dupOf' \in [Items -> Items \cup {None}]
    BY DEF TypeOK
  <2>3. clock \in Nat /\ \A i \in stored : seen[i] <= clock
    BY BoundsAssumption DEF TypeOK, NothingAhead
  <2> QED
    BY <2>1, <2>2, <2>3
<1> SUFFICES ASSUME NEW i \in stored', dupOf'[i] # None
             PROVE  /\ dupOf'[i] \in stored' \ {i} /\ dupOf'[dupOf'[i]] = None
                    /\ {i, dupOf'[i]} \in Near /\ seen'[dupOf'[i]] <= seen'[i]
  BY DEF ChainsAreFlat
<1>3. CASE i \in stored
  <2>1. dupOf'[i] = dupOf[i] /\ dupOf[i] \in stored \ {i} /\ dupOf[dupOf[i]] = None
    BY <1>1, <1>3 DEF ChainsAreFlat
  <2> QED
    BY <1>1, <1>3, <2>1 DEF ChainsAreFlat
<1>4. CASE i \in New
  <2> DEFINE o == dupOf'[i]
  <2>1. o \in Candidates(i, New, dupOf') /\ {i, o} \in Near
    BY <1>1, <1>2, <1>4, FoundOrNot
  <2>2. CASE o \in Originals(ctx.started)
    <3>1. o \in stored /\ dupOf[o] = None
      BY <2>2 DEF Originals
    <3>2. o # i /\ dupOf'[o] = None /\ seen'[o] <= seen'[i]
      BY <1>1, <1>2, <1>4, <3>1
    <3> QED
      BY <1>1, <2>1, <3>1, <3>2
  <2>3. CASE o \in New /\ o > i /\ dupOf'[o] = None
    <3>1. o # i /\ seen'[o] = seen'[i] /\ seen'[i] \in Nat
      BY <1>1, <1>2, <1>4, <2>3
    <3> QED
      BY <1>1, <1>2, <2>1, <2>3, <3>1
  <2> QED
    BY <2>1, <2>2, <2>3 DEF Candidates
<1> QED
  BY <1>1, <1>3, <1>4

\* A story has one original at a time: two originals that match were first seen
\* more than the window apart (OriginalsAreApart).
THEOREM OneOriginal == Spec => []OriginalsAreApart
<1>1. Init => OriginalsAreApart
  BY DEF Init, OriginalsAreApart
<1>2. TypeOK /\ TypeOK' /\ NothingAhead /\ OriginalsAreApart /\ [Next]_vars => OriginalsAreApart'
  <2>1. ASSUME UNCHANGED archive, OriginalsAreApart PROVE OriginalsAreApart'
    BY <2>1 DEF archive, OriginalsAreApart
  <2> QED
    BY <2>1, ArchiveStutter, StoreKeepsApart
<1> QED
  BY <1>1, <1>2, TimeIsRight, PTL DEF Spec

\* Duplicates name originals (ChainsAreFlat).
THEOREM FlatChains == Spec => []ChainsAreFlat
<1>1. Init => ChainsAreFlat
  BY DEF Init, ChainsAreFlat
<1>2. TypeOK /\ TypeOK' /\ NothingAhead /\ ChainsAreFlat /\ [Next]_vars => ChainsAreFlat'
  <2>1. ASSUME UNCHANGED archive, ChainsAreFlat PROVE ChainsAreFlat'
    BY <2>1 DEF archive, ChainsAreFlat
  <2> QED
    BY <2>1, ArchiveStutter, StoreKeepsFlat
<1> QED
  BY <1>1, <1>2, TimeIsRight, PTL DEF Spec

-----------------------------------------------------------------------------
(* The source's row.                                                       *)

\* What a step may do to the rows: nothing, or one of the three outcomes of an
\* attempt to the source the pass is at.
LEMMA RowStep ==
  ASSUME TypeOK, [Next]_vars
  PROVE  \/ UNCHANGED row
         \/ \E s \in Sources :
              /\ s = ctx.turn /\ pc = "fetch"
              /\ \A t \in Sources \ {s} : row'[t] = row[t]
              /\ \/ /\ ~Store
                    /\ row'[s].etag = row[s].etag
                    /\ row'[s].cold_start_done = row[s].cold_start_done
                    /\ \/ row'[s].last = row[s].last
                       \/ NotModified /\ row'[s].last = TRUE
                 \/ /\ Store
                    /\ row'[s].etag \subseteq {Doc(s)}
                    /\ row'[s].last = TRUE
<1>1. CASE FetchFails \/ ParseFails
  <2> DEFINE s == ctx.turn
  <2>1. s \in Sources /\ pc = "fetch" /\ pc' = "report" /\ row' = [row EXCEPT ![s] = Failed(s)]
    BY <1>1 DEF FetchFails, ParseFails, Save, TypeOK
  <2>2. /\ row'[s] = Failed(s) /\ \A t \in Sources \ {s} : row'[t] = row[t]
    BY <2>1 DEF TypeOK
  <2>3. ~Store
    BY <2>1 DEF Store, Recovered, NextSource
  <2> QED
    BY <2>1, <2>2, <2>3, FailedRow
<1>2. CASE NotModified
  <2> DEFINE s == ctx.turn
             r == [row[s] EXCEPT !.next = ctx.started + Interval[s], !.last = TRUE, !.failures = 0]
  <2>1. s \in Sources /\ pc = "fetch" /\ row' = [row EXCEPT ![s] = r]
    BY <1>2 DEF NotModified, Save, TypeOK
  <2>2. /\ row'[s] = r /\ \A t \in Sources \ {s} : row'[t] = row[t]
    BY <2>1 DEF TypeOK
  <2>3. r.etag = row[s].etag /\ r.last = TRUE /\ r.cold_start_done = row[s].cold_start_done
    BY <2>1, UnchangedRow
  <2> HIDE DEF r
  <2>4. CASE ~Store
    BY <1>2, <2>1, <2>2, <2>3, <2>4
  <2>5. CASE Store
    <3>1. row'[s].etag \in {{Doc(s)}, {}}
      BY <2>1, <2>5 DEF Store, Save, TypeOK
    <3> QED
      BY <2>1, <2>2, <2>3, <2>5, <3>1
  <2> QED
    BY <2>4, <2>5
<1>3. CASE Store
  <2> DEFINE s == ctx.turn
  <2>1. s \in Sources /\ pc = "fetch"
    BY <1>3 DEF Store, TypeOK
  <2>2. PICK e \in {{Doc(s)}, {}} :
          row' = [row EXCEPT ![s] =
                    [next |-> ctx.started + Interval[s], last |-> TRUE, etag |-> e,
                     cold_start_done |-> TRUE, failures |-> 0]]
    BY <1>3 DEF Store, Save
  <2>3. row'[s].etag = e /\ row'[s].last = TRUE /\ \A t \in Sources \ {s} : row'[t] = row[t]
    BY <2>1, <2>2 DEF TypeOK
  <2> QED
    BY <1>3, <2>1, <2>3
<1>4. CASE \/ StartPass \/ SkipSource \/ StartFetch \/ EndPass \/ FetchRaises \/ Report
           \/ Resolve \/ Crash \/ Tick \/ (\E i \in Items : Publish(i)) \/ UNCHANGED vars
  BY <1>4 DEF StartPass, SkipSource, StartFetch, EndPass, FetchRaises, Report,
     Resolve, Crash, Tick, Publish, vars, rows
<1> QED
  BY <1>1, <1>2, <1>3, <1>4 DEF Next, Pass

\* A 304 skips nothing (ValidatorsStandForStored).
THEOREM NothingSkipped == Spec => []ValidatorsStandForStored
<1>1. Init => ValidatorsStandForStored
  BY DEF Init, ValidatorsStandForStored, Fresh
<1>2. TypeOK /\ ValidatorsStandForStored /\ [Next]_vars => ValidatorsStandForStored'
  <2> SUFFICES ASSUME TypeOK, ValidatorsStandForStored, [Next]_vars,
                      NEW s \in Sources, NEW d \in row'[s].etag
               PROVE  Newest(d, Limit[s]) \ Broken \subseteq stored'
    BY DEF ValidatorsStandForStored
  <2>1. stored \subseteq stored'
    <3>1. CASE Store
      BY <3>1 DEF Store, StoreItems
    <3>2. CASE ~Store
      BY <3>2, ArchiveStutter DEF archive
    <3> QED
      BY <3>1, <3>2
  <2>2. CASE row'[s].etag = row[s].etag
    BY <2>1, <2>2 DEF ValidatorsStandForStored
  <2>3. CASE Store /\ s = ctx.turn /\ row'[s].etag \subseteq {Doc(s)}
    <3>1. d = Doc(s) /\ Slice(s) = Newest(d, Limit[s]) \ Broken
      BY <2>3 DEF Slice
    <3>2. stored' = stored \cup (Slice(s) \ stored)
      BY <2>3 DEF Store, StoreItems
    <3> QED
      BY <3>1, <3>2
  <2> QED
    BY <2>2, <2>3, RowStep
<1> QED
  BY <1>1, <1>2, TypeCorrect, PTL DEF Spec

-----------------------------------------------------------------------------
(* The cold start.                                                         *)

\* The cold start is not over before a fetch has succeeded.
ColdUntilFetched ==
  \A s \in Sources : ~row[s].last => ~row[s].cold_start_done

\* Only Store ends the cold start, and it sets last_fetch_utc with it.
LEMMA StillCold == Spec => [](TypeOK /\ ColdUntilFetched)
<1>1. Init => ColdUntilFetched
  BY DEF Init, ColdUntilFetched, Fresh
<1>2. TypeOK /\ ColdUntilFetched /\ [Next]_vars => ColdUntilFetched'
  BY RowStep DEF ColdUntilFetched
<1> QED
  BY <1>1, <1>2, TypeCorrect, PTL DEF Spec

\* The items that the first successful fetch routes are eligible.
LEMMA RoutedAreEligible ==
  ASSUME TypeOK, Store, ~row[ctx.turn].cold_start_done,
         NEW i \in Items \ stored, i \in stored', decision'[i] = "routed"
  PROVE  i \in Newest(Slice(ctx.turn), ColdStart[ctx.turn])
<1> DEFINE s == ctx.turn
           New == Slice(s) \ stored
<1>1. i \in New
  BY DEF Store, StoreItems
<1>2. PICK d : decision' = [k \in Items |-> IF k \in New THEN Decided(s, k, d[k])
                                            ELSE decision[k]]
  BY DEF Store, StoreItems
<1>3. Decided(s, i, d[i]) = "routed"
  BY <1>1, <1>2
<1> QED
  BY <1>3 DEF Decided, Eligible

\* The first successful fetch of a source routes at most as many items as its
\* policy says (ColdStartHeld).
THEOREM NoFlood == Spec => ColdStartHeld
<1> DEFINE R(s) == {i \in ItemsOf(s) \ stored : i \in stored' /\ decision'[i] = "routed"}
           Held == \A s \in Sources : ~row[s].last /\ row'[s].last
                     => Cardinality(R(s)) <= ColdStart[s]
<1>1. TypeOK /\ ColdUntilFetched /\ [Next]_vars => Held
  <2> SUFFICES ASSUME TypeOK, ColdUntilFetched, [Next]_vars,
                      NEW s \in Sources, ~row[s].last, row'[s].last
               PROVE  Cardinality(R(s)) <= ColdStart[s]
    OBVIOUS
  <2>1. ColdStart[s] \in Nat
    BY SpecAssumption
  <2>2. CASE ~Store
    <3>1. R(s) = {}
      BY <2>2, ArchiveStutter DEF archive
    <3>2. Cardinality(R(s)) = 0
      BY <3>1, FS_EmptySet
    <3> QED
      BY <2>1, <3>2
  <2>3. CASE Store
    <3>1. s = ctx.turn /\ ~row[s].cold_start_done
      BY RowStep DEF ColdUntilFetched
    <3> DEFINE E == Newest(Slice(s), ColdStart[s])
    <3>2. Slice(s) \in SUBSET Items
      BY DocTypes
    <3>3. IsFiniteSet(E) /\ Cardinality(E) \in Nat /\ Cardinality(E) <= ColdStart[s]
      BY <2>1, <3>2, NewestAtMost
    <3>4. R(s) \in SUBSET E
      BY <2>3, <3>1, RoutedAreEligible DEF ItemsOf
    <3> HIDE DEF E, R
    <3>5. Cardinality(R(s)) <= Cardinality(E) /\ IsFiniteSet(R(s))
      BY <3>3, <3>4, FS_Subset
    <3>6. Cardinality(R(s)) \in Nat
      BY <3>5, FS_CardinalityType
    <3> QED
      BY <2>1, <3>3, <3>5, <3>6
  <2> QED
    BY <2>2, <2>3
<1>2. TypeOK /\ ColdUntilFetched /\ [Next]_vars => [Held]_vars
  BY <1>1
<1>3. Spec => [][Held]_vars
  BY <1>2, StillCold, PTL DEF Spec
<1> QED
  BY <1>3 DEF ColdStartHeld

-----------------------------------------------------------------------------
(* Error events.                                                           *)

\* AlarmTellsTheStreak, and what the pass knows when it reports or resolves.
AlarmHeld ==
  /\ AlarmTellsTheStreak
  /\ pc = "resolve" => row[ctx.turn].failures = 0
  /\ pc = "report" => row[ctx.turn].failures > 0

\* Between attempts the alarm is right for every source but the orphaned ones.
LEMMA AlarmStep ==
  ASSUME TypeOK, Paced, AlarmHeld, [Next]_vars
  PROVE  AlarmHeld'
<1> USE DEF events, rows
<1>1. CASE FetchFails \/ ParseFails
  <2> DEFINE s == ctx.turn
  <2>1. /\ s \in Sources /\ pc = "fetch" /\ pc' = "report"
        /\ row' = [row EXCEPT ![s] = Failed(s)] /\ UNCHANGED <<ctx, raised, orphaned>>
    BY <1>1 DEF FetchFails, ParseFails, Save, TypeOK
  <2>2. row'[s] = Failed(s) /\ \A t \in Sources \ {s} : row'[t] = row[t]
    BY <2>1 DEF TypeOK
  <2>3. row'[s].failures > 0
    BY <2>1, <2>2, FailedRow DEF TypeOK, SourceState
  <2> QED
    BY <2>1, <2>2, <2>3 DEF AlarmHeld, AlarmTellsTheStreak
<1>2. CASE NotModified \/ Store
  <2> DEFINE s == ctx.turn
  <2>1. /\ s \in Sources /\ pc = "fetch" /\ Recovered /\ UNCHANGED <<raised, orphaned>>
        /\ ctx.streak = row[s].failures
    BY <1>2 DEF NotModified, Store, TypeOK, Paced
  <2>2. row'[s].failures = 0 /\ \A t \in Sources \ {s} : row'[t] = row[t]
    <3>1. CASE NotModified
      <4> DEFINE r == [row[s] EXCEPT !.next = ctx.started + Interval[s],
                                     !.last = TRUE, !.failures = 0]
      <4>1. row' = [row EXCEPT ![s] = r] /\ r.failures = 0
        BY <2>1, <3>1, UnchangedRow DEF NotModified, Save
      <4> HIDE DEF r
      <4> QED
        BY <2>1, <4>1 DEF TypeOK
    <3>2. CASE Store
      <4>1. PICK e \in {{Doc(s)}, {}} :
              row' = [row EXCEPT ![s] =
                        [next |-> ctx.started + Interval[s], last |-> TRUE, etag |-> e,
                         cold_start_done |-> TRUE, failures |-> 0]]
        BY <3>2 DEF Store, Save
      <4> QED
        BY <2>1, <4>1 DEF TypeOK
    <3> QED
      BY <1>2, <3>1, <3>2
  <2>3. CASE ctx.streak > 0
    BY <2>1, <2>2, <2>3 DEF Recovered, AlarmHeld, AlarmTellsTheStreak
  <2>4. CASE ~(ctx.streak > 0)
    <3>1. pc' = "next"
      BY <2>1, <2>4 DEF Recovered, NextSource
    <3>2. s \notin raised \/ s \in orphaned
      BY <2>1, <2>4 DEF AlarmHeld, AlarmTellsTheStreak
    <3>3. ~(row'[s].failures > 0)
      BY <2>2
    <3> QED
      BY <2>1, <2>2, <3>1, <3>2, <3>3 DEF AlarmHeld, AlarmTellsTheStreak
  <2> QED
    BY <2>3, <2>4
<1>3. CASE Report \/ Resolve
  BY <1>3 DEF Report, Resolve, NextSource, AlarmHeld, AlarmTellsTheStreak
<1>4. CASE Crash
  BY <1>4 DEF Crash, AlarmHeld, AlarmTellsTheStreak
<1>5. CASE \/ StartPass \/ SkipSource \/ StartFetch \/ EndPass \/ FetchRaises
           \/ Tick \/ (\E i \in Items : Publish(i)) \/ UNCHANGED vars
  BY <1>5 DEF StartPass, SkipSource, StartFetch, EndPass, FetchRaises, Tick, Publish,
     vars, AlarmHeld, AlarmTellsTheStreak
<1> QED
  BY <1>1, <1>2, <1>3, <1>4, <1>5 DEF Next, Pass

\* A source has an unresolved fetch event exactly while it fails, unless a report
\* or a resolution was lost (AlarmTellsTheStreak).
THEOREM AlarmIsRight == Spec => []AlarmTellsTheStreak
<1>1. Init => AlarmHeld
  BY DEF Init, AlarmHeld, AlarmTellsTheStreak, Fresh
<1>2. Spec => [](TypeOK /\ Paced)
  BY TimeIsRight, PacedInit, PacedStep, PTL DEF Spec
<1>3. AlarmHeld => AlarmTellsTheStreak
  BY DEF AlarmHeld
<1>4. TypeOK /\ Paced /\ AlarmHeld /\ [Next]_vars => AlarmHeld'
  BY AlarmStep
<1> QED
  BY <1>1, <1>2, <1>3, <1>4, PTL DEF Spec

-----------------------------------------------------------------------------
(* Gaps.                                                                   *)

\* GapIsFlagged, and that every publisher publishes its items in order.
GapHeld ==
  /\ GapIsFlagged
  /\ \A j \in published : \A i \in ItemsOf(SourceOf[j]) : i < j => i \in published

\* Of the items that Store passes over without flagging a gap, none is older than
\* a stored one, but for those excused before.
LEMMA StoreFlags ==
  ASSUME TypeOK, TypeOK', GapIsFlagged, Store,
         NEW s \in Measured, NEW i \in (ItemsOf(s) \cap published) \ stored',
         NEW j \in ItemsOf(s) \cap stored', i < j
  PROVE  i \in excused'[s]
<1> DEFINE P == ItemsOf(s) \cap published
           W == Newest(Doc(s), Limit[s])
           n == Limit[s]
<1>1. /\ s \in Sources /\ n \in Nat /\ DocSize[s] \in Nat /\ n <= DocSize[s]
      /\ ItemsOf(s) \cap Broken = {} /\ P \in SUBSET Items /\ P \in SUBSET Nat
  <2>1. s \in Sources /\ DocSize[s] >= Limit[s] /\ ItemsOf(s) \cap Broken = {}
    BY DEF Measured
  <2>2. Limit[s] \in Nat /\ DocSize[s] \in Nat
    BY <2>1, SpecAssumption
  <2>3. P \in SUBSET Items
    BY DEF ItemsOf
  <2> QED
    BY <2>1, <2>2, <2>3, ItemsFinite
<1>2. W = Newest(P, n) /\ W \subseteq P /\ Slice(s) = W
  <2>1. W = Newest(P, n)
    BY <1>1, NewestOfNewest DEF Doc
  <2>2. W \subseteq P
    BY <2>1 DEF Newest
  <2> QED
    BY <1>1, <2>1, <2>2 DEF Slice
<1>3. stored' = stored \cup (Slice(ctx.turn) \ stored) /\ ctx.turn \in Sources
  BY DEF Store, StoreItems, TypeOK
<1>4. i \in P /\ j \in ItemsOf(s) /\ i \notin stored
  BY <1>3
<1>5. excused[s] \subseteq excused'[s]
  BY <1>1 DEF Store, TypeOK
<1>6. CASE j \in stored
  BY <1>4, <1>5, <1>6 DEF GapIsFlagged
<1>7. CASE j \notin stored
  <2>1. s = ctx.turn /\ j \in W
    <3>1. j \in Slice(ctx.turn)
      BY <1>3, <1>7
    <3>2. SourceOf[j] = ctx.turn /\ SourceOf[j] = s
      BY <1>3, <3>1, DocTypes DEF ItemsOf
    <3> QED
      BY <1>2, <3>1, <3>2
  <2>2. i \in P \ W
    BY <1>2, <1>3, <1>4, <2>1
  <2>3. CASE ~row[s].last \/ PossibleGap(s)
    <3>1. excused' = [excused EXCEPT ![s] = @ \cup (P \ W)]
      BY <2>1, <2>3 DEF Store
    <3> QED
      BY <1>1, <2>2, <3>1 DEF TypeOK
  <2>4. CASE row[s].last /\ ~PossibleGap(s)
    <3>1. Cardinality(W) >= n
      BY <1>1, <1>2, <2>2, NewestAtLeast
    <3>2. W \cap stored # {}
      BY <1>2, <2>4, <3>1 DEF PossibleGap
    <3>3. PICK k \in W : k \in stored
      BY <3>2
    <3>4. i < k /\ k \in ItemsOf(s)
      BY <1>1, <1>2, <2>2, <3>3, NewestUpper
    <3> QED
      BY <1>4, <1>5, <3>3, <3>4 DEF GapIsFlagged
  <2> QED
    BY <2>3, <2>4
<1> QED
  BY <1>6, <1>7

\* An item that is missing between stored ones was passed over by a flagged fetch
\* or by the first (GapIsFlagged).
THEOREM NoSilentGap == Spec => []GapIsFlagged
<1>1. Init => GapHeld
  BY DEF Init, GapHeld, GapIsFlagged
<1>2. TypeOK /\ TypeOK' /\ GapHeld /\ [Next]_vars => GapHeld'
  <2> SUFFICES ASSUME TypeOK, TypeOK', GapHeld, [Next]_vars PROVE GapHeld'
    OBVIOUS
  <2>1. CASE Store
    <3>1. GapIsFlagged'
      BY <2>1, StoreFlags DEF GapHeld, GapIsFlagged, Store
    <3> QED
      BY <2>1, <3>1 DEF GapHeld, Store
  <2>2. CASE \E k \in Items : Publish(k)
    <3>1. PICK k \in Items : Publish(k)
      BY <2>2
    <3>2. UNCHANGED <<stored, excused>> /\ published' = published \cup {k} /\ k \notin published
      BY <3>1 DEF Publish, archive
    <3>3. \A j \in published' : \A i \in ItemsOf(SourceOf[j]) : i < j => i \in published'
      BY <3>1, <3>2 DEF GapHeld, Publish
    <3>4. ASSUME NEW s \in Measured, NEW i \in (ItemsOf(s) \cap published') \ stored,
                 NEW j \in ItemsOf(s) \cap stored, i < j
          PROVE  i \in published
      BY <3>4 DEF GapHeld, ItemsOf, TypeOK
    <3>5. GapIsFlagged'
      BY <3>2, <3>4 DEF GapHeld, GapIsFlagged
    <3> QED
      BY <3>3, <3>5 DEF GapHeld
  <2>3. CASE ~Store /\ ~(\E k \in Items : Publish(k))
    <3>1. UNCHANGED <<published, stored, excused>>
      BY <2>3 DEF Next, Pass, StartPass, SkipSource, StartFetch, EndPass, FetchFails,
         ParseFails, NotModified, FetchRaises, Report, Resolve, Crash, Tick, vars, archive
    <3> QED
      BY <3>1 DEF GapHeld, GapIsFlagged
  <2> QED
    BY <2>1, <2>2, <2>3
<1>3. GapHeld => GapIsFlagged
  BY DEF GapHeld
<1> QED
  BY <1>1, <1>2, <1>3, TypeCorrect, PTL DEF Spec

-----------------------------------------------------------------------------
(* What the channel sees of the fetches.                                   *)

\* The fate of item i that its decision opens.
Fate(i) ==
  IF decision[i] = "none" THEN "new"
  ELSE IF decision[i] = "routed" THEN "waiting" ELSE "retired"

\* To the channel a fetch is an arrival: however often an item is served again, and
\* wherever passes die, it decides about items that it stores and about no other.
Log == INSTANCE ChannelLog
         WITH fate <- [i \in Items |-> Fate(i)], copies <- [i \in Items |-> 0]
ImplementsChannelLog == Log!Spec

\* No decision comes before its item.
DecidedIsStored == \A i \in Items : decision[i] # "none" => i \in stored

\* What Store does to the decisions.
LEMMA StoreDecides ==
  ASSUME TypeOK, DecidedIsStored, Store
  PROVE  /\ DecidedIsStored'
         /\ \A i \in Items : \/ decision'[i] = decision[i]
                             \/ decision[i] = "none"
<1> DEFINE New == Slice(ctx.turn) \ stored
<1>1. stored' = stored \cup New
  BY DEF Store, StoreItems
<1>2. PICK d : decision' = [i \in Items |-> IF i \in New THEN Decided(ctx.turn, i, d[i])
                                            ELSE decision[i]]
  BY DEF Store, StoreItems
<1>3. \A i \in New : i \notin stored
  OBVIOUS
<1> HIDE DEF New
<1> QED
  BY <1>1, <1>2, <1>3 DEF DecidedIsStored

\* Every step decides about items that had no decision, and about stored ones.
LEMMA DecisionStep ==
  ASSUME TypeOK, DecidedIsStored, [Next]_vars
  PROVE  /\ DecidedIsStored'
         /\ \A i \in Items : \/ decision'[i] = decision[i]
                             \/ decision[i] = "none"
<1>1. CASE UNCHANGED archive
  BY <1>1 DEF archive, DecidedIsStored
<1> QED
  BY <1>1, StoreDecides, ArchiveStutter

\* Posting's Ingest and FetchCycle's Store are arrivals of one and the same log.
THEOREM ArrivalsOnly == Spec => ImplementsChannelLog
<1>1. Init => Log!Init /\ DecidedIsStored
  BY DEF Init, Log!Init, Fate, DecidedIsStored
<1>2. TypeOK /\ DecidedIsStored /\ [Next]_vars => DecidedIsStored'
  BY DecisionStep
<1>3. TypeOK /\ DecidedIsStored /\ [Next]_vars => [Log!Next]_(Log!vars)
  <2> SUFFICES ASSUME TypeOK, DecidedIsStored, [Next]_vars PROVE Log!Arrive
    BY DEF Log!Next
  <2> DEFINE S == {i \in Items : Fate(i)' # Fate(i)}
             f == [i \in Items |-> IF decision'[i] = "routed" THEN "waiting" ELSE "retired"]
  <2>1. \A i \in S : Fate(i) = "new" /\ Fate(i)' = f[i]
    BY DecisionStep DEF Fate
  <2>2. S \in SUBSET Items /\ f \in [Items -> {"waiting", "retired"}]
    OBVIOUS
  <2>3. [i \in Items |-> Fate(i)]' = [i \in Items |-> IF i \in S THEN f[i] ELSE Fate(i)]
    <3>1. \A i \in Items \ S : Fate(i)' = Fate(i)
      OBVIOUS
    <3> HIDE DEF S, f
    <3> QED
      BY <2>1, <3>1
  <2> HIDE DEF S, f
  <2> QED
    BY <2>1, <2>2, <2>3 DEF Log!Arrive
<1> QED
  BY <1>1, <1>2, <1>3, TypeCorrect, PTL DEF Spec, ImplementsChannelLog, Log!Spec

-----------------------------------------------------------------------------
(* The exits of process_source.                                            *)

\* "Every exit path persists a fetch row": the docstring is true of every answer of a
\* feed, and only an item that makes the transaction raise (run fetch_poison) belies it.
THEOREM ExitsPersist ==
  ASSUME Poison = {}
  PROVE  Spec => EveryExitPersists
<1>1. TypeOK /\ [Next]_vars =>
        (pc = "fetch" /\ pc' # "fetch" /\ crashes' = crashes => tried'[ctx.turn] = ctx.started)
  <2> SUFFICES ASSUME TypeOK, Next, pc = "fetch", pc' # "fetch", crashes' = crashes
               PROVE  tried'[ctx.turn] = ctx.started
    BY DEF vars
  <2>1. ctx.turn \in Sources /\ crashes \in Nat
    BY BoundsAssumption DEF TypeOK
  <2>2. tried \in [Sources -> Nat \cup {None}]
    BY DEF TypeOK
  <2>3. ~FetchRaises
    BY DEF FetchRaises
  <2>4. ~Crash
    BY <2>1 DEF Crash
  <2>5. FetchFails \/ ParseFails \/ NotModified \/ Store
    BY <2>3, <2>4 DEF Next, Pass, StartPass, SkipSource, StartFetch, EndPass, Report, Resolve,
       Tick, Publish
  <2>6. tried' = [tried EXCEPT ![ctx.turn] = ctx.started]
    BY <2>5 DEF FetchFails, ParseFails, NotModified, Store, Save
  <2> QED
    BY <2>1, <2>2, <2>6
<1>2. Spec => []TypeOK
  BY TypeCorrect
<1> QED
  BY <1>1, <1>2, PTL DEF Spec, EveryExitPersists
=============================================================================
