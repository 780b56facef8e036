-------------------------- MODULE EventSystemProofs --------------------------
(* For every set of events, every choice of delays and any behaviour of the   *)
(* handlers: the clock never passes a waiting event, no sum leaves uint32.    *)
EXTENDS EventAgenda, EventMapProofs

\* How far the clock and the map can reach.  The limit tested by the loop and
\* two delays is all there is: one delay from the last iteration that starts
\* below the limit, one from the idle script that follows it.
Reach ==
  /\ gameTime < TimeLimit + MaxDelay
  /\ pc \in {"start", "batch", "handling"} => gameTime < TimeLimit
  /\ gameTime < TimeLimit =>
       \A t \in DOMAIN eventMap : t < TimeLimit + MaxDelay

Inv == TypeOK /\ NothingInThePast /\ Reach /\ FrontIsCurrent

USE DEF Control

-----------------------------------------------------------------------------
\* The event system as its constructor leaves it satisfies the invariant.
LEMMA InitInv == Init => Inv
<1> SUFFICES ASSUME Init PROVE Inv
  OBVIOUS
<1>1. DOMAIN eventMap = {}
  BY DEF Init, EmptyMap
<1>2. TypeOK
  BY EmptyMapType DEF Init, TypeOK
<1> QED
  BY <1>1, <1>2, WordAssumption, DelaysAssumption
  DEF Init, Inv, NothingInThePast, Reach, FrontIsCurrent

\* No AddEvent that the loop can reach wraps around the word.
LEMMA AddDoesNotWrap ==
  ASSUME Inv, NEW d \in Delays
  PROVE  /\ (gameTime + d) % Word = gameTime + d
         /\ gameTime + d \in Nat
         /\ d \in 0..MaxDelay
<1>1. d \in 0..MaxDelay /\ MaxDelay \in Nat
  BY DelaysAssumption
<1>2. gameTime + d \in 0..(Word - 1)
  BY <1>1, WordAssumption DEF Inv, TypeOK, Reach
<1> QED
  BY <1>1, <1>2, WordAssumption

\* The same for the player's waiting time, where the clock is below the limit.
LEMMA WaitDoesNotWrap ==
  ASSUME Inv, pc = "batch", NEW w \in WaitTimes
  PROVE  /\ (gameTime + w) % Word = gameTime + w
         /\ gameTime + w \in Nat
         /\ w \in 0..MaxDelay
<1>1. w \in 0..MaxDelay /\ MaxDelay \in Nat
  BY DelaysAssumption
<1>2. gameTime + w \in 0..(Word - 1)
  BY <1>1, WordAssumption DEF Inv, TypeOK, Reach
<1> QED
  BY <1>1, <1>2, WordAssumption

\* AddEvent, from a handler or a script, keeps the invariant.
LEMMA AddEventInv ==
  ASSUME Inv, NEW e \in Events, NEW d \in Delays, AddEvent(e, d)
  PROVE  Inv'
<1> DEFINE at == gameTime + d
<1>1. at \in Nat /\ gameTime <= at /\ at <= gameTime + MaxDelay
  BY AddDoesNotWrap, DelaysAssumption DEF Inv, TypeOK
<1>2. eventMap' = Enqueue(eventMap, at, e)
  BY AddDoesNotWrap DEF AddEvent
<1>3. /\ IsEventMap(eventMap', Events)
      /\ DOMAIN eventMap' = DOMAIN eventMap \cup {at}
  <2>1. IsEventMap(eventMap, Events)
    BY DEF Inv, TypeOK
  <2>2. /\ IsEventMap(Enqueue(eventMap, at, e), Events)
        /\ DOMAIN Enqueue(eventMap, at, e) = DOMAIN eventMap \cup {at}
    <3>1. at \in Nat
      BY <1>1
    <3> HIDE DEF at
    <3> QED
      BY <2>1, <3>1, EnqueueType
  <2> QED
    BY <1>2, <2>2
<1>4. TypeOK'
  BY <1>3 DEF AddEvent, Inv, TypeOK
<1>5. NothingInThePast'
  BY <1>1, <1>3 DEF AddEvent, Inv, NothingInThePast
<1>6. Reach'
  BY <1>1, <1>3, DelaysAssumption, WordAssumption
  DEF AddEvent, Inv, TypeOK, Reach
<1>7. FrontIsCurrent'
  <2> SUFFICES ASSUME pc = "handling"
               PROVE  FrontIsCurrent'
    BY DEF AddEvent, FrontIsCurrent
  <2>1. PICK t \in DOMAIN eventMap :
          /\ IsFirst(eventMap, t)
          /\ t = gameTime
          /\ current = <<Head(eventMap[t])>>
    BY DEF Inv, FrontIsCurrent
  <2>2. Head(eventMap'[t]) = Head(eventMap[t])
    BY <1>1, <1>2, EnqueueHead DEF Inv, TypeOK
  <2>3. IsFirst(eventMap', t)
    BY <1>1, <1>3, <2>1 DEF IsFirst
  <2> QED
    BY <2>1, <2>2, <2>3 DEF AddEvent, FrontIsCurrent, IsFirst
<1> QED
  BY <1>4, <1>5, <1>6, <1>7 DEF Inv

\* The return of a handler and the pop_front after it keep the invariant.
LEMMA FinishInv ==
  ASSUME Inv, Finish
  PROVE  Inv'
<1>1. PICK t \in DOMAIN eventMap : eventMap' = PopFront(eventMap, t)
  BY DEF Finish
<1>2. /\ IsEventMap(eventMap', Events)
      /\ DOMAIN eventMap' \subseteq DOMAIN eventMap
  BY <1>1, PopFrontType DEF Inv, TypeOK
<1>3. TypeOK'
  BY <1>2 DEF Finish, Inv, TypeOK
<1>4. NothingInThePast'
  BY <1>2 DEF Finish, Inv, NothingInThePast
<1>5. Reach'
  BY <1>2 DEF Finish, Inv, Reach
<1>6. FrontIsCurrent'
  BY DEF Finish, FrontIsCurrent
<1> QED
  BY <1>3, <1>4, <1>5, <1>6 DEF Inv

\* Taking the first event of the first list keeps the invariant.
LEMMA DispatchInv ==
  ASSUME Inv, Dispatch
  PROVE  Inv'
<1>1. PICK t \in DOMAIN eventMap :
        /\ IsFirst(eventMap, t)
        /\ t <= gameTime
        /\ current' = <<Head(eventMap[t])>>
  BY DEF Dispatch
<1>2. t = gameTime
  BY <1>1 DEF Inv, TypeOK, IsEventMap, NothingInThePast
<1>3. Head(eventMap[t]) \in Events
  <2>1. eventMap[t] \in Seq(Events) /\ eventMap[t] # << >>
    BY DEF Inv, TypeOK, IsEventMap
  <2> QED
    BY <2>1
<1>4. TypeOK'
  BY <1>1, <1>3 DEF Dispatch, Inv, TypeOK
<1>5. FrontIsCurrent'
  BY <1>1, <1>2 DEF Dispatch, FrontIsCurrent
<1> QED
  BY <1>4, <1>5 DEF Dispatch, Inv, NothingInThePast, Reach

\* Moving the clock to the first event, or by the player's wait, keeps the
\* invariant.
LEMMA AdvanceInv ==
  ASSUME Inv, NEW w \in WaitTimes, Advance(w)
  PROVE  Inv'
<1>1. pc = "batch" /\ pc' = "idle" /\ eventMap' = eventMap
  BY DEF Advance
<1>2. /\ gameTime < TimeLimit
      /\ \A t \in DOMAIN eventMap : t < TimeLimit + MaxDelay
  BY <1>1 DEF Inv, Reach
<1>3. /\ gameTime' \in Nat
      /\ gameTime' < TimeLimit + MaxDelay
      /\ \A t \in DOMAIN eventMap : gameTime' <= t
  <2>1. /\ gameTime + w < TimeLimit + MaxDelay
        /\ gameTime + w \in Nat
        /\ (gameTime + w) % Word = gameTime + w
    BY <1>1, <1>2, WaitDoesNotWrap, DelaysAssumption, WordAssumption
    DEF Inv, TypeOK
  <2>2. CASE eventMap = EmptyMap /\ gameTime' = (gameTime + w) % Word
    BY <2>1, <2>2 DEF EmptyMap
  <2>3. CASE \E t \in DOMAIN eventMap :
               /\ IsFirst(eventMap, t)
               /\ gameTime' = IF w # 0 /\ (gameTime + w) % Word < t
                                THEN (gameTime + w) % Word ELSE t
    <3>1. PICK t \in DOMAIN eventMap :
                 /\ IsFirst(eventMap, t)
                 /\ gameTime' = IF w # 0 /\ (gameTime + w) % Word < t
                                  THEN (gameTime + w) % Word ELSE t
      BY <2>3
    <3>2. DOMAIN eventMap \subseteq Nat
      BY DEF Inv, TypeOK, IsEventMap
    <3> QED
      BY <1>2, <2>1, <3>1, <3>2 DEF IsFirst
  <2> QED
    BY <2>2, <2>3 DEF Advance
<1>4. TypeOK'
  BY <1>1, <1>3 DEF Advance, Inv, TypeOK
<1> QED
  BY <1>1, <1>2, <1>3, <1>4 DEF Inv, NothingInThePast, Reach, FrontIsCurrent

\* Every step of the loop and of the scripts keeps the invariant.
LEMMA NextInv == Inv /\ [Next]_vars => Inv'
<1> SUFFICES ASSUME Inv, [Next]_vars PROVE Inv'
  OBVIOUS
<1>1. CASE \E e \in Events, d \in Delays : AddEvent(e, d)
  BY <1>1, AddEventInv
<1>2. CASE Finish
  BY <1>2, FinishInv
<1>3. CASE Dispatch
  BY <1>3, DispatchInv
<1>4. CASE \E w \in WaitTimes : Advance(w)
  BY <1>4, AdvanceInv
<1>5. CASE ReadyExit
  BY <1>5 DEF ReadyExit, Inv, TypeOK, NothingInThePast, Reach, FrontIsCurrent
<1>6. CASE BeginLoop \/ StartLoop \/ Stop \/ EndIdle
  BY <1>6 DEF BeginLoop, StartLoop, Stop, EndIdle,
     Inv, TypeOK, NothingInThePast, Reach, FrontIsCurrent
<1>7. CASE UNCHANGED vars
  BY <1>7 DEF vars, Inv, TypeOK, NothingInThePast, Reach, FrontIsCurrent
<1> QED
  BY <1>1, <1>2, <1>3, <1>4, <1>5, <1>6, <1>7 DEF Next, Loop, Script, Terminated

\* The inductive invariant of the event system.
THEOREM Invariance == Spec => []Inv
BY InitInv, NextInv, PTL DEF Spec

-----------------------------------------------------------------------------
\* The event system keeps its types: every list of the map is a non-empty list
\* of events under a natural time (EventSystem.cpp, AddEvent and ProcessEvent).
THEOREM TypeCorrect == Spec => []TypeOK
<1>1. Inv => TypeOK
  BY DEF Inv
<1> QED
  BY <1>1, Invariance, PTL

\* No event is ever left behind by the clock, whatever the handlers add
\* (ProcessEvent's choice of the next time, AddEvent's uint32 sum).
THEOREM NoEventLeftBehind == Spec => []NothingInThePast
<1>1. Inv => NothingInThePast
  BY DEF Inv
<1> QED
  BY <1>1, Invariance, PTL

\* While a handler runs, its event is the front of the first list, so the
\* pop_front after it removes that event (ProcessEvent).
THEOREM PopsTheEventItRan == Spec => []FrontIsCurrent
<1>1. Inv => FrontIsCurrent
  BY DEF Inv
<1> QED
  BY <1>1, Invariance, PTL

\* Every step leaves the clock alone, except the one that finds nothing due,
\* and that one stops at the first waiting event (ProcessEvent, lines 83-90).
THEOREM ClockIsOrderly == Spec => ClockOK
<1>1. Inv /\ Inv' /\ [Next]_vars => [ClockStep]_vars
  <2> SUFFICES ASSUME Inv, Inv', [Next]_vars PROVE [ClockStep]_vars
    OBVIOUS
  <2>0. gameTime \in Nat
    BY DEF Inv, TypeOK
  <2>1. CASE \E w \in WaitTimes : Advance(w)
    <3>1. PICK w \in WaitTimes : Advance(w)
      BY <2>1
    <3>2. /\ pc = "batch"
          /\ ~HasDue(eventMap, gameTime)
          /\ eventMap' = eventMap
      BY <3>1 DEF Advance
    <3>3. \A t \in DOMAIN eventMap : gameTime' <= t
      BY <3>2 DEF Inv, NothingInThePast
    <3>4. gameTime <= gameTime'
      <4>1. (gameTime + w) % Word = gameTime + w /\ w \in Nat
        BY <3>2, WaitDoesNotWrap, DelaysAssumption
      <4>2. DOMAIN eventMap \subseteq Nat
        BY DEF Inv, TypeOK, IsEventMap
      <4> QED
        BY <2>0, <3>1, <4>1, <4>2 DEF Advance, Inv, NothingInThePast
    <3> QED
      BY <3>2, <3>3, <3>4 DEF ClockStep
  <2>2. CASE gameTime' = gameTime
    BY <2>0, <2>2 DEF ClockStep
  <2> QED
    BY <2>1, <2>2 DEF Next, Loop, Script, Terminated, vars, BeginLoop,
       StartLoop, Stop, Dispatch, Finish, EndIdle, AddEvent, ReadyExit
<1> QED
  BY <1>1, Invariance, PTL DEF Spec, ClockOK

-----------------------------------------------------------------------------
(* The map as an agenda.                                                      *)

LEMMA PrecedesByEntries ==
  ASSUME NEW m, NEW x, NEW y
  PROVE  Precedes(m, x, y)
           <=> \E t, u, i, j : /\ IsEntry(m, x, t, i) /\ IsEntry(m, y, u, j)
                               /\ t < u \/ (t = u /\ i < j)
BY DEF Precedes, IsEntry

\* An event that is queued once is queued for one time.
LEMMA DueInIs ==
  ASSUME NEW m, NoDuplicates(m), NEW x, NEW t, NEW i, IsEntry(m, x, t, i)
  PROVE  /\ DueIn(m, x) = t
         /\ \A u, j : IsEntry(m, x, u, j) => u = t /\ j = i
<1>1. \A u, j : IsEntry(m, x, u, j) => u = t /\ j = i
  BY DEF IsEntry, NoDuplicates
<1>2. \A u \in DOMAIN m : IsDueAt(m, x, u) <=> u = t
  BY <1>1, EntryIsDue
<1>3. t \in DOMAIN m
  BY DEF IsEntry
<1> QED
  BY <1>1, <1>2, <1>3 DEF DueIn

LEMMA QueuedHasEntry ==
  ASSUME NEW m, NEW x \in Queued(m)
  PROVE  \E t, i : IsEntry(m, x, t, i)
BY QueuedIsDue, EntryIsDue

\* AddEvent puts the new event behind all that is due no later, before the rest.
LEMMA EnqueuePosts ==
  ASSUME NEW E, NEW m, IsEventMap(m, E), NoDuplicates(m),
         NEW t \in Nat, NEW e \in E, e \notin Queued(m)
  PROVE  LET n == Enqueue(m, t, e)
         IN  /\ DueIn(n, e) = t
             /\ ~Precedes(n, e, e)
             /\ \A x \in Queued(m) :
                  /\ DueIn(n, x) = DueIn(m, x)
                  /\ Precedes(n, x, e) <=> DueIn(m, x) <= t
                  /\ Precedes(n, e, x) <=> ~(DueIn(m, x) <= t)
                  /\ \A y \in Queued(m) : Precedes(n, x, y) <=> Precedes(m, x, y)
<1> DEFINE n == Enqueue(m, t, e)
           k == Len(ListAt(m, t)) + 1
<1>1. NoDuplicates(n)
  BY EnqueueNoDuplicates
<1>2. \A x, u, i : IsEntry(n, x, u, i) <=> IsEntry(m, x, u, i) \/ (x = e /\ u = t /\ i = k)
  BY EnqueueEntry
<1>3. \A u, i : ~IsEntry(m, e, u, i)
  BY EntryTypes
<1>4. ListAt(m, t) \in Seq(E)
  BY DEF ListAt, IsEventMap
<1>5. k \in Nat
  BY <1>4
<1>6. \A x, i : IsEntry(m, x, t, i) => i < k
  <2> SUFFICES ASSUME NEW x, NEW i, IsEntry(m, x, t, i) PROVE i < k
    OBVIOUS
  <2>1. i \in Nat /\ i <= Len(m[t]) /\ ListAt(m, t) = m[t] /\ m[t] \in Seq(E)
    BY EntryTypes DEF IsEntry, ListAt
  <2> QED
    BY <2>1
<1> HIDE DEF n, k
<1>7. DueIn(n, e) = t /\ \A u, i : IsEntry(n, e, u, i) => u = t /\ i = k
  BY <1>1, <1>2, DueInIs
<1>8. ~Precedes(n, e, e)
  BY <1>5, <1>7, PrecedesByEntries
<1>9. ASSUME NEW x \in Queued(m)
      PROVE  /\ DueIn(n, x) = DueIn(m, x)
             /\ Precedes(n, x, e) <=> DueIn(m, x) <= t
             /\ Precedes(n, e, x) <=> ~(DueIn(m, x) <= t)
             /\ \A y \in Queued(m) : Precedes(n, x, y) <=> Precedes(m, x, y)
  <2>1. PICK u, i : IsEntry(m, x, u, i)
    BY QueuedHasEntry
  <2>2. u \in Nat /\ i \in Nat /\ IsEntry(n, x, u, i) /\ IsEntry(n, e, t, k)
    BY <1>2, <2>1, EntryTypes
  <2>3. DueIn(m, x) = u /\ DueIn(n, x) = u
    BY <1>1, <2>1, <2>2, DueInIs
  <2>4. \A v, j : IsEntry(n, x, v, j) => v = u /\ j = i
    BY <1>1, <2>2, DueInIs
  <2>5. u = t => i < k
    BY <1>6, <2>1
  <2>6. Precedes(n, x, e) <=> u < t \/ (u = t /\ i < k)
    BY <1>7, <2>2, <2>4, PrecedesByEntries
  <2>7. Precedes(n, e, x) <=> t < u \/ (t = u /\ k < i)
    BY <1>7, <2>2, <2>4, PrecedesByEntries
  <2>8. \A y \in Queued(m) : Precedes(n, x, y) <=> Precedes(m, x, y)
    BY <1>2, PrecedesByEntries
  <2> QED
    BY <1>5, <2>2, <2>3, <2>5, <2>6, <2>7, <2>8
<1> QED
  BY <1>7, <1>8, <1>9 DEF n

\* The front of the first list is the event before all others, and taking it
\* away leaves them in their order.
LEMMA PopFrontServes ==
  ASSUME NEW E, NEW m, IsEventMap(m, E), NoDuplicates(m), NEW t, IsFirst(m, t)
  PROVE  LET h == Head(m[t])
             n == PopFront(m, t)
         IN  /\ h \in Queued(m) /\ DueIn(m, h) = t
             /\ \A x \in Queued(m) : ~Precedes(m, x, h)
             /\ \A x, y \in Queued(m) \ {h} :
                  /\ DueIn(n, x) = DueIn(m, x)
                  /\ Precedes(n, x, y) <=> Precedes(m, x, y)
<1> DEFINE h == Head(m[t])
           n == PopFront(m, t)
<1>1. t \in DOMAIN m /\ \A u \in DOMAIN m : t <= u
  BY DEF IsFirst
<1>2. m[t] \in Seq(E) /\ m[t] # << >>
  BY <1>1 DEF IsEventMap
<1>3. 1 \in DOMAIN m[t] /\ h = m[t][1]
  BY <1>2
<1>4. IsEntry(m, h, t, 1)
  BY <1>1, <1>3 DEF IsEntry
<1>5. NoDuplicates(n)
  BY <1>1, PopFrontNoDuplicates
<1>6. \A x, u, i : IsEntry(n, x, u, i)
           <=> IF u = t THEN i \in Nat \ {0} /\ IsEntry(m, x, u, i + 1)
                        ELSE IsEntry(m, x, u, i)
  BY <1>1, PopFrontEntry
<1> HIDE DEF h, n
<1>7. h \in Queued(m) /\ DueIn(m, h) = t /\ \A u, j : IsEntry(m, h, u, j) => u = t /\ j = 1
  BY <1>4, DueInIs, EntryTypes
<1>8. ASSUME NEW x \in Queued(m) PROVE ~Precedes(m, x, h)
  <2>1. PICK u, i : IsEntry(m, x, u, i) /\ u \in Nat /\ i \in Nat \ {0}
    BY QueuedHasEntry, EntryTypes
  <2>2. \A v, j : IsEntry(m, x, v, j) => v = u /\ j = i
    BY <2>1, DueInIs
  <2>3. t <= u /\ t \in Nat
    BY <1>1, <1>4, <2>1, EntryTypes DEF IsEntry
  <2>4. ~(u < t \/ (u = t /\ i < 1))
    BY <2>1, <2>3
  <2> QED
    BY <1>7, <2>2, <2>4, PrecedesByEntries
<1>9. ASSUME NEW x \in Queued(m) \ {h}
      PROVE  \E u, i, j : /\ u \in Nat /\ i \in Nat /\ j \in Nat
                          /\ IsEntry(m, x, u, i) /\ IsEntry(n, x, u, j)
                          /\ i = IF u = t THEN j + 1 ELSE j
  <2>1. PICK u, i : IsEntry(m, x, u, i) /\ u \in Nat /\ i \in Nat \ {0}
    BY QueuedHasEntry, EntryTypes
  <2>2. CASE u = t
    <3>1. i # 1
      BY <1>4, <2>1, <2>2 DEF IsEntry
    <3>2. i - 1 \in Nat \ {0} /\ (i - 1) + 1 = i
      BY <2>1, <3>1
    <3>3. IsEntry(n, x, u, i - 1)
      BY <1>6, <2>1, <2>2, <3>2
    <3> QED
      BY <2>1, <2>2, <3>2, <3>3
  <2>3. CASE u # t
    <3>1. IsEntry(n, x, u, i)
      BY <1>6, <2>1, <2>3
    <3> QED
      BY <2>1, <2>3, <3>1
  <2> QED
    BY <2>2, <2>3
<1>10. ASSUME NEW x \in Queued(m) \ {h}, NEW y \in Queued(m) \ {h}
       PROVE  /\ DueIn(n, x) = DueIn(m, x)
              /\ Precedes(n, x, y) <=> Precedes(m, x, y)
  <2>1. PICK u, i, j : /\ u \in Nat /\ i \in Nat /\ j \in Nat
                       /\ IsEntry(m, x, u, i) /\ IsEntry(n, x, u, j)
                       /\ i = IF u = t THEN j + 1 ELSE j
    BY <1>9
  <2>2. PICK v, k, l : /\ v \in Nat /\ k \in Nat /\ l \in Nat
                       /\ IsEntry(m, y, v, k) /\ IsEntry(n, y, v, l)
                       /\ k = IF v = t THEN l + 1 ELSE l
    BY <1>9
  <2>3. DueIn(m, x) = u /\ DueIn(n, x) = u
    BY <1>5, <2>1, DueInIs
  <2>4. Precedes(m, x, y) <=> u < v \/ (u = v /\ i < k)
    <3>1. \A a, b : IsEntry(m, x, a, b) => a = u /\ b = i
      BY <2>1, DueInIs
    <3>2. \A a, b : IsEntry(m, y, a, b) => a = v /\ b = k
      BY <2>2, DueInIs
    <3> QED
      BY <2>1, <2>2, <3>1, <3>2, PrecedesByEntries
  <2>5. Precedes(n, x, y) <=> u < v \/ (u = v /\ j < l)
    <3>1. \A a, b : IsEntry(n, x, a, b) => a = u /\ b = j
      BY <1>5, <2>1, DueInIs
    <3>2. \A a, b : IsEntry(n, y, a, b) => a = v /\ b = l
      BY <1>5, <2>2, DueInIs
    <3> QED
      BY <2>1, <2>2, <3>1, <3>2, PrecedesByEntries
  <2>6. u = v => (i < k <=> j < l)
    BY <2>1, <2>2
  <2> QED
    BY <2>3, <2>4, <2>5, <2>6
<1> QED
  BY <1>7, <1>8, <1>10 DEF h, n

-----------------------------------------------------------------------------
(* Every step of the event system is a step of the agenda.                    *)

Due == [e \in Queued(Waiting) |-> DueIn(Waiting, e)]

Ahead == [e \in Queued(Waiting) |->
            {f \in Queued(Waiting) : Precedes(Waiting, f, e)}]

\* What waits is queued once, and an event is the current one while it runs.
OnceInv ==
  /\ Inv
  /\ NoDuplicates(Waiting)
  /\ current = << >> <=> pc # "handling"

LEMMA WaitingType ==
  ASSUME Inv
  PROVE  /\ IsEventMap(Waiting, Events)
         /\ Queued(Waiting) \subseteq Queued(eventMap)
         /\ Queued(Waiting) \subseteq Events
         /\ \A e \in Queued(Waiting) : DueIn(Waiting, e) \in DOMAIN eventMap
<1>1. IsEventMap(eventMap, Events)
  BY DEF Inv, TypeOK
<1>2. pc = "handling" => gameTime \in DOMAIN eventMap
  BY DEF Inv, FrontIsCurrent
<1>3. IsEventMap(Waiting, Events) /\ DOMAIN Waiting \subseteq DOMAIN eventMap
  BY <1>1, <1>2, PopFrontType DEF Waiting
<1>4. \A x, t, i : IsEntry(Waiting, x, t, i) => \E j : IsEntry(eventMap, x, t, j)
  BY <1>1, <1>2, PopFrontEntry DEF Waiting
<1>5. ASSUME NEW e \in Queued(Waiting)
      PROVE  e \in Queued(eventMap) /\ DueIn(Waiting, e) \in DOMAIN Waiting
  <2>1. PICK t, i : IsEntry(Waiting, e, t, i)
    BY QueuedHasEntry
  <2>2. IsDueAt(Waiting, e, t) /\ t \in DOMAIN Waiting
    BY <2>1, EntryIsDue DEF IsEntry
  <2>3. \E j : IsEntry(eventMap, e, t, j)
    BY <1>4, <2>1
  <2> QED
    BY <1>1, <2>2, <2>3, EntryTypes DEF DueIn
<1>6. \A e \in Queued(eventMap) : e \in Events
  <2> SUFFICES ASSUME NEW e \in Queued(eventMap) PROVE e \in Events
    OBVIOUS
  <2>1. PICK t, i : IsEntry(eventMap, e, t, i)
    BY QueuedHasEntry
  <2>2. eventMap[t] \in Seq(Events) /\ i \in DOMAIN eventMap[t] /\ eventMap[t][i] = e
    BY <1>1, <2>1, EntryTypes DEF IsEntry
  <2> QED
    BY <2>2
<1> QED
  BY <1>3, <1>5, <1>6

\* An addition is one to what waits, also while the running event's entry is
\* still in front: popping that entry commutes with the addition.
LEMMA AddPosts ==
  ASSUME OnceInv, NEW e \in Events, NEW d \in Delays, AddEvent(e, d)
  PROVE  /\ e \notin Queued(Waiting)
         /\ Waiting' = Enqueue(Waiting, gameTime + d, e)
<1> DEFINE t == gameTime + d
<1>1. t \in Nat /\ eventMap' = Enqueue(eventMap, t, e) /\ pc' = pc /\ gameTime' = gameTime
  BY AddDoesNotWrap DEF AddEvent, OnceInv
<1>2. IsEventMap(eventMap, Events)
  BY DEF OnceInv, Inv, TypeOK
<1> HIDE DEF t
<1>3. CASE pc = "handling"
  <2>1. gameTime \in DOMAIN eventMap /\ IsFirst(eventMap, gameTime)
    BY <1>3 DEF OnceInv, Inv, FrontIsCurrent
  <2>2. \A u \in DOMAIN eventMap : IsFirst(eventMap, u) => u = gameTime
    BY <1>2, <2>1 DEF IsFirst, IsEventMap
  <2>3. e \notin Queued(eventMap) \/ e \notin Queued(PopFront(eventMap, gameTime))
    BY <2>2 DEF AddEvent, MayAdd
  <2>4. Waiting = PopFront(eventMap, gameTime) /\ Waiting' = PopFront(eventMap', gameTime)
    BY <1>1, <1>3 DEF Waiting
  <2>5. e \notin Queued(Waiting)
    BY <2>3, <2>4, WaitingType DEF OnceInv
  <2>6. Waiting' = Enqueue(Waiting, t, e)
    BY <1>1, <1>2, <2>1, <2>4, PopAfterEnqueue
  <2> QED
    BY <2>5, <2>6 DEF t
<1>4. CASE pc # "handling"
  BY SMTT(40), <1>1, <1>4 DEF Waiting, AddEvent, MayAdd, OnceInv, t
<1> QED
  BY <1>3, <1>4

LEMMA AddEventImplementsPost ==
  ASSUME OnceInv, NEW e \in Events, NEW d \in Delays, AddEvent(e, d)
  PROVE  Promise!Post(e, d)
<1> DEFINE t == gameTime + d
           w == Waiting
           n == Enqueue(w, t, e)
<1>1. e \notin Queued(w) /\ Waiting' = n
  BY AddPosts
<1>2. IsEventMap(w, Events) /\ NoDuplicates(w) /\ t \in Nat
  BY WaitingType, AddDoesNotWrap DEF OnceInv
<1> HIDE DEF t, w
<1>3. Queued(n) = Queued(w) \cup {e}
  BY <1>2, EnqueueQueued
<1>4. /\ DueIn(n, e) = t
      /\ ~Precedes(n, e, e)
      /\ \A x \in Queued(w) :
           /\ DueIn(n, x) = DueIn(w, x)
           /\ Precedes(n, x, e) <=> DueIn(w, x) <= t
           /\ Precedes(n, e, x) <=> ~(DueIn(w, x) <= t)
           /\ \A y \in Queued(w) : Precedes(n, x, y) <=> Precedes(w, x, y)
  BY <1>1, <1>2, EnqueuePosts
<1> HIDE DEF n
<1>5. Due' = [f \in Queued(w) \cup {e} |-> IF f = e THEN t ELSE Due[f]]
  BY <1>1, <1>3, <1>4 DEF Due, w
<1>6. \A f \in Queued(w) \cup {e} :
        {x \in Queued(n) : Precedes(n, x, f)}
          = IF f = e THEN {x \in Queued(w) : Due[x] <= t}
            ELSE IF f \in {x \in Queued(w) : Due[x] <= t} THEN Ahead[f]
            ELSE Ahead[f] \cup {e}
  BY <1>1, <1>3, <1>4 DEF Due, Ahead, w
<1>7. Ahead' = [f \in Queued(w) \cup {e} |->
                  IF f = e THEN {x \in Queued(w) : Due[x] <= t}
                  ELSE IF f \in {x \in Queued(w) : Due[x] <= t} THEN Ahead[f]
                  ELSE Ahead[f] \cup {e}]
  BY <1>1, <1>3, <1>6 DEF Ahead
<1>8. UNCHANGED <<gameTime, current>>
  BY DEF AddEvent
<1>9. DOMAIN Due = Queued(w)
  BY DEF Due, w
<1> QED
  BY <1>1, <1>5, <1>7, <1>8, <1>9 DEF Promise!Post, Promise!Waiting, Due, Ahead, t

LEMMA DispatchImplementsServe ==
  ASSUME OnceInv, Dispatch
  PROVE  /\ NoDuplicates(Waiting')
         /\ \E e \in Events : Promise!Serve(e)
<1> DEFINE m == eventMap
           t == gameTime
           h == Head(m[t])
           n == PopFront(m, t)
<1>1. PICK u \in DOMAIN m : IsFirst(m, u) /\ u <= gameTime /\ current' = <<Head(m[u])>>
  BY DEF Dispatch
<1>2. u = gameTime
  BY <1>1 DEF OnceInv, Inv, TypeOK, IsEventMap, NothingInThePast
<1>3. pc = "batch" /\ pc' = "handling" /\ eventMap' = m /\ gameTime' = t
  BY DEF Dispatch
<1>4. current = << >> /\ Waiting = m /\ Waiting' = n
  BY <1>3 DEF OnceInv, Waiting
<1>5. IsEventMap(m, Events) /\ NoDuplicates(m) /\ IsFirst(m, t) /\ t \in DOMAIN m
  BY <1>1, <1>2, <1>4 DEF OnceInv, Inv, TypeOK
<1>6. Queued(n) = Queued(m) \ {h} /\ NoDuplicates(n)
  BY <1>5, PopFrontQueued, PopFrontNoDuplicates
<1>7. /\ h \in Queued(m) /\ DueIn(m, h) = t
      /\ \A x \in Queued(m) : ~Precedes(m, x, h)
      /\ \A x, y \in Queued(m) \ {h} :
           /\ DueIn(n, x) = DueIn(m, x)
           /\ Precedes(n, x, y) <=> Precedes(m, x, y)
  BY <1>5, PopFrontServes
<1>8. h \in Events /\ current' = <<h>>
  BY <1>1, <1>2, <1>4, <1>7, WaitingType DEF OnceInv
<1> HIDE DEF m, t, h, n
<1>9. Due' = [f \in Queued(m) \ {h} |-> Due[f]]
  BY <1>4, <1>6, <1>7 DEF Due
<1>10. \A f \in Queued(m) \ {h} :
         {x \in Queued(n) : Precedes(n, x, f)} = Ahead[f] \ {h}
  BY <1>4, <1>6, <1>7 DEF Ahead
<1>11. Ahead' = [f \in Queued(m) \ {h} |-> Ahead[f] \ {h}]
  BY <1>4, <1>6, <1>10 DEF Ahead
<1>12. Due[h] = t /\ Ahead[h] = {} /\ DOMAIN Due = Queued(m)
  BY <1>4, <1>7 DEF Due, Ahead
<1>13. Promise!Serve(h)
  BY <1>3, <1>4, <1>7, <1>8, <1>9, <1>11, <1>12
  DEF Promise!Serve, Promise!Waiting, Due, Ahead, t
<1> QED
  BY <1>4, <1>6, <1>8, <1>13

\* A handler that returns has its entry taken away, which waits no more.
LEMMA FinishImplementsRelease ==
  ASSUME OnceInv, Finish
  PROVE  Waiting' = Waiting /\ Promise!Release
<1>1. IsFirst(eventMap, gameTime) /\ current # << >> /\ pc = "handling"
  BY DEF Finish, OnceInv, Inv, FrontIsCurrent
<1>2. \A u \in DOMAIN eventMap : IsFirst(eventMap, u) => u = gameTime
  BY <1>1 DEF IsFirst, IsEventMap, OnceInv, Inv, TypeOK
<1>3. eventMap' = PopFront(eventMap, gameTime) /\ pc' # "handling"
  BY <1>2 DEF Finish
<1>4. Waiting' = Waiting
  BY <1>1, <1>3 DEF Waiting
<1> QED
  BY <1>1, <1>4 DEF Finish, Promise!Release

\* The clock moves when nothing is due and not past what waits, or stays.
LEMMA AdvanceImplementsTick ==
  ASSUME OnceInv, OnceInv', NEW w \in WaitTimes, Advance(w)
  PROVE  Waiting' = Waiting /\ (Promise!Tick \/ UNCHANGED <<gameTime, current>>)
<1>1. /\ pc = "batch" /\ pc' = "idle" /\ current = << >>
      /\ UNCHANGED <<eventMap, current>>
  BY DEF Advance, OnceInv
<1>2. Waiting = eventMap /\ Waiting' = eventMap
  BY <1>1 DEF Waiting
<1>3. \A e \in Queued(Waiting) : gameTime' <= DueIn(Waiting, e)
  BY <1>1, WaitingType DEF OnceInv, Inv, NothingInThePast
<1>4. gameTime' \in Nat /\ gameTime \in Nat
  BY DEF OnceInv, Inv, TypeOK
<1>5. gameTime' >= gameTime
  <2>1. (gameTime + w) % Word = gameTime + w /\ w \in Nat
    BY <1>1, WaitDoesNotWrap, DelaysAssumption DEF OnceInv
  <2>2. DOMAIN eventMap \subseteq Nat /\ \A t \in DOMAIN eventMap : gameTime <= t
    BY DEF OnceInv, Inv, TypeOK, IsEventMap, NothingInThePast
  <2> QED
    BY <1>4, <2>1, <2>2 DEF Advance
<1>6. CASE gameTime' = gameTime
  BY <1>1, <1>2, <1>6
<1>7. CASE gameTime' # gameTime
  <2>1. gameTime' > gameTime
    BY <1>4, <1>5, <1>7
  <2> QED
    BY <1>1, <1>2, <1>3, <1>4, <2>1 DEF Promise!Tick, Promise!Waiting
<1> QED
  BY <1>6, <1>7

LEMMA OtherStepsStutter ==
  ASSUME OnceInv,
         BeginLoop \/ StartLoop \/ Stop \/ EndIdle \/ ReadyExit \/ UNCHANGED vars
  PROVE  UNCHANGED <<Waiting, gameTime, current>> /\ (pc' = "handling" <=> pc = "handling")
BY DEF BeginLoop, StartLoop, Stop, EndIdle, ReadyExit, vars, Waiting

\* Every step of the event system is one of the agenda, or none.
LEMMA StepIsPromised ==
  ASSUME OnceInv, [Next]_vars
  PROVE  OnceInv' /\ (Promise!Next \/ UNCHANGED <<Waiting, gameTime, current>>)
<1>1. Inv'
  BY NextInv DEF OnceInv
<1>2. CASE \E e \in Events, d \in Delays : AddEvent(e, d)
  <2>1. PICK e \in Events, d \in Delays : AddEvent(e, d)
    BY <1>2
  <2>2. Promise!Post(e, d)
    BY <2>1, AddEventImplementsPost
  <2>3. NoDuplicates(Waiting')
    <3>1. gameTime + d \in Nat /\ IsEventMap(Waiting, Events) /\ NoDuplicates(Waiting)
      BY AddDoesNotWrap, WaitingType DEF OnceInv
    <3>2. Waiting' = Enqueue(Waiting, gameTime + d, e) /\ e \notin Queued(Waiting)
      BY <2>1, AddPosts
    <3> QED
      BY <3>1, <3>2, EnqueueNoDuplicates
  <2>4. current' = << >> <=> pc' # "handling"
    BY <2>1 DEF AddEvent, OnceInv
  <2> QED
    BY <1>1, <2>2, <2>3, <2>4 DEF OnceInv, Promise!Next
<1>3. CASE Dispatch
  <2>1. NoDuplicates(Waiting') /\ Promise!Next
    BY <1>3, DispatchImplementsServe DEF Promise!Next
  <2>2. current' # << >> /\ pc' = "handling"
    BY <1>3 DEF Dispatch
  <2> QED
    BY <1>1, <2>1, <2>2 DEF OnceInv
<1>4. CASE Finish
  <2>1. Waiting' = Waiting /\ Promise!Next
    BY <1>4, FinishImplementsRelease DEF Promise!Next
  <2>2. current' = << >> /\ pc' # "handling"
    BY <1>4 DEF Finish
  <2> QED
    BY <1>1, <2>1, <2>2 DEF OnceInv
<1>5. CASE \E w \in WaitTimes : Advance(w)
  <2>1. PICK w \in WaitTimes : Advance(w)
    BY <1>5
  <2>2. OnceInv'
    <3>1. pc # "handling" /\ pc' # "handling" /\ UNCHANGED <<eventMap, current>>
      BY <2>1 DEF Advance
    <3> QED
      BY <1>1, <3>1 DEF OnceInv, Waiting
  <2>3. Waiting' = Waiting /\ (Promise!Tick \/ UNCHANGED <<gameTime, current>>)
    BY <2>1, <2>2, AdvanceImplementsTick
  <2> QED
    BY <2>2, <2>3 DEF Promise!Next
<1>6. CASE BeginLoop \/ StartLoop \/ Stop \/ EndIdle \/ ReadyExit \/ UNCHANGED vars
  BY <1>1, <1>6, OtherStepsStutter DEF OnceInv
<1> QED
  BY <1>2, <1>3, <1>4, <1>5, <1>6 DEF Next, Loop, Script, Terminated

LEMMA EmptyIsPromised == Init => OnceInv /\ Promise!Init
<1> SUFFICES ASSUME Init PROVE OnceInv /\ Promise!Init
  OBVIOUS
<1>1. Waiting = EmptyMap /\ Queued(EmptyMap) = {} /\ NoDuplicates(EmptyMap)
  BY DEF Init, Waiting, EmptyMap, Queued, NoDuplicates
<1>2. OnceInv
  BY <1>1, InitInv DEF OnceInv, Init
<1>3. Due = [e \in {} |-> 0] /\ Ahead = [e \in {} |-> {}]
  BY <1>1 DEF Due, Ahead
<1> QED
  BY <1>2, <1>3 DEF Init, Promise!Init, Due, Ahead

\* The event system is the agenda it promises: events run one at a time in the
\* order of their times and, at one time, in the order AddEvent put them, each
\* when it is due, whatever handlers add while their own entry is in front of
\* the list (ProcessEvent and AddEvent of CEventSystem).
THEOREM AgendaIsImplemented == Spec => ImplementsAgenda
<1>1. Init => OnceInv /\ Promise!Init
  BY EmptyIsPromised
<1>2. OnceInv /\ [Next]_vars
        => OnceInv' /\ (Promise!Next \/ UNCHANGED <<Waiting, gameTime, current>>)
  BY StepIsPromised
<1>3. UNCHANGED <<Waiting, gameTime, current>> => UNCHANGED <<Due, Ahead, gameTime, current>>
  BY DEF Due, Ahead
<1>4. OnceInv /\ [Next]_vars
        => OnceInv' /\ [Promise!Next]_<<Due, Ahead, gameTime, current>>
  BY <1>2, <1>3
<1> QED
  BY <1>1, <1>4, PTL DEF Spec, ImplementsAgenda, Promise!Spec, Due, Ahead
=============================================================================
