----------------------------- MODULE TalentProofs -----------------------------
(* The priest's talents give back what they take, and Shadow Weaving stops at *)
(* its last stack, for every set of spells, auras and scripts.                *)
EXTENDS PriestTalents, SimulatorProofs

-----------------------------------------------------------------------------
(* What a routine queues.                                                     *)

\* The application that a routine asks for.
Applying(a, c, n) ==
  [type |-> "apply", aura |-> a, target |-> c, stacks |-> n,
   fade |-> FadeOf[a], setFade |-> TRUE]

\* The step adds applications from S, for now; it changes nothing that is there.
Adds(S) ==
  /\ SoundNow' /\ AllStay
  /\ \A x : InFront(eventMap, gameTime, x) =>
       InFront(eventMap', gameTime, x) /\ heap'[x] = heap[x]
  /\ \A y \in DOMAIN heap' : y \notin DOMAIN heap =>
       heap'[y] \in S /\ IsDueAt(eventMap', y, gameTime)
  /\ \A y, z \in DOMAIN heap' : y \notin DOMAIN heap /\ z \notin DOMAIN heap
       /\ heap'[y] = heap'[z] => y = z

IsQueueable(obj) == GoodObject(obj) /\ ~IsTick(obj)

LEMMA AddsNothing ==
  ASSUME Inv, UNCHANGED <<eventMap, heap, gameTime, castingSpell>>
  PROVE  Adds({})
BY SoundStays DEF Adds

LEMMA OneAddress ==
  ASSUME DOMAIN heap \subseteq Addr, NEW k \in Allocations(1)
  PROVE  k[1] \in Fresh(DOMAIN heap) /\ DOMAIN k = {1} /\ k = <<k[1]>>
<1>1. k \in [1..1 -> Addr] /\ 1 \in 1..1 /\ 1..1 = {1} /\ 1..(1 - 1) = {}
  BY DEF Allocations
<1>2. {k[j] : j \in 1..(1 - 1)} = {}
  BY <1>1
<1>3. k[1] \in Fresh(DOMAIN heap)
  BY <1>1, <1>2 DEF Allocations
<1> QED
  BY <1>1, <1>3

LEMMA TwoAddresses ==
  ASSUME DOMAIN heap \subseteq Addr, NEW k \in Allocations(2)
  PROVE  /\ k[1] \in Fresh(DOMAIN heap) /\ k[2] \in Fresh(DOMAIN heap \cup {k[1]})
         /\ DOMAIN k = {1, 2} /\ k = <<k[1], k[2]>> /\ k[1] # k[2]
<1>1. /\ k \in [1..2 -> Addr] /\ 1..2 = {1, 2}
      /\ 1..(1 - 1) = {} /\ 1..(2 - 1) = {1}
  BY DEF Allocations
<1>2. {k[j] : j \in 1..(1 - 1)} = {} /\ {k[j] : j \in 1..(2 - 1)} = {k[1]}
  BY <1>1
<1>3. k[1] \in Fresh(DOMAIN heap) /\ k[2] \in Fresh(DOMAIN heap \cup {k[1]})
  BY <1>1, <1>2 DEF Allocations
<1>4. k[1] # k[2]
  BY <1>1, <1>3, AddrAssumption
<1> QED
  BY <1>1, <1>3, <1>4

LEMMA TwoAppends ==
  ASSUME NEW S, NEW l \in Seq(S), NEW y \in S, NEW z \in S, NEW k
  PROVE  /\ k = <<y>> => l \o k = Append(l, y)
         /\ k = <<y, z>> => l \o k = Append(Append(l, y), z)
<1>1. l \o <<y>> = Append(l, y) /\ l \o <<y, z>> = Append(Append(l, y), z)
  OBVIOUS
<1> QED
  BY <1>1

\* QueueAll for one application is the API's call, and for two it is two.
LEMMA QueueAllOfOne ==
  ASSUME Inv, NEW obj, QueueAll(<<obj>>)
  PROVE  Queue(obj)
<1>1. <<obj>> # << >> /\ Len(<<obj>>) = 1 /\ <<obj>>[1] = obj
  OBVIOUS
<1>2. PICK k \in Allocations(1) :
        /\ eventMap' = [u \in DOMAIN eventMap \cup {gameTime} |->
                          IF u = gameTime THEN ListAt(eventMap, u) \o k
                          ELSE eventMap[u]]
        /\ heap' = [y \in DOMAIN heap \cup {k[i] : i \in DOMAIN k} |->
                      IF y \in DOMAIN heap THEN heap[y]
                      ELSE <<obj>>[CHOOSE i \in DOMAIN k : k[i] = y]]
  BY <1>1 DEF QueueAll
<1>3. GoodMap(eventMap, gameTime) /\ GoodHeap(eventMap, heap)
  BY DEF Inv, SoundNow, Sound
<1>4. DOMAIN heap \subseteq Addr
  BY <1>3, QueuedIsDue, DueTimes DEF GoodHeap
<1>5. k[1] \in Fresh(DOMAIN heap) /\ DOMAIN k = {1} /\ k = <<k[1]>>
  BY <1>2, <1>4, OneAddress
<1>6. k[1] \in Addr /\ k[1] \notin DOMAIN heap
  BY <1>3, <1>5, FreshIsNew
<1>7. ListAt(eventMap, gameTime) \in Seq(Addr)
  BY <1>3 DEF ListAt, GoodMap, IsEventMap
<1>8. ListAt(eventMap, gameTime) \o k = Append(ListAt(eventMap, gameTime), k[1])
  BY <1>5, <1>6, <1>7, TwoAppends
<1>9. eventMap' = Enqueue(eventMap, gameTime, k[1])
  BY <1>2, <1>8 DEF Enqueue
<1>10. heap' = New(heap, k[1], obj)
  BY <1>1, <1>2, <1>5, <1>6 DEF New
<1> QED
  BY <1>5, <1>9, <1>10 DEF Queue

LEMMA QueueAllOfTwo ==
  ASSUME Inv, NEW o, NEW p, NEW q, Len(q) = 2, q[1] = o, q[2] = p, QueueAll(q)
  PROVE  \E y \in Fresh(DOMAIN heap) : \E z \in Fresh(DOMAIN heap \cup {y}) :
           /\ eventMap' = Enqueue(Enqueue(eventMap, gameTime, y), gameTime, z)
           /\ heap' = New(New(heap, y, o), z, p)
<1>1. q # << >> /\ Len(q) = 2 /\ q[1] = o /\ q[2] = p
  <2>1. Len(<< >>) = 0
    OBVIOUS
  <2> QED
    BY <2>1
<1>2. PICK k \in Allocations(2) :
        /\ eventMap' = [u \in DOMAIN eventMap \cup {gameTime} |->
                          IF u = gameTime THEN ListAt(eventMap, u) \o k
                          ELSE eventMap[u]]
        /\ heap' = [y \in DOMAIN heap \cup {k[i] : i \in DOMAIN k} |->
                      IF y \in DOMAIN heap THEN heap[y]
                      ELSE q[CHOOSE i \in DOMAIN k : k[i] = y]]
  BY <1>1 DEF QueueAll
<1>3. GoodMap(eventMap, gameTime) /\ GoodHeap(eventMap, heap)
  BY DEF Inv, SoundNow, Sound
<1>4. DOMAIN heap \subseteq Addr
  BY <1>3, QueuedIsDue, DueTimes DEF GoodHeap
<1>5. /\ k[1] \in Fresh(DOMAIN heap) /\ k[2] \in Fresh(DOMAIN heap \cup {k[1]})
      /\ DOMAIN k = {1, 2} /\ k = <<k[1], k[2]>> /\ k[1] # k[2]
  BY <1>2, <1>4, TwoAddresses
<1>6. /\ k[1] \in Addr /\ k[1] \notin DOMAIN heap
      /\ k[2] \in Addr /\ k[2] \notin DOMAIN heap
  <2>1. k[1] \in Addr /\ k[1] \notin DOMAIN heap
    BY <1>3, <1>5, FreshIsNew
  <2> QED
    BY <1>4, <1>5, <2>1, AddrAssumption
<1> DEFINE l == ListAt(eventMap, gameTime)
<1>7. l \in Seq(Addr)
  BY <1>3 DEF ListAt, GoodMap, IsEventMap
<1> HIDE DEF l
<1>8. l \o k = Append(Append(l, k[1]), k[2])
  BY <1>5, <1>6, <1>7, TwoAppends
<1> DEFINE m == Enqueue(eventMap, gameTime, k[1])
<1>9. /\ DOMAIN m = DOMAIN eventMap \cup {gameTime}
      /\ m[gameTime] = Append(l, k[1])
      /\ \A u \in DOMAIN eventMap : u # gameTime => m[u] = eventMap[u]
  BY DEF Enqueue, l
<1> HIDE DEF m
<1>10. /\ DOMAIN m \cup {gameTime} = DOMAIN eventMap \cup {gameTime}
       /\ ListAt(m, gameTime) = Append(l, k[1])
  BY <1>9 DEF ListAt
<1>11. eventMap' = Enqueue(m, gameTime, k[2])
  <2>1. eventMap' = [u \in DOMAIN eventMap \cup {gameTime} |->
                       IF u = gameTime THEN l \o k ELSE eventMap[u]]
    BY <1>2 DEF l
  <2>2. Enqueue(m, gameTime, k[2]) =
          [u \in DOMAIN eventMap \cup {gameTime} |->
             IF u = gameTime THEN Append(Append(l, k[1]), k[2]) ELSE m[u]]
    BY <1>10 DEF Enqueue
  <2> QED
    BY <1>8, <1>9, <2>1, <2>2
<1>12. heap' = New(New(heap, k[1], o), k[2], p)
  <2>1. /\ (CHOOSE i \in DOMAIN k : k[i] = k[1]) = 1
        /\ (CHOOSE i \in DOMAIN k : k[i] = k[2]) = 2
    BY <1>5
  <2>2. {k[i] : i \in DOMAIN k} = {k[1], k[2]}
    BY <1>5
  <2> DEFINE e(y) == IF y \in DOMAIN heap THEN heap[y]
                     ELSE q[CHOOSE i \in DOMAIN k : k[i] = y]
             f(y) == IF y = k[2] THEN p ELSE IF y = k[1] THEN o ELSE heap[y]
             D == DOMAIN heap \cup {k[1], k[2]}
  <2>3. heap' = [y \in D |-> e(y)]
    BY Zenon, <1>2, <2>2
  <2>4. \A y \in D : e(y) = f(y)
    BY <1>1, <1>5, <1>6, <2>1
  <2> HIDE DEF e, f
  <2>5. heap' = [y \in D |-> f(y)]
    BY <2>3, <2>4
  <2>6. /\ DOMAIN New(heap, k[1], o) = DOMAIN heap \cup {k[1]}
        /\ \A y \in DOMAIN heap \cup {k[1]} :
             New(heap, k[1], o)[y] = IF y = k[1] THEN o ELSE heap[y]
    BY DEF New
  <2> DEFINE h == New(heap, k[1], o)
  <2> HIDE DEF h
  <2>7. New(h, k[2], p) = [y \in DOMAIN heap \cup {k[1], k[2]} |->
                             IF y = k[2] THEN p ELSE h[y]]
    BY <2>6 DEF New, h
  <2> QED
    BY <2>5, <2>6, <2>7 DEF h, f
<1> QED
  BY <1>5, <1>11, <1>12 DEF m

LEMMA AddsOne ==
  ASSUME Inv, NEW o, IsQueueable(o), Queue(o), UNCHANGED <<gameTime, castingSpell>>
  PROVE  Adds({o})
<1>1. gameTime \in Nat /\ gameTime <= gameTime
  BY DEF Inv, ClockOK
<1>2. PICK y \in Fresh(DOMAIN heap) :
        eventMap' = Enqueue(eventMap, gameTime, y) /\ heap' = New(heap, y, o)
  BY DEF Queue
<1>3. /\ SoundNow' /\ AllStay
      /\ \A x : InFront(eventMap, gameTime, x) =>
           InFront(eventMap', gameTime, x) /\ heap'[x] = heap[x]
  BY <1>1, <1>2, AddStep DEF IsQueueable
<1>4. \A z \in DOMAIN heap' : z \notin DOMAIN heap => z = y /\ heap'[z] = o
  BY <1>2 DEF New
<1>5. IsDueAt(eventMap', y, gameTime)
  <2>1. GoodMap(eventMap, gameTime) /\ GoodHeap(eventMap, heap)
    BY DEF Inv, SoundNow, Sound
  <2> QED
    BY <1>1, <1>2, <2>1, FreshIsNew, AddToMap
<1> QED
  BY <1>3, <1>4, <1>5 DEF Adds

\* From m and h to n and g the object obj has come, at y, due now.
Grown(m, h, n, g, y, obj) ==
  /\ Sound(n, g, gameTime, castingSpell)
  /\ \A x : Untouched(m, h, n, g, x)
  /\ DOMAIN g = DOMAIN h \cup {y} /\ g[y] = obj
  /\ \A x \in DOMAIN h : x # y /\ g[x] = h[x]
  /\ \A x : InFront(m, gameTime, x) => InFront(n, gameTime, x) /\ x \in DOMAIN h
  /\ IsDueAt(n, y, gameTime)

LEMMA AddNow ==
  ASSUME gameTime \in Nat, NEW m, NEW h, Sound(m, h, gameTime, castingSpell),
         NEW y \in Fresh(DOMAIN h), NEW obj, IsQueueable(obj)
  PROVE  Grown(m, h, Enqueue(m, gameTime, y), New(h, y, obj), y, obj)
<1>1. gameTime <= gameTime /\ GoodObject(obj) /\ ~IsTick(obj)
  BY DEF IsQueueable
<1>2. y \in Addr /\ y \notin DOMAIN h /\ y \notin Queued(m) /\ GoodMap(m, gameTime)
  BY FreshIsNew DEF Sound
<1>3. Sound(Enqueue(m, gameTime, y), New(h, y, obj), gameTime, castingSpell)
  BY <1>1, AddEvent
<1>4. \A x : Untouched(m, h, Enqueue(m, gameTime, y), New(h, y, obj), x)
  BY <1>1, AddEvent
<1>5. \A x : InFront(m, gameTime, x) =>
        InFront(Enqueue(m, gameTime, y), gameTime, x) /\ x \in DOMAIN h
  BY <1>1, AddEvent
<1>6. IsDueAt(Enqueue(m, gameTime, y), y, gameTime)
  BY <1>1, <1>2, AddToMap
<1>7. /\ DOMAIN New(h, y, obj) = DOMAIN h \cup {y} /\ New(h, y, obj)[y] = obj
      /\ \A x \in DOMAIN h : x # y /\ New(h, y, obj)[x] = h[x]
  BY <1>2 DEF New
<1> QED
  BY <1>3, <1>4, <1>5, <1>6, <1>7 DEF Grown

LEMMA AddsTwo ==
  ASSUME Inv, NEW o, NEW p, IsQueueable(o), IsQueueable(p), o # p,
         NEW q, Len(q) = 2, q[1] = o, q[2] = p, QueueAll(q),
         UNCHANGED <<gameTime, castingSpell>>
  PROVE  Adds({o, p})
<1>1. gameTime \in Nat /\ Sound(eventMap, heap, gameTime, castingSpell)
  BY DEF Inv, ClockOK, SoundNow
<1>2. PICK y \in Fresh(DOMAIN heap) : \E z \in Fresh(DOMAIN heap \cup {y}) :
        /\ eventMap' = Enqueue(Enqueue(eventMap, gameTime, y), gameTime, z)
        /\ heap' = New(New(heap, y, o), z, p)
  BY QueueAllOfTwo
<1>3. PICK z \in Fresh(DOMAIN heap \cup {y}) :
        /\ eventMap' = Enqueue(Enqueue(eventMap, gameTime, y), gameTime, z)
        /\ heap' = New(New(heap, y, o), z, p)
  BY <1>2
<1> DEFINE m == Enqueue(eventMap, gameTime, y)
           h == New(heap, y, o)
<1>4. Grown(eventMap, heap, m, h, y, o)
  BY <1>1, AddNow
<1> HIDE DEF m, h
<1>5. z \in Fresh(DOMAIN h)
  BY <1>4 DEF Grown
<1> DEFINE n == Enqueue(m, gameTime, z)
           g == New(h, z, p)
<1>6. Grown(m, h, n, g, z, p)
  <2>1. Sound(m, h, gameTime, castingSpell)
    BY <1>4 DEF Grown
  <2> QED
    BY <1>1, <1>5, <2>1, AddNow
<1>7. Untouched(eventMap, heap, n, g, Null)
  BY <1>4, <1>6, UntouchedTwice DEF Grown
<1> HIDE DEF n, g
<1>8. IsDueAt(n, y, gameTime)
  BY SMTT(40), <1>4, <1>6 DEF Grown, Untouched
<1>9. eventMap' = n /\ heap' = g
  BY <1>3 DEF m, h, n, g
<1>10. SoundNow'
  BY <1>6, <1>9 DEF SoundNow, Grown
<1>11. AllStay
  BY <1>7, <1>9, NullIsNoEvent DEF AllStay, Untouched, Stays
<1>12. \A x : InFront(eventMap, gameTime, x) =>
         InFront(eventMap', gameTime, x) /\ heap'[x] = heap[x]
  BY <1>4, <1>6, <1>9 DEF Grown
<1>13. \A x \in DOMAIN heap' : x \notin DOMAIN heap =>
         \/ x = y /\ heap'[x] = o
         \/ x = z /\ heap'[x] = p
  BY <1>4, <1>6, <1>9 DEF Grown
<1> QED
  BY <1>6, <1>8, <1>9, <1>10, <1>11, <1>12, <1>13 DEF Adds, Grown

\* Two applications that are made, or not.
LEMMA WhenAdds ==
  ASSUME Inv, NEW b \in BOOLEAN, NEW c \in BOOLEAN, NEW o, NEW p, o # p,
         b => IsQueueable(o), c => IsQueueable(p),
         QueueAll(When(b, <<o>>) \o When(c, <<p>>)),
         UNCHANGED <<gameTime, castingSpell>>
  PROVE  Adds({x \in {o, p} : (x = o /\ b) \/ (x = p /\ c)})
<1>1. /\ << >> \o << >> = << >> /\ <<o>> \o << >> = <<o>>
      /\ << >> \o <<p>> = <<p>>
  BY EmptyConcatenations
<1>2. LET q == <<o>> \o <<p>> IN Len(q) = 2 /\ q[1] = o /\ q[2] = p
  BY PairConcatenation, o \in {o, p}, p \in {o, p}
<1>3. CASE ~b /\ ~c
  <2>1. QueueAll(<< >>)
    BY <1>1, <1>3 DEF When
  <2>2. Adds({})
    BY <2>1, AddsNothing DEF QueueAll
  <2>3. {x \in {o, p} : (x = o /\ b) \/ (x = p /\ c)} = {}
    BY <1>3
  <2> QED
    BY <2>2, <2>3
<1>4. CASE b /\ ~c
  <2>1. QueueAll(<<o>>)
    BY <1>1, <1>4 DEF When
  <2>2. Adds({o})
    BY <1>4, <2>1, QueueAllOfOne, AddsOne
  <2>3. {x \in {o, p} : (x = o /\ b) \/ (x = p /\ c)} = {o}
    BY <1>4
  <2> QED
    BY <2>2, <2>3
<1>5. CASE ~b /\ c
  <2>1. QueueAll(<<p>>)
    BY <1>1, <1>5 DEF When
  <2>2. Adds({p})
    BY <1>5, <2>1, QueueAllOfOne, AddsOne
  <2>3. {x \in {o, p} : (x = o /\ b) \/ (x = p /\ c)} = {p}
    BY <1>5
  <2> QED
    BY <2>2, <2>3
<1>6. CASE b /\ c
  <2>1. QueueAll(<<o>> \o <<p>>)
    BY <1>6 DEF When
  <2>2. Adds({o, p})
    BY <1>2, <1>6, <2>1, AddsTwo
  <2>3. {x \in {o, p} : (x = o /\ b) \/ (x = p /\ c)} = {o, p}
    BY <1>6
  <2> QED
    BY <2>2, <2>3
<1> QED
  BY <1>3, <1>4, <1>5, <1>6

-----------------------------------------------------------------------------
(* The routines.                                                              *)

LEMMA ApplyingIsQueueable ==
  ASSUME NEW a \in {Weave, Misery, Tap, Insight, Pain}, NEW c \in Creatures, NEW n \in Nat
  PROVE  IsQueueable(Applying(a, c, n)) /\ Applying(a, c, n).aura = a
<1>1. a \in Auras /\ FadeOf[a] \in Nat /\ HastedTimes(FadeOf[a]) \subseteq Nat
  BY TalentAssumption
<1> DEFINE o == Applying(a, c, n)
<1>2. o \in ApplyEvents /\ o.type = "apply" /\ o.fade = FadeOf[a] /\ o.aura = a
  BY <1>1 DEF ApplyEvents, Applying
<1> HIDE DEF o
<1>3. IsQueueable(o)
  BY <1>1, <1>2 DEF IsQueueable, GoodObject, EventObjects, IsTick
<1> QED
  BY <1>2, <1>3 DEF o

\* Scripts run between two parts of a handler, and only queue.
LEMMA RunKeepsInv ==
  ASSUME Inv, NEW hook, NEW q, RunQueueing(hook, q), NEW S, Adds(S)
  PROVE  Inv'
<1>1. /\ UNCHANGED <<gameTime, exitable, pc, current, player, auras, budget>>
  BY DEF RunQueueing
<1>2. OthersOK'
  BY <1>1, OthersStay DEF player, auras
<1>3. exitable' \in BOOLEAN
  BY <1>1 DEF Inv, ClockOK
<1> QED
  BY <1>1, <1>2, <1>3, ScriptStep DEF Adds

\* What a routine queues are applications, and that of Shadow Weaving is only
\* queued before a cast.
IsTalents(S) ==
  \A o \in S : /\ o.type = "apply"
              /\ o.aura = Weave => /\ pc = "PreCastingSpell"
                                   /\ o = Applying(Weave, Player, WeaveStacks)

\* The routine queues o and p, or one of them, or nothing.
LEMMA RoutineAdds ==
  ASSUME Inv, NEW hook, NEW b \in BOOLEAN, NEW c \in BOOLEAN, NEW o, NEW p, o # p,
         b => IsQueueable(o) /\ IsTalents({o}), c => IsQueueable(p) /\ IsTalents({p}),
         RunQueueing(hook, When(b, <<o>>) \o When(c, <<p>>))
  PROVE  Inv' /\ \E S : Adds(S) /\ IsTalents(S)
<1> DEFINE q == When(b, <<o>>) \o When(c, <<p>>)
           S == {x \in {o, p} : (x = o /\ b) \/ (x = p /\ c)}
<1>1. QueueAll(q) /\ UNCHANGED <<gameTime, castingSpell>>
  BY DEF RunQueueing, player
<1>2. Adds(S)
  BY <1>1, WhenAdds
<1>3. IsTalents(S)
  BY DEF IsTalents
<1> HIDE DEF q, S
<1>4. RunQueueing(hook, q)
  BY DEF q
<1> QED
  BY <1>2, <1>3, <1>4, RunKeepsInv

\* The event that a routine of casts or channels is called for.
LEMMA CastOfRoutine ==
  ASSUME Inv, pc \in {"PreCastingSpell", "PostCastingSpell", "PreSpellChannel", "PostSpellChannel"}
  PROVE  heap[current].target \in Creatures
<1>1. /\ heap[current] \in EventObjects
      /\ heap[current].type \in {"castPre", "castPost", "tickPre", "tickPost"}
  BY CurrentIsInFront DEF Hooks, HookType, GoodObject
<1> QED
  BY <1>1, KindsOfObjects DEF IsTick, CastEvents, TickEvents

LEMMA ApplyingFacts ==
  ASSUME NEW a, NEW c, NEW n
  PROVE  /\ Applied(a, c, n) = <<Applying(a, c, n)>>
         /\ Applying(a, c, n).type = "apply" /\ Applying(a, c, n).aura = a
BY DEF Applied, Applying

LEMMA NothingMore ==
  ASSUME NEW q, q = << >> \/ \E o : q = <<o>>
  PROVE  q \o << >> = q
BY EmptyConcatenations

LEMMA RoutinesQueue ==
  ASSUME Inv, \/ PreCastingSpellRoutine \/ PreSpellChannelRoutine
              \/ PostCastingSpellRoutine \/ PostSpellChannelRoutine
  PROVE  Inv' /\ \E S : Adds(S) /\ IsTalents(S)
<1> DEFINE e == heap[current]
           O(a, c) == Applying(a, c, IF HasAura(c, a) THEN 0 ELSE 1)
<1>1. heap[current].target \in Creatures
  BY CastOfRoutine DEF PreCastingSpellRoutine, PreSpellChannelRoutine,
     PostCastingSpellRoutine, PostSpellChannelRoutine, RunQueueing
<1> HIDE DEF e
<1>2. \A a, c : ApplyOrRefresh(a, c) = <<O(a, c)>> /\ O(a, c).type = "apply" /\ O(a, c).aura = a
  BY ApplyingFacts DEF ApplyOrRefresh
<1>3. \A a \in {Misery, Tap, Insight, Pain} : \A c \in Creatures : IsQueueable(O(a, c))
  BY ApplyingIsQueueable
<1> HIDE DEF O
<1>4. CASE PreCastingSpellRoutine
  <2> DEFINE o == Applying(Weave, Player, WeaveStacks)
             p == O(Misery, heap[current].target)
             b == heap[current].spell \in ShadowSpells /\ "ShadowWeaving" \in Talents
             c == heap[current].spell \in ShadowSpells /\ "Misery" \in Talents
  <2>1. RunQueueing("PreCastingSpell", When(b, <<o>>) \o When(c, <<p>>)) /\ pc = "PreCastingSpell"
    BY <1>2, <1>4, ApplyingFacts DEF PreCastingSpellRoutine, RunQueueing
  <2>2. IsQueueable(o) /\ o.aura = Weave /\ o.type = "apply"
    BY ApplyingIsQueueable, ApplyingFacts, PlayerAssumption DEF WeaveStacks
  <2>3. IsQueueable(p) /\ p.aura = Misery /\ p.type = "apply"
    BY <1>1, <1>2, <1>3
  <2>4. IsTalents({o}) /\ IsTalents({p}) /\ o # p
    BY <2>1, <2>2, <2>3, TalentAssumption DEF IsTalents
  <2>5. b \in BOOLEAN /\ c \in BOOLEAN
    OBVIOUS
  <2> HIDE DEF o, p, b, c
  <2> QED
    BY <2>1, <2>2, <2>3, <2>4, <2>5, RoutineAdds
<1>5. CASE PreSpellChannelRoutine
  <2> DEFINE o == Applying(Pain, heap[current].target, 0)
             b == /\ heap[current].spell = MindFlay
                  /\ HasAura(heap[current].target, Pain)
                  /\ "PainAndSuffering" \in Talents
  <2>1. RunQueueing("PreSpellChannel", When(b, <<o>>)) /\ pc = "PreSpellChannel"
    BY <1>5, ApplyingFacts DEF PreSpellChannelRoutine, RunQueueing
  <2>2. IsQueueable(o) /\ o.aura = Pain /\ o.type = "apply"
    BY <1>1, ApplyingIsQueueable, ApplyingFacts
  <2>3. IsTalents({o})
    BY <2>2, TalentAssumption DEF IsTalents
  <2>4. b \in BOOLEAN
    BY DEF HasAura
  <2> HIDE DEF o, b
  <2>5. PICK p : p # o
    <3>1. \E p \in {1, 2} : p # o
      OBVIOUS
    <3> QED
      BY <3>1
  <2>6. When(b, <<o>>) = When(b, <<o>>) \o When(FALSE, <<p>>)
    BY NothingMore DEF When
  <2>7. RunQueueing("PreSpellChannel", When(b, <<o>>) \o When(FALSE, <<p>>))
    BY <2>1, <2>6
  <2> QED
    BY <2>2, <2>3, <2>4, <2>5, <2>7, RoutineAdds
<1>6. ASSUME NEW hook, NEW b \in BOOLEAN, NEW c \in BOOLEAN,
             RunQueueing(hook, When(b, ApplyOrRefresh(Tap, heap[current].target))
                               \o When(c, ApplyOrRefresh(Insight, heap[current].target)))
      PROVE  Inv' /\ \E S : Adds(S) /\ IsTalents(S)
  <2> DEFINE o == O(Tap, heap[current].target)
             p == O(Insight, heap[current].target)
  <2>1. IsQueueable(o) /\ o.aura = Tap /\ o.type = "apply"
    BY <1>1, <1>2, <1>3
  <2>2. IsQueueable(p) /\ p.aura = Insight /\ p.type = "apply"
    BY <1>1, <1>2, <1>3
  <2>3. IsTalents({o}) /\ IsTalents({p}) /\ o # p
    BY <2>1, <2>2, TalentAssumption DEF IsTalents
  <2>4. RunQueueing(hook, When(b, <<o>>) \o When(c, <<p>>))
    BY <1>2, <1>6
  <2> HIDE DEF o, p
  <2> QED
    BY <2>1, <2>2, <2>3, <2>4, RoutineAdds
<1>7. CASE PostCastingSpellRoutine
  <2>1. PICK crit \in BOOLEAN :
          RunQueueing("PostCastingSpell",
            When(crit /\ heap[current].spell = MindBlast /\ "ImprovedSpiritTap" \in Talents,
                 ApplyOrRefresh(Tap, heap[current].target))
            \o When(crit /\ "Glyph" \in Talents,
                    ApplyOrRefresh(Insight, heap[current].target)))
    BY <1>7 DEF PostCastingSpellRoutine
  <2> DEFINE b == crit /\ heap[current].spell = MindBlast /\ "ImprovedSpiritTap" \in Talents
             c == crit /\ "Glyph" \in Talents
  <2>2. b \in BOOLEAN /\ c \in BOOLEAN
    OBVIOUS
  <2> HIDE DEF b, c
  <2> QED
    BY <1>6, <2>1, <2>2 DEF b, c
<1>8. CASE PostSpellChannelRoutine
  <2>1. PICK crit \in BOOLEAN, luck \in BOOLEAN :
          RunQueueing("PostSpellChannel",
            When(/\ crit /\ luck /\ heap[current].spell = MindFlay
                 /\ "ImprovedSpiritTap" \in Talents,
                 ApplyOrRefresh(Tap, heap[current].target))
            \o When(crit /\ "Glyph" \in Talents,
                    ApplyOrRefresh(Insight, heap[current].target)))
    BY <1>8 DEF PostSpellChannelRoutine
  <2> DEFINE b == /\ crit /\ luck /\ heap[current].spell = MindFlay
                  /\ "ImprovedSpiritTap" \in Talents
             c == crit /\ "Glyph" \in Talents
  <2>2. b \in BOOLEAN /\ c \in BOOLEAN
    OBVIOUS
  <2> HIDE DEF b, c
  <2> QED
    BY <1>6, <2>1, <2>2 DEF b, c
<1> QED
  BY <1>4, <1>5, <1>7, <1>8

-----------------------------------------------------------------------------
(* The stats.                                                                 *)

\* The routine of the application, or of the fading, of the aura a has run.
Arrives(a) == pc = "AuraApplication" /\ ran /\ heap[current].aura = a
Leaves(a) == pc = "AuraFade" /\ ran /\ heap[current].aura = a

StatsType ==
  /\ tapApplied \in BOOLEAN /\ ran \in BOOLEAN
  /\ twisted \in Int /\ insight \in Int /\ spellPower \in Int

\* The spell power is the sum of the shares, and Twisted Faith's is that of the
\* spirit there is.
SharesAgree ==
  /\ spellPower = twisted + insight
  /\ twisted = IF "TwistedFaith" \in Talents THEN 2 * SpiritOf(tapApplied) ELSE 0

\* A bonus has an aura it came from; it is gone when the last one goes.
BonusesHaveAuras ==
  /\ tapApplied => OnSomebody(Tap) \/ Arrives(Tap)
  /\ insight # 0 => OnSomebody(Insight) \/ Arrives(Insight)
  /\ Leaves(Tap) => ~tapApplied
  /\ Leaves(Insight) => insight = 0

StatsInv == Inv /\ StatsType /\ SharesAgree /\ BonusesHaveAuras

LEMMA StatsInit == PInit => StatsInv
<1> SUFFICES ASSUME PInit PROVE StatsInv
  OBVIOUS
<1>1. Inv
  BY InvInit DEF PInit
<1>2. 2 * Spirit \in Int /\ pc = "start"
  BY TalentAssumption DEF PInit, Init
<1>3. StatsType
  <2>1. tapApplied \in BOOLEAN /\ ran \in BOOLEAN
    BY DEF PInit
  <2>2. twisted \in Int /\ insight \in Int /\ spellPower \in Int
    BY <1>2 DEF PInit, StartTwisted
  <2> QED
    BY <2>1, <2>2 DEF StatsType
<1>4. SharesAgree
  BY <1>2 DEF PInit, SharesAgree, StartTwisted, SpiritOf
<1>5. BonusesHaveAuras
  BY <1>2 DEF PInit, BonusesHaveAuras, Leaves
<1> QED
  BY <1>1, <1>3, <1>4, <1>5 DEF StatsInv

LEMMA StatsGiveStatsComeBack == StatsInv => StatsComeBack
<1> SUFFICES ASSUME StatsInv, Settled
             PROVE  /\ ~OnSomebody(Tap) => ~tapApplied
                    /\ ~OnSomebody(Tap) /\ ~OnSomebody(Insight) => spellPower = StartTwisted
  BY DEF StatsComeBack
<1>1. ~Arrives(Tap) /\ ~Arrives(Insight)
  BY DEF Settled, Arrives
<1>2. ~OnSomebody(Tap) => ~tapApplied
  BY <1>1 DEF StatsInv, BonusesHaveAuras
<1>3. ~OnSomebody(Insight) => insight = 0
  BY <1>1 DEF StatsInv, BonusesHaveAuras
<1>4. ASSUME ~tapApplied, insight = 0
      PROVE  spellPower = StartTwisted
  <2>1. spellPower = twisted + insight /\ twisted \in Int
    BY DEF StatsInv, SharesAgree, StatsType
  <2>2. twisted = StartTwisted
    BY SMTT(40), <1>4 DEF StatsInv, SharesAgree, StartTwisted, SpiritOf
  <2> QED
    BY <1>4, <2>1, <2>2
<1> QED
  BY <1>2, <1>3, <1>4

\* An aura goes when its removal ends, and is there when its application ends.
LEMMA AurasOnSomebody ==
  ASSUME Inv, [Next]_vars, NEW a
  PROVE  /\ OnSomebody(a) => OnSomebody(a)' \/ (FinishFade /\ heap[current].aura = a)
         /\ (RefreshAura \/ NewAura) /\ heap[current].aura = a => OnSomebody(a)'
<1>1. ASSUME \A c \in Creatures : HasAura(c, a) => HasAura(c, a)'
      PROVE  OnSomebody(a) => OnSomebody(a)'
  BY <1>1 DEF OnSomebody
<1>2. CASE RefreshAura \/ NewAura
  <2>1. \A c \in Creatures : HasAura(c, a) => HasAura(c, a)'
    BY <1>2, RefreshedAuras, NewAuras DEF HasAura
  <2>2. ASSUME heap[current].aura = a
        PROVE  OnSomebody(a)'
    <3>1. PICK d \in Creatures : d = heap[current].target
      BY ZenonT(60), <1>2, ApplicationFacts DEF RefreshAura, NewAura
    <3>2. HasAura(d, a)'
      BY <1>2, <2>2, <3>1, RefreshedAuras, NewAuras DEF HasAura
    <3> QED
      BY SMTT(30), <3>2 DEF OnSomebody
  <2> QED
    BY <1>1, <2>1, <2>2
<1>3. ~RefreshAura /\ ~NewAura =>
        \/ FinishFade
        \/ \A c \in Creatures : DOMAIN auraMap'[c] = DOMAIN auraMap[c]
  <2>1. ASSUME NEW x \in DOMAIN heap, HitCast(x) \/ HitTick(x)
        PROVE  \A c \in Creatures : DOMAIN auraMap'[c] = DOMAIN auraMap[c]
    BY <2>1, HitKeepsAuras DEF HitCast, HitTick
  <2> QED
    BY <2>1, AurasChangedBy
<1>4. CASE \A c \in Creatures : DOMAIN auraMap'[c] = DOMAIN auraMap[c]
  BY <1>1, <1>2, <1>4 DEF HasAura
<1>5. CASE FinishFade /\ ~RefreshAura /\ ~NewAura
  <2>1. heap[current].aura # a =>
          \A c \in Creatures : HasAura(c, a) => HasAura(c, a)'
    BY <1>5, FadedAuras DEF HasAura
  <2> QED
    BY <1>1, <1>5, <2>1
<1> QED
  BY <1>2, <1>3, <1>4, <1>5

\* A step of the engine or of a script.
LEMMA StatsEngine ==
  ASSUME StatsInv, EngineStep \/ OtherStep
  PROVE  StatsInv'
<1>1. [Next]_vars /\ Inv /\ UNCHANGED stats
  BY DEF EngineStep, OtherStep, Next, StatsInv
<1>2. Inv'
  BY <1>1, NextKeepsInv
<1>3. StatsType' /\ SharesAgree'
  <2>1. ran' \in BOOLEAN
    BY DEF EngineStep, OtherStep, StatsInv, StatsType
  <2>2. StatsType' /\ SharesAgree'
    BY <1>1, <2>1 DEF StatsInv, StatsType, SharesAgree, stats
  <2> QED
    BY <2>2
<1>4. CASE OtherStep
  <2>1. UNCHANGED <<pc, current, auraMap, ran>>
    BY <1>4 DEF OtherStep, ScriptNext, CastSpellByName, UnitApplyAura, StopCasting,
       PlayerSleep, FinalizeCalculation, Terminated, vars, auras
  <2>2. pc \in Hooks => heap'[current] = heap[current]
    <3>1. AllStay
      BY <1>1, <1>4, CastSpellByNameKeepsInv, UnitApplyAuraKeepsInv, OtherCallsKeepsInv,
         LoopKeepsInv DEF OtherStep, ScriptNext
    <3> QED
      BY <1>1, <3>1, CurrentIsInFront DEF AllStay, Stays
  <2>3. ASSUME NEW a
        PROVE  /\ OnSomebody(a)' = OnSomebody(a)
               /\ Arrives(a)' = Arrives(a) /\ Leaves(a)' = Leaves(a)
    BY <2>1, <2>2 DEF OnSomebody, HasAura, Arrives, Leaves, Hooks
  <2>4. BonusesHaveAuras'
    BY <1>1, <2>3 DEF StatsInv, BonusesHaveAuras, stats
  <2> QED
    BY <1>2, <1>3, <2>4 DEF StatsInv
<1>5. CASE EngineStep
  <2>1. Engine /\ ~ran' /\ (pc \in Hooks \ {"PeriodicEvent"} => ran)
    BY <1>5 DEF EngineStep
  <2>2. \A a : ~Leaves(a)'
    BY <2>1 DEF Leaves
  <2>3. ASSUME NEW a, OnSomebody(a) \/ Arrives(a), ~Leaves(a)
        PROVE  OnSomebody(a)'
    <3>1. CASE Arrives(a)
      <4>1. RefreshAura \/ NewAura
        BY <2>1, <3>1, EngineInHook DEF Arrives, Hooks
      <4> QED
        BY <1>1, <3>1, <4>1, AurasOnSomebody DEF Arrives
    <3>2. CASE OnSomebody(a)
      <4>1. ~(FinishFade /\ heap[current].aura = a)
        BY <2>1, <2>3 DEF FinishFade, Leaves, Hooks
      <4> QED
        BY <1>1, <3>2, <4>1, AurasOnSomebody
    <3> QED
      BY <2>3, <3>1, <3>2
  <2>4. BonusesHaveAuras'
    <3>1. tapApplied => OnSomebody(Tap)'
      BY <2>3 DEF StatsInv, BonusesHaveAuras
    <3>2. insight # 0 => OnSomebody(Insight)'
      BY <2>3 DEF StatsInv, BonusesHaveAuras
    <3> QED
      BY <1>1, <2>2, <3>1, <3>2 DEF BonusesHaveAuras, stats
  <2> QED
    BY <1>2, <1>3, <2>4 DEF StatsInv
<1> QED
  BY <1>4, <1>5

LEMMA StatsQueueing ==
  ASSUME StatsInv, \/ PreCastingSpellRoutine \/ PreSpellChannelRoutine
                   \/ PostCastingSpellRoutine \/ PostSpellChannelRoutine
  PROVE  StatsInv'
<1>1. Inv'
  BY RoutinesQueue DEF StatsInv
<1>2. /\ pc \notin {"AuraApplication", "AuraFade"} /\ ran' = TRUE
      /\ UNCHANGED <<pc, auraMap, stats>>
  BY DEF PreCastingSpellRoutine, PreSpellChannelRoutine, PostCastingSpellRoutine,
     PostSpellChannelRoutine, RunQueueing, auras
<1>3. StatsType' /\ SharesAgree'
  BY <1>2 DEF StatsInv, StatsType, SharesAgree, stats
<1>4. \A a : OnSomebody(a)' = OnSomebody(a)
  BY <1>2 DEF OnSomebody, HasAura
<1>5. \A a : ~Arrives(a) /\ ~Arrives(a)' /\ ~Leaves(a)'
  BY <1>2 DEF Arrives, Leaves
<1>6. BonusesHaveAuras'
  BY <1>2, <1>4, <1>5 DEF StatsInv, BonusesHaveAuras, stats
<1> QED
  BY <1>1, <1>3, <1>6 DEF StatsInv

LEMMA SpiritIsNumber ==
  ASSUME NEW t \in BOOLEAN
  PROVE  SpiritOf(t) \in Nat \ {0}
BY TalentAssumption DEF SpiritOf

\* The tap, or the insight, is set.
LEMMA SetKeepsShares ==
  ASSUME StatsType, SharesAgree, ran' = TRUE,
         \/ \E t \in BOOLEAN : SetTap(t) /\ UNCHANGED insight
         \/ \E n \in Nat : SetInsight(n) /\ UNCHANGED <<tapApplied, twisted>>
         \/ UNCHANGED stats
  PROVE  StatsType' /\ SharesAgree'
<1>1. ASSUME NEW t \in BOOLEAN, SetTap(t), UNCHANGED insight
      PROVE  StatsType' /\ SharesAgree'
  <2>1. SpiritOf(t) \in Nat
    BY SpiritIsNumber
  <2> DEFINE share == IF "TwistedFaith" \in Talents THEN 2 * SpiritOf(t) ELSE twisted
  <2>2. /\ tapApplied' = t /\ twisted' = share
        /\ spellPower' = spellPower - twisted + share
    BY <1>1 DEF SetTap
  <2>3. /\ share \in Int
        /\ share = IF "TwistedFaith" \in Talents THEN 2 * SpiritOf(t) ELSE 0
    BY <2>1 DEF StatsType, SharesAgree
  <2> HIDE DEF share
  <2>4. spellPower' = twisted' + insight' /\ spellPower' \in Int
    <3>1. /\ spellPower = twisted + insight
          /\ spellPower \in Int /\ twisted \in Int /\ insight \in Int
      BY DEF StatsType, SharesAgree
    <3>2. spellPower - twisted + share = share + insight
      BY <2>3, <3>1
    <3> QED
      BY <1>1, <2>2, <2>3, <3>1, <3>2
  <2>5. tapApplied' \in BOOLEAN /\ ran' \in BOOLEAN
    BY <2>2
  <2> QED
    BY <1>1, <2>2, <2>3, <2>4, <2>5 DEF StatsType, SharesAgree
<1>2. ASSUME NEW n \in Nat, SetInsight(n), UNCHANGED <<tapApplied, twisted>>
      PROVE  StatsType' /\ SharesAgree'
  <2>1. insight' = n /\ spellPower' = spellPower - insight + n
    BY <1>2 DEF SetInsight
  <2>2. spellPower' = twisted' + insight' /\ spellPower' \in Int
    BY <1>2, <2>1 DEF StatsType, SharesAgree
  <2>3. tapApplied' \in BOOLEAN /\ ran' \in BOOLEAN
    BY <1>2 DEF StatsType
  <2> QED
    BY <1>2, <2>1, <2>2, <2>3 DEF StatsType, SharesAgree
<1>3. CASE UNCHANGED stats
  BY <1>3 DEF StatsType, SharesAgree, stats
<1> QED
  BY <1>1, <1>2, <1>3

LEMMA VarsStay ==
  ASSUME Inv, UNCHANGED vars
  PROVE  /\ Inv' /\ UNCHANGED <<pc, current, heap>>
         /\ \A a : OnSomebody(a)' = OnSomebody(a)
BY NextKeepsInv DEF vars, OnSomebody, HasAura

LEMMA StatsApplication ==
  ASSUME StatsInv, AuraApplicationRoutine
  PROVE  StatsInv'
<1> DEFINE a == heap[current].aura
<1>1. pc = "AuraApplication" /\ ran' = TRUE /\ UNCHANGED vars
  BY DEF AuraApplicationRoutine
<1>2. /\ Inv' /\ UNCHANGED <<pc, current, heap>>
      /\ \A b : OnSomebody(b)' = OnSomebody(b)
  BY <1>1, VarsStay DEF StatsInv
<1>3. \A b : /\ Arrives(b)' <=> b = a
             /\ Arrives(b) => Arrives(b)'
             /\ ~Leaves(b)'
  BY <1>1, <1>2 DEF Arrives, Leaves
<1>4. CASE a = Tap /\ SetTap(TRUE) /\ UNCHANGED insight
  <2>1. StatsType' /\ SharesAgree'
    BY <1>1, <1>4, SetKeepsShares DEF StatsInv
  <2>2. BonusesHaveAuras'
    BY <1>2, <1>3, <1>4 DEF StatsInv, BonusesHaveAuras
  <2> QED
    BY <1>2, <2>1, <2>2 DEF StatsInv
<1>5. CASE a = Insight /\ SetInsight(3 * SpiritOf(tapApplied)) /\ UNCHANGED <<tapApplied, twisted>>
  <2>1. 3 * SpiritOf(tapApplied) \in Nat
    BY SpiritIsNumber DEF StatsInv, StatsType
  <2>2. StatsType' /\ SharesAgree'
    BY <1>1, <1>5, <2>1, SetKeepsShares DEF StatsInv
  <2>3. BonusesHaveAuras'
    BY <1>2, <1>3, <1>5 DEF StatsInv, BonusesHaveAuras
  <2> QED
    BY <1>2, <2>2, <2>3 DEF StatsInv
<1>6. CASE UNCHANGED stats
  <2>1. StatsType' /\ SharesAgree'
    BY <1>1, <1>6, SetKeepsShares DEF StatsInv
  <2>2. BonusesHaveAuras'
    BY <1>2, <1>3, <1>6 DEF StatsInv, BonusesHaveAuras, stats
  <2> QED
    BY <1>2, <2>1, <2>2 DEF StatsInv
<1> QED
  BY <1>4, <1>5, <1>6 DEF AuraApplicationRoutine

LEMMA StatsFade ==
  ASSUME StatsInv, AuraFadeRoutine
  PROVE  StatsInv'
<1> DEFINE a == heap[current].aura
<1>1. pc = "AuraFade" /\ ran' = TRUE /\ UNCHANGED vars
  BY DEF AuraFadeRoutine
<1>2. /\ Inv' /\ UNCHANGED <<pc, current, heap>>
      /\ \A b : OnSomebody(b)' = OnSomebody(b)
  BY <1>1, VarsStay DEF StatsInv
<1>3. \A b : /\ Leaves(b)' <=> b = a
             /\ ~Arrives(b)
  BY <1>1, <1>2 DEF Arrives, Leaves
<1>4. Tap # Insight
  BY TalentAssumption
<1>5. CASE a = Tap /\ SetTap(FALSE) /\ UNCHANGED insight
  <2>1. StatsType' /\ SharesAgree'
    BY <1>1, <1>5, SetKeepsShares DEF StatsInv
  <2>2. BonusesHaveAuras'
    BY <1>2, <1>3, <1>4, <1>5 DEF StatsInv, BonusesHaveAuras, SetTap
  <2> QED
    BY <1>2, <2>1, <2>2 DEF StatsInv
<1>6. CASE a = Insight /\ SetInsight(0) /\ UNCHANGED <<tapApplied, twisted>>
  <2>1. StatsType' /\ SharesAgree'
    BY <1>1, <1>6, SetKeepsShares DEF StatsInv
  <2>2. BonusesHaveAuras'
    BY <1>2, <1>3, <1>4, <1>6 DEF StatsInv, BonusesHaveAuras, SetInsight
  <2> QED
    BY <1>2, <2>1, <2>2 DEF StatsInv
<1>7. CASE ~(a = Tap /\ tapApplied) /\ a # Insight /\ UNCHANGED stats
  <2>1. StatsType' /\ SharesAgree'
    BY <1>1, <1>7, SetKeepsShares DEF StatsInv
  <2>2. BonusesHaveAuras'
    BY <1>2, <1>3, <1>7 DEF StatsInv, BonusesHaveAuras, stats
  <2> QED
    BY <1>2, <2>1, <2>2 DEF StatsInv
<1> QED
  BY <1>5, <1>6, <1>7 DEF AuraFadeRoutine

LEMMA StatsStep == StatsInv /\ [PNext]_pvars => StatsInv'
<1> SUFFICES ASSUME StatsInv, [PNext]_pvars PROVE StatsInv'
  OBVIOUS
<1>1. CASE EngineStep \/ OtherStep
  BY <1>1, StatsEngine
<1>2. CASE Routines
  BY <1>2, StatsQueueing, StatsApplication, StatsFade DEF Routines
<1>3. CASE UNCHANGED pvars
  <2>1. UNCHANGED vars /\ UNCHANGED stats /\ UNCHANGED ran
    BY <1>3 DEF pvars
  <2>2. /\ Inv' /\ UNCHANGED <<pc, current, heap>>
        /\ \A b : OnSomebody(b)' = OnSomebody(b)
    BY <2>1, VarsStay DEF StatsInv
  <2>3. \A b : Arrives(b)' = Arrives(b) /\ Leaves(b)' = Leaves(b)
    BY <2>1, <2>2 DEF Arrives, Leaves
  <2>4. StatsType' /\ SharesAgree'
    BY <2>1 DEF StatsInv, StatsType, SharesAgree, stats
  <2>5. BonusesHaveAuras'
    BY <2>1, <2>2, <2>3 DEF StatsInv, BonusesHaveAuras, stats
  <2> QED
    BY <2>2, <2>4, <2>5 DEF StatsInv
<1> QED
  BY <1>1, <1>2, <1>3 DEF PNext

\* When no target has the tap of Improved Spirit Tap and none the glyph's
\* insight, the spell power is what it was at the start, although either bonus is
\* computed from the spirit that the other may have changed (Talent.lua,
\* Glyph.lua): whatever the spells, the targets and the order of the fades.
THEOREM BonusesAreTakenBack == PSpec => []StatsComeBack
BY StatsInit, StatsStep, StatsGiveStatsComeBack, PTL DEF PSpec

-----------------------------------------------------------------------------
(* Shadow Weaving.                                                            *)

IsWeave(y) == IsApplication(y) /\ heap[y].aura = Weave
Weaving == \E y : IsWeave(y)

\* There is one application of Shadow Weaving at a time, for now, and the stack
\* it carries still fits.
WeaveOK ==
  \A y : IsWeave(y) =>
    /\ heap[y].target = Player /\ heap[y].stacks \in {0, 1}
    /\ IsDueAt(eventMap, y, gameTime)
    /\ \A z : IsWeave(z) => z = y
    /\ heap[y].stacks = 1 /\ HasAura(Player, Weave) =>
         auraMap[Player][Weave].ticks < MaxWeaves

\* Until it has run no cast begins: the player is busy, or his last cast is.
PlayerBusy ==
  Weaving =>
    /\ pc \in Hooks \cup {"batch"}
    /\ ~IsIdle \/ pc = "PreCastingSpell"
    /\ castingSpell # Null => heap[castingSpell].gcdRecovery > gameTime
    /\ pc = "PreCastingSpell" => ran

\* What the routines of casts find.
CastState ==
  /\ pc = "PreCastingSpell" => castingSpell = Null
  /\ pc = "PostCastingSpell" => castingSpell = current

WeaveInv == Inv /\ WeavesBounded /\ WeaveOK /\ PlayerBusy /\ CastState

\* Only the talent applies Shadow Weaving.
LEMMA WeavesStay ==
  ASSUME Inv, [Next]_vars, NEW y, IsWeave(y)'
  PROVE  IsWeave(y) /\ Stays(y)
<1>1. IsApplication(y)' /\ heap'[y].aura = Weave
  BY DEF IsWeave
<1>2. ASSUME y \in DOMAIN heap, Stays(y)
      PROVE  IsWeave(y) /\ Stays(y)
  BY <1>1, <1>2 DEF Stays, IsWeave, IsApplication
<1>3. ASSUME NEW x \in DOMAIN heap, HitCast(x) \/ HitTick(x)
      PROVE  SpellData[heap[x].spell].aura # Weave
  <2>1. heap[x].type \in {"castPost", "tickPost"} /\ GoodObject(heap[x])
    BY <1>3, NextIsInFront DEF HitCast, HitTick
  <2>2. heap[x].spell \in Spells
    BY <2>1, KindsOfObjects DEF GoodObject, IsTick, CastEvents, TickEvents
  <2> QED
    BY <2>2, WeaveAssumption
<1>4. CASE ApplicationsStay
  BY <1>1, <1>2, <1>4 DEF ApplicationsStay
<1>5. CASE AllStay /\ \E x \in DOMAIN heap :
              /\ HitCast(x) \/ HitTick(x)
              /\ \A z : IsApplication(z)' /\ z \notin DOMAIN heap =>
                   heap'[z] = Application(x)
  <2>1. \A x : Application(x).aura = SpellData[heap[x].spell].aura
    BY DEF Application
  <2> QED
    BY <1>1, <1>2, <1>3, <1>5, <2>1 DEF AllStay
<1>6. CASE AllStay /\ \E call \in ApplyCalls :
              \A z : IsApplication(z)' /\ z \notin DOMAIN heap => heap'[z] = call
  BY <1>1, <1>2, <1>6, WeaveAssumption DEF AllStay
<1> QED
  BY <1>4, <1>5, <1>6, ApplicationsCome

\* The application that runs is deleted.
LEMMA AppliedIsGone ==
  ASSUME RefreshAura \/ NewAura
  PROVE  current \notin DOMAIN heap'
<1>1. CASE RefreshAura
  BY Zenon, <1>1 DEF RefreshAura, ReturnAndDelete, Delete
<1>2. CASE NewAura
  <2>1. PICK f, p : QueueAndReturn(current, FirstEvents(current, f, p))
    BY <1>2 DEF NewAura
  <2> DEFINE q == FirstEvents(current, f, p)
  <2>2. q = << >> \/ Len(q) = 1 \/ Len(q) = 2
    BY FirstEventsAre
  <2> HIDE DEF q
  <2>3. \E h : heap' = Delete(h, current)
    BY Zenon, <2>1, <2>2 DEF QueueAndReturn, ReturnAndDelete, q
  <2> QED
    BY SMTT(40), <2>3 DEF Delete
<1> QED
  BY SMTT(40), <1>1, <1>2

\* The aura changes only when its application runs, and not beyond the bound.
LEMMA WeaveAura ==
  ASSUME WeaveInv, [Next]_vars, HasAura(Player, Weave)'
  PROVE  \/ /\ HasAura(Player, Weave)
            /\ auraMap'[Player][Weave].ticks = auraMap[Player][Weave].ticks
         \/ /\ IsWeave(current) /\ current \notin DOMAIN heap'
            /\ auraMap'[Player][Weave].ticks <= MaxWeaves
<1>1. Inv /\ WeavesBounded /\ WeaveOK
  BY DEF WeaveInv
<1>2. Player \in Creatures /\ MaxWeaves \in Nat \ {0} /\ Weave \in DOMAIN auraMap'[Player]
  BY PlayerAssumption, TalentAssumption DEF HasAura
<1>3. HasAura(Player, Weave) => auraMap[Player][Weave].ticks \in Nat
  <2>1. HasAura(Player, Weave) => auraMap[Player][Weave] \in AuraObjects
    BY <1>1, <1>2 DEF Inv, OthersOK, AurasOK, HasAura
  <2> QED
    BY <2>1 DEF AuraObjects
<1>4. CASE UNCHANGED auraMap
  BY <1>2, <1>4 DEF HasAura
<1>5. ASSUME NEW x \in DOMAIN heap, HitCast(x) \/ HitTick(x)
      PROVE  HasAura(Player, Weave) /\ auraMap'[Player][Weave].ticks = auraMap[Player][Weave].ticks
  <2>1. heap[x].type \in {"castPost", "tickPost"} /\ GoodObject(heap[x]) /\ QueueSpellAura(x)
    BY <1>1, <1>5, NextIsInFront DEF HitCast, HitTick
  <2>2. heap[x].spell \in Spells
    BY <2>1, KindsOfObjects DEF GoodObject, IsTick, CastEvents, TickEvents
  <2>3. SpellData[heap[x].spell].aura # Weave
    BY <2>2, WeaveAssumption
  <2> QED
    BY <1>1, <1>2, <2>1, <2>3, HitKeepsAuras DEF HasAura
<1>6. ASSUME RefreshAura \/ NewAura, heap[current].aura = Weave, heap[current].target = Player
      PROVE  /\ IsWeave(current) /\ current \notin DOMAIN heap'
             /\ auraMap'[Player][Weave].ticks <= MaxWeaves
  <2>1. pc = "AuraApplication"
    BY <1>6 DEF RefreshAura, NewAura
  <2>2. current \in DOMAIN heap /\ heap[current].type = "apply"
    BY <1>1, <2>1, CurrentIsInFront DEF Hooks, HookType
  <2>3. IsWeave(current)
    BY <1>6, <2>2 DEF IsWeave, IsApplication
  <2>4. /\ heap[current].stacks \in {0, 1}
        /\ heap[current].stacks = 1 /\ HasAura(Player, Weave) =>
             auraMap[Player][Weave].ticks < MaxWeaves
    BY <1>1, <2>3 DEF WeaveOK
  <2>5. CASE RefreshAura
    <3>1. /\ HasAura(Player, Weave)
          /\ auraMap'[Player][Weave].ticks = auraMap[Player][Weave].ticks + heap[current].stacks
      BY <1>1, <1>2, <1>6, <2>5, RefreshedAuras
    <3>2. auraMap[Player][Weave].ticks <= MaxWeaves
      BY <1>1, <3>1 DEF WeavesBounded
    <3>3. auraMap'[Player][Weave].ticks <= MaxWeaves
      BY <1>2, <1>3, <2>4, <3>1, <3>2
    <3> QED
      BY <1>6, <2>3, <3>3, AppliedIsGone
  <2>6. CASE NewAura
    <3>1. auraMap'[Player][Weave].ticks = heap[current].stacks
      BY <1>1, <1>2, <1>6, <2>6, NewAuras
    <3>2. auraMap'[Player][Weave].ticks <= MaxWeaves
      BY <1>2, <2>4, <3>1
    <3> QED
      BY <1>6, <2>3, <3>2, AppliedIsGone
  <2> QED
    BY <1>6, <2>5, <2>6
<1>7. ASSUME RefreshAura \/ NewAura,
             ~(heap[current].aura = Weave /\ heap[current].target = Player)
      PROVE  HasAura(Player, Weave) /\ auraMap'[Player][Weave].ticks = auraMap[Player][Weave].ticks
  <2>1. CASE RefreshAura
    BY <1>1, <1>2, <1>7, <2>1, RefreshedAuras DEF HasAura
  <2>2. CASE NewAura
    BY <1>1, <1>2, <1>7, <2>2, NewAuras DEF HasAura
  <2> QED
    BY <1>7, <2>1, <2>2
<1>8. CASE FinishFade
  BY <1>1, <1>2, <1>8, FadedAuras DEF HasAura
<1> QED
  BY <1>4, <1>5, <1>6, <1>7, <1>8, AurasChangedBy

\* A step of the engine or of a script, in the instant of an application.
LEMMA WeaveStays ==
  ASSUME WeaveInv, [Next]_vars, NEW y, IsWeave(y)'
  PROVE  /\ IsWeave(y) /\ heap'[y] = heap[y]
         /\ IsDueAt(eventMap', y, gameTime) /\ gameTime' = gameTime
         /\ pc \in Hooks \cup {"batch"} /\ pc' \in Hooks \cup {"batch"}
<1>1. IsWeave(y) /\ Stays(y)
  BY WeavesStay DEF WeaveInv
<1>2. IsDueAt(eventMap, y, gameTime) /\ pc \in Hooks \cup {"batch"}
  BY <1>1 DEF WeaveInv, WeaveOK, PlayerBusy, Weaving
<1>3. IsDueAt(eventMap', y, gameTime) /\ heap'[y] = heap[y]
  BY <1>1, <1>2 DEF Stays
<1> QED
  BY <1>1, <1>2, <1>3, InstantGoesOn DEF WeaveInv

LEMMA WeavesStillFit ==
  ASSUME WeaveInv, [Next]_vars
  PROVE  WeavesBounded' /\ WeaveOK'
<1>1. WeavesBounded'
  <2>1. ASSUME HasAura(Player, Weave)'
        PROVE  auraMap'[Player][Weave].ticks <= MaxWeaves
    BY <2>1, WeaveAura DEF WeaveInv, WeavesBounded
  <2> QED
    BY <2>1 DEF WeavesBounded
<1>2. ASSUME NEW y, IsWeave(y)'
      PROVE  /\ heap'[y].target = Player /\ heap'[y].stacks \in {0, 1}
             /\ IsDueAt(eventMap', y, gameTime')
             /\ \A z : IsWeave(z)' => z = y
             /\ heap'[y].stacks = 1 /\ HasAura(Player, Weave)' =>
                  auraMap'[Player][Weave].ticks < MaxWeaves
  <2>1. /\ IsWeave(y) /\ heap'[y] = heap[y] /\ y \in DOMAIN heap'
        /\ IsDueAt(eventMap', y, gameTime) /\ gameTime' = gameTime
    BY <1>2, WeaveStays DEF IsWeave, IsApplication
  <2>2. \A z : IsWeave(z)' => IsWeave(z)
    BY WeaveStays
  <2>3. /\ heap[y].target = Player /\ heap[y].stacks \in {0, 1}
        /\ \A z : IsWeave(z) => z = y
        /\ heap[y].stacks = 1 /\ HasAura(Player, Weave) =>
             auraMap[Player][Weave].ticks < MaxWeaves
    BY <2>1 DEF WeaveInv, WeaveOK
  <2>4. HasAura(Player, Weave)' =>
          /\ HasAura(Player, Weave)
          /\ auraMap'[Player][Weave].ticks = auraMap[Player][Weave].ticks
    BY <2>1, <2>3, WeaveAura
  <2> QED
    BY <2>1, <2>2, <2>3, <2>4
<1>3. WeaveOK'
  BY <1>2 DEF WeaveOK
<1> QED
  BY <1>1, <1>3

\* What the end of a routine of casts does to the player.
LEMMA CastGoesOn ==
  ASSUME Inv, FinishPreCasting
  PROVE  /\ pc' \notin Hooks
         /\ ~IsIdle'
         /\ castingSpell' # Null => heap'[castingSpell'].gcdRecovery > gameTime'
<1>1. PICK g \in GcdTimes :
        \/ MissChannel(g)
        \/ \E c \in CastTimes(heap[current].spell) :
             StartCast(g, c) \/ StartChannel(g, c)
  BY DEF FinishPreCasting
<1>2. pc = "PreCastingSpell" /\ \E m : Return(m)
  BY <1>1 DEF MissChannel, StartCast, StartChannel, ReturnAndDelete
<1>3. pc' \notin Hooks /\ gameTime' = gameTime
  BY <1>2, ReturnLeavesHook DEF Return
<1>4. /\ current \in DOMAIN heap /\ current # Null /\ heap[current] \in CastEvents
      /\ gameTime \in Nat
  BY <1>2, PreCastingFacts
<1>5. g \in Nat /\ g # 0
  BY SpellAssumption, WeaveAssumption
<1>6. gameTime + g > gameTime /\ ~(gameTime + g <= gameTime)
  BY <1>4, <1>5
<1>7. CASE MissChannel(g)
  BY <1>3, <1>6, <1>7 DEF MissChannel, IsIdle
<1>8. ASSUME NEW c \in CastTimes(heap[current].spell),
             StartCast(g, c) \/ StartChannel(g, c)
      PROVE  castingSpell' = current /\ heap'[current] = CastPost(heap[current], gameTime + g)
  BY <1>4, <1>8 DEF StartCast, StartChannel, CastPost
<1>9. CastPost(heap[current], gameTime + g).gcdRecovery = gameTime + g
  BY <1>4 DEF CastPost, CastEvents
<1> QED
  BY <1>1, <1>3, <1>4, <1>6, <1>7, <1>8, <1>9 DEF IsIdle

\* A step that stays in PreCastingSpellRoutine, or comes to it.
LEMMA StaysBeforeCast ==
  ASSUME EngineStep \/ OtherStep \/ UNCHANGED pvars, pc' = "PreCastingSpell"
  PROVE  \/ pc = pc' /\ UNCHANGED ran /\ ~Engine
         \/ pc = "batch" /\ \E x : BeginCast(x)
<1>1. [Next]_vars
  BY DEF EngineStep, OtherStep, Next, pvars, vars
<1>2. ~FinishPreCasting
  <2>1. FinishPreCasting => \E m : Return(m)
    BY DEF FinishPreCasting, MissChannel, StartCast, StartChannel, ReturnAndDelete
  <2> QED
    BY <2>1, ReturnLeavesHook DEF Hooks
<1>3. pc = pc' => UNCHANGED ran /\ ~Engine
  <2>1. pc = pc' => ~Engine
    BY <1>2, EngineInHook DEF Hooks
  <2> QED
    BY <2>1 DEF EngineStep, OtherStep, pvars
<1>4. ASSUME NEW x, \/ BeginCast(x) \/ BeginTick(x) \/ HitCast(x) \/ HitTick(x)
                    \/ BeginApplication(x) \/ BeginFade(x) \/ BeginPeriodic(x)
      PROVE  pc = "batch" /\ BeginCast(x)
  BY <1>4 DEF BeginCast, BeginTick, HitCast, HitTick, BeginApplication, BeginFade,
     BeginPeriodic, CallHook, IsNext
<1> QED
  BY <1>1, <1>3, <1>4, InHook DEF Hooks

LEMMA StillBusy ==
  ASSUME WeaveInv, EngineStep \/ OtherStep \/ UNCHANGED pvars
  PROVE  PlayerBusy'
<1>1. [Next]_vars
  BY DEF EngineStep, OtherStep, Next, pvars, vars
<1>2. Inv /\ Inv' /\ Undisturbed
  BY <1>1, NextKeepsInv DEF WeaveInv
<1> SUFFICES ASSUME NEW y, IsWeave(y)' PROVE PlayerBusy'
  BY DEF PlayerBusy, Weaving
<1>3. /\ Weaving /\ gameTime' = gameTime
      /\ pc \in Hooks \cup {"batch"} /\ pc' \in Hooks \cup {"batch"}
  BY <1>1, WeaveStays DEF Weaving
<1>4. /\ ~IsIdle \/ pc = "PreCastingSpell"
      /\ castingSpell # Null => heap[castingSpell].gcdRecovery > gameTime
      /\ pc = "PreCastingSpell" => ran
  BY <1>3 DEF WeaveInv, PlayerBusy
<1>5. pc' = "PreCastingSpell" => pc = pc' /\ ran' /\ ~Engine
  <2>1. pc = "batch" => ~\E x : BeginCast(x)
    BY <1>4 DEF BeginCast
  <2> QED
    BY <1>4, <2>1, StaysBeforeCast
<1>6. ASSUME /\ ~IsIdle' \/ pc' = "PreCastingSpell"
             /\ castingSpell' # Null => heap'[castingSpell'].gcdRecovery > gameTime'
      PROVE  PlayerBusy'
  BY <1>3, <1>5, <1>6 DEF PlayerBusy
<1>7. CASE FinishPreCasting
  BY <1>2, <1>6, <1>7, CastGoesOn
<1>8. CASE SamePlayer /\ ~FinishPreCasting
  <2>1. pc = "PreCastingSpell" => pc' = pc
    BY <1>1, <1>8, LeavingHook
  <2>2. IsIdle' = IsIdle
    BY <1>3, <1>8 DEF IsIdle, SamePlayer
  <2>3. castingSpell' # Null => heap'[castingSpell'].gcdRecovery > gameTime'
    BY <1>3, <1>4, <1>8 DEF SamePlayer
  <2> QED
    BY <1>4, <1>6, <2>1, <2>2, <2>3
<1>9. ASSUME NEW x, x = castingSpell, x # Null, castingSpell' = Null,
             globalCooldown' = heap[x].gcdRecovery
      PROVE  PlayerBusy'
  <2>1. globalCooldown' \in Nat /\ gameTime \in Nat /\ globalCooldown' > gameTime
    BY <1>2, <1>4, <1>9 DEF Inv, OthersOK, ClockOK
  <2>2. ~(globalCooldown' <= gameTime')
    BY <1>3, <2>1
  <2> QED
    BY <1>6, <1>9, <2>2 DEF IsIdle
<1>10. CASE FinishPostCasting
  <2>1. pc = "PostCastingSpell" /\ castingSpell' = Null /\ globalCooldown' = heap[current].gcdRecovery
    BY <1>10 DEF FinishPostCasting
  <2>2. current = castingSpell /\ current # Null
    BY <1>2, <2>1, CurrentIsInFront DEF WeaveInv, CastState, Hooks
  <2> QED
    BY <1>9, <2>1, <2>2
<1>11. ASSUME NEW x, MissCast(x)
       PROVE  PlayerBusy'
  <2>1. /\ IsNext(x) /\ castingSpell = x /\ castingSpell' = Null
        /\ globalCooldown' = heap[x].gcdRecovery
    BY <1>11 DEF MissCast
  <2>2. x # Null
    BY <1>2, <2>1, NextIsInFront
  <2> QED
    BY <1>9, <2>1, <2>2
<1>12. ~StopCasting
  BY <1>3, WeaveAssumption, ScriptAssumption DEF StopCasting, Call, Scripts, Hooks
<1>13. ASSUME NEW n, PlayerSleep(n)
       PROVE  PlayerBusy'
  <2>1. IsIdle /\ pc' = pc /\ castingSpell' = castingSpell
    BY <1>13 DEF PlayerSleep
  <2>2. pc' = "PreCastingSpell" /\ castingSpell' = Null
    BY <1>4, <2>1 DEF IsIdle
  <2> QED
    BY <1>6, <2>2
<1> QED
  BY <1>1, <1>2, <1>7, <1>8, <1>10, <1>11, <1>12, <1>13, PlayerChangedBy

LEMMA CastStateStays ==
  ASSUME WeaveInv, EngineStep \/ OtherStep \/ UNCHANGED pvars
  PROVE  CastState'
<1>1. [Next]_vars
  BY DEF EngineStep, OtherStep, Next, pvars, vars
<1>2. CASE UNCHANGED <<pc, current>> /\ (ScriptNext \/ UNCHANGED vars)
  <2>1. \/ castingSpell' = castingSpell
        \/ castingSpell' = Null /\ pc \notin Hooks
    <3>1. CASE StopCasting
      BY <3>1, WeaveAssumption DEF StopCasting, Call
    <3>2. CASE ~StopCasting
      BY <1>2, <3>2 DEF ScriptNext, CastSpellByName, UnitApplyAura, PlayerSleep,
         FinalizeCalculation, vars, player
    <3> QED
      BY <3>1, <3>2
  <2> QED
    BY <1>2, <2>1 DEF WeaveInv, CastState, Hooks
<1>3. ASSUME NEW x, BeginCast(x)
      PROVE  CastState'
  BY <1>3 DEF BeginCast, CallHook, IsIdle, player, CastState
<1>4. ASSUME NEW x, HitCast(x)
      PROVE  CastState'
  BY <1>4 DEF HitCast, CallHook, player, CastState
<1>5. ASSUME NEW x, \/ BeginTick(x) \/ HitTick(x)
                    \/ BeginApplication(x) \/ BeginFade(x) \/ BeginPeriodic(x)
      PROVE  CastState'
  BY <1>5 DEF BeginTick, HitTick, BeginApplication, BeginFade, BeginPeriodic, CallHook,
     CastState
<1>6. CASE pc' \notin Hooks
  BY <1>6 DEF CastState, Hooks
<1> QED
  BY <1>1, <1>2, <1>3, <1>4, <1>5, <1>6, InHook

LEMMA WeaveEngine ==
  ASSUME WeaveInv, EngineStep \/ OtherStep \/ UNCHANGED pvars
  PROVE  WeaveInv'
<1>1. [Next]_vars
  BY DEF EngineStep, OtherStep, Next, pvars, vars
<1>2. Inv'
  BY <1>1, NextKeepsInv DEF WeaveInv
<1> QED
  BY <1>1, <1>2, WeavesStillFit, StillBusy, CastStateStays DEF WeaveInv

\* The stack that Shadow Weaving is given fits.
LEMMA StacksFit ==
  ASSUME Inv
  PROVE  /\ WeaveStacks \in {0, 1}
         /\ WeaveStacks = 1 /\ HasAura(Player, Weave) =>
              auraMap[Player][Weave].ticks < MaxWeaves
<1>1. HasAura(Player, Weave) => auraMap[Player][Weave] \in AuraObjects
  BY PlayerAssumption DEF Inv, OthersOK, AurasOK, HasAura
<1>2. HasAura(Player, Weave) => auraMap[Player][Weave].ticks \in Nat
  BY <1>1 DEF AuraObjects
<1>3. MaxWeaves \in Nat
  BY TalentAssumption
<1> QED
  BY <1>2, <1>3 DEF WeaveStacks

\* A routine of casts or channels queues applications, now.
LEMMA WeaveQueueing ==
  ASSUME WeaveInv, \/ PreCastingSpellRoutine \/ PreSpellChannelRoutine
                   \/ PostCastingSpellRoutine \/ PostSpellChannelRoutine
  PROVE  WeaveInv'
<1>1. Inv /\ WeavesBounded /\ WeaveOK /\ PlayerBusy /\ CastState
  BY DEF WeaveInv
<1>2. Inv' /\ \E S : Adds(S) /\ IsTalents(S)
  BY <1>1, RoutinesQueue
<1>3. PICK S : Adds(S) /\ IsTalents(S)
  BY <1>2
<1>4. /\ pc \in Hooks /\ ~ran /\ ran' = TRUE
      /\ UNCHANGED <<gameTime, pc, current, castingSpell, globalCooldown, auraMap>>
  BY DEF PreCastingSpellRoutine, PreSpellChannelRoutine, PostCastingSpellRoutine,
     PostSpellChannelRoutine, RunQueueing, auras, player, Hooks
<1>5. WeavesBounded' /\ CastState'
  BY <1>1, <1>4 DEF WeavesBounded, CastState, HasAura
<1>6. ASSUME NEW y, IsWeave(y)'
      PROVE  \/ IsWeave(y) /\ pc # "PreCastingSpell" /\ heap'[y] = heap[y]
             \/ /\ pc = "PreCastingSpell" /\ y \in DOMAIN heap' /\ y \notin DOMAIN heap
                /\ heap'[y] = Applying(Weave, Player, WeaveStacks)
  <2>1. y \in DOMAIN heap' /\ heap'[y].type = "apply" /\ heap'[y].aura = Weave
    BY <1>6 DEF IsWeave, IsApplication
  <2>2. CASE y \in DOMAIN heap
    <3>1. heap'[y] = heap[y] /\ IsWeave(y)
      BY <1>3, <2>1, <2>2 DEF Adds, AllStay, Stays, IsWeave, IsApplication
    <3>2. pc # "PreCastingSpell"
      BY <1>1, <1>4, <3>1 DEF PlayerBusy, Weaving
    <3> QED
      BY <3>1, <3>2
  <2>3. CASE y \notin DOMAIN heap
    <3>1. heap'[y] \in S
      BY <1>3, <2>1, <2>3 DEF Adds
    <3> QED
      BY <1>3, <2>1, <2>3, <3>1 DEF IsTalents
  <2> QED
    BY <2>2, <2>3
<1>7. CASE pc # "PreCastingSpell"
  <2>1. \A y : IsWeave(y)' => IsWeave(y) /\ heap'[y] = heap[y]
    BY <1>6, <1>7
  <2>2. \A y : IsWeave(y)' => IsDueAt(eventMap', y, gameTime')
    BY <1>1, <1>3, <1>4, <2>1 DEF WeaveOK, Adds, AllStay, Stays, IsWeave, IsApplication
  <2>3. HasAura(Player, Weave)' = HasAura(Player, Weave)
    BY <1>4 DEF HasAura
  <2>4. WeaveOK'
    BY <1>1, <1>4, <2>1, <2>2, <2>3 DEF WeaveOK
  <2>5. Weaving' => Weaving
    BY <2>1 DEF Weaving
  <2>6. castingSpell # Null => heap'[castingSpell] = heap[castingSpell]
    BY <1>1, <1>3, CastIsThere DEF Adds, AllStay, Stays
  <2>7. IsIdle' = IsIdle
    BY <1>4 DEF IsIdle
  <2>8. PlayerBusy'
    BY <1>1, <1>4, <1>7, <2>5, <2>6, <2>7 DEF PlayerBusy
  <2> QED
    BY <1>2, <1>5, <2>4, <2>8 DEF WeaveInv
<1>8. CASE pc = "PreCastingSpell"
  <2>1. ASSUME NEW y, IsWeave(y)'
        PROVE  /\ y \in DOMAIN heap' /\ y \notin DOMAIN heap
               /\ heap'[y] = Applying(Weave, Player, WeaveStacks)
               /\ heap'[y].target = Player /\ heap'[y].stacks = WeaveStacks
               /\ IsDueAt(eventMap', y, gameTime')
    <3>1. /\ y \in DOMAIN heap' /\ y \notin DOMAIN heap
          /\ heap'[y] = Applying(Weave, Player, WeaveStacks)
      BY <1>6, <1>8, <2>1
    <3>2. heap'[y].target = Player /\ heap'[y].stacks = WeaveStacks
      BY <3>1 DEF Applying
    <3>3. IsDueAt(eventMap', y, gameTime')
      BY <1>3, <1>4, <3>1 DEF Adds
    <3> QED
      BY <3>1, <3>2, <3>3
  <2>2. \A y, z : IsWeave(y)' /\ IsWeave(z)' => y = z
    BY <1>3, <2>1 DEF Adds
  <2>3. HasAura(Player, Weave)' = HasAura(Player, Weave)
    BY <1>4 DEF HasAura
  <2>4. WeaveOK'
    BY <1>1, <1>4, <2>1, <2>2, <2>3, StacksFit DEF WeaveOK
  <2>5. PlayerBusy'
    BY <1>1, <1>4, <1>8 DEF PlayerBusy, CastState
  <2> QED
    BY <1>2, <1>5, <2>4, <2>5 DEF WeaveInv
<1> QED
  BY <1>7, <1>8

\* A routine of auras changes the stats only.
LEMMA WeaveStats ==
  ASSUME WeaveInv, AuraApplicationRoutine \/ AuraFadeRoutine
  PROVE  WeaveInv'
<1>1. /\ pc \in {"AuraApplication", "AuraFade"} /\ UNCHANGED vars
  BY DEF AuraApplicationRoutine, AuraFadeRoutine
<1>2. Inv'
  BY <1>1, NextKeepsInv DEF WeaveInv
<1>3. \A y : IsWeave(y)' = IsWeave(y)
  BY <1>1 DEF vars, IsWeave, IsApplication
<1>4. Weaving' = Weaving
  BY <1>3 DEF Weaving
<1>5. HasAura(Player, Weave)' = HasAura(Player, Weave) /\ IsIdle' = IsIdle
  BY <1>1 DEF vars, HasAura, IsIdle
<1>6. WeaveOK' /\ WeavesBounded'
  BY <1>1, <1>3, <1>5 DEF vars, WeaveInv, WeaveOK, WeavesBounded
<1>7. PlayerBusy' /\ CastState'
  BY <1>1, <1>4, <1>5 DEF vars, WeaveInv, PlayerBusy, CastState
<1> QED
  BY <1>2, <1>6, <1>7 DEF WeaveInv

LEMMA WeaveStep == WeaveInv /\ [PNext]_pvars => WeaveInv'
BY WeaveEngine, WeaveQueueing, WeaveStats DEF PNext, Routines

LEMMA WeaveInit == PInit => WeaveInv
<1> SUFFICES ASSUME PInit PROVE WeaveInv
  OBVIOUS
<1>1. Inv /\ Init
  BY InvInit DEF PInit
<1>2. \A y : ~IsWeave(y)
  BY <1>1 DEF Init, IsWeave, IsApplication
<1>3. ~HasAura(Player, Weave)
  BY <1>1, PlayerAssumption DEF Init, HasAura
<1> QED
  BY <1>1, <1>2, <1>3 DEF WeaveInv, WeavesBounded, WeaveOK, PlayerBusy, Weaving, CastState, Init

\* Shadow Weaving never shows more stacks than it may, although Talent.lua reads
\* the stacks before the cast and the event that adds one runs later: until that
\* event has run no other cast begins, so none reads the stacks meanwhile.
THEOREM WeavesStayBounded == PSpec => []WeavesBounded
<1>1. WeaveInv => WeavesBounded
  BY DEF WeaveInv
<1> QED
  BY <1>1, WeaveInit, WeaveStep, PTL DEF PSpec
=============================================================================
