--------------------------- MODULE SimulatorProofs ---------------------------
(* The event objects of the simulator live as long as they are needed, for    *)
(* every set of spells, auras and scripts.                                    *)
EXTENDS Simulator, EventMapProofs, TLAPS

-----------------------------------------------------------------------------
(* What the handlers do to the queue and to the event objects, as facts about *)
(* a queue m, a heap h, a time now and a casting spell cs: adding a new       *)
(* event, deleting the event that runs, and queueing it again.                *)

\* x is the event at the front of the list of this instant.
InFront(m, now, x) == now \in DOMAIN m /\ x = Head(m[now])

GoodMap(m, now) ==
  /\ IsEventMap(m, Addr)
  /\ NoDuplicates(m)
  /\ \A t \in DOMAIN m : now <= t

IsTick(obj) == obj.type \in {"tickPre", "tickPost"}

\* p is, in h, the cast event of the channel that the tick obj belongs to.
IsParent(h, p, obj) ==
  p \in DOMAIN h /\ h[p].type = "castPost" /\ h[p].spell = obj.spell

\* What haste makes of the time to fade that an application carries is a uint32.
GoodObject(obj) ==
  obj \in EventObjects /\ (obj.type = "apply" => HastedTimes(obj.fade) \subseteq Nat)

GoodHeap(m, h) ==
  /\ IsFunctionOn(h, DOMAIN h)
  /\ DOMAIN h = Queued(m)
  /\ \A x \in DOMAIN h : GoodObject(h[x])

GoodTicks(m, h) ==
  \A x \in DOMAIN h : IsTick(h[x]) =>
    /\ IsParent(h, h[x].parent, h[x])
    /\ \A t, u : IsDueAt(m, x, t) /\ IsDueAt(m, h[x].parent, u) => t < u

GoodCast(h, cs) == cs # Null => cs \in DOMAIN h /\ h[cs].type = "castPost"

\* From m and h to n and g the events other than x stay as and where they are.
Untouched(m, h, n, g, x) ==
  \A y \in DOMAIN h : y # x =>
    /\ y \in DOMAIN g /\ g[y] = h[y]
    /\ \A t : IsDueAt(n, y, t) <=> IsDueAt(m, y, t)

\* The queue, the objects and the pointers to them are in order.
Sound(m, h, now, cs) ==
  GoodMap(m, now) /\ GoodHeap(m, h) /\ GoodTicks(m, h) /\ GoodCast(h, cs)

-----------------------------------------------------------------------------
(* The queue alone.                                                           *)

\* What is due, is queued, at a time that is not over.
LEMMA DueTimes ==
  ASSUME NEW m, NEW now, GoodMap(m, now), NEW x, NEW t, IsDueAt(m, x, t)
  PROVE  t \in Nat /\ now <= t /\ t \in DOMAIN m /\ x \in Addr /\ x \in Queued(m)
<1>1. t \in DOMAIN m /\ \E i \in DOMAIN m[t] : m[t][i] = x
  BY DEF IsDueAt
<1>2. m[t] \in Seq(Addr) /\ DOMAIN m \subseteq Nat /\ \A u \in DOMAIN m : now <= u
  BY <1>1 DEF GoodMap, IsEventMap
<1>3. x \in Addr
  BY <1>1, <1>2
<1> QED
  BY <1>1, <1>2, <1>3, QueuedIsDue

\* An event is due once.
LEMMA DueOnce ==
  ASSUME NEW m, NoDuplicates(m), NEW x, NEW t, NEW u,
         IsDueAt(m, x, t), IsDueAt(m, x, u)
  PROVE  t = u
BY DEF NoDuplicates, IsDueAt

\* The event in front is due now, and at no other time.
LEMMA FrontIsDue ==
  ASSUME NEW m, NEW now, GoodMap(m, now), NEW x, InFront(m, now, x)
  PROVE  IsDueAt(m, x, now) /\ x \in Queued(m) /\ x \in Addr
<1>1. now \in DOMAIN m /\ m[now] \in Seq(Addr) /\ m[now] # << >>
  BY DEF InFront, GoodMap, IsEventMap
<1>2. 1 \in DOMAIN m[now] /\ m[now][1] = x
  BY <1>1 DEF InFront
<1>3. IsDueAt(m, x, now)
  BY <1>1, <1>2 DEF IsDueAt
<1> QED
  BY <1>3, DueTimes

\* A new event at a time to come.
LEMMA AddToMap ==
  ASSUME NEW m, NEW now, GoodMap(m, now), NEW u \in Nat, now <= u,
         NEW y \in Addr, y \notin Queued(m)
  PROVE  /\ GoodMap(Enqueue(m, u, y), now)
         /\ Queued(Enqueue(m, u, y)) = Queued(m) \cup {y}
         /\ \A x, t : IsDueAt(Enqueue(m, u, y), x, t)
                        <=> IsDueAt(m, x, t) \/ (x = y /\ t = u)
         /\ \A x : InFront(m, now, x) => InFront(Enqueue(m, u, y), now, x)
<1> DEFINE n == Enqueue(m, u, y)
<1>1. IsEventMap(m, Addr) /\ NoDuplicates(m)
  BY DEF GoodMap
<1>2. \A t \in DOMAIN m : now <= t
  BY DEF GoodMap
<1>3. IsEventMap(n, Addr) /\ DOMAIN n = DOMAIN m \cup {u}
  <2>1. IsEventMap(n, Addr)
    BY <1>1, EnqueueType
  <2>2. DOMAIN n = DOMAIN m \cup {u}
    BY DEF Enqueue
  <2> QED
    BY <2>1, <2>2
<1>4. NoDuplicates(n)
  BY <1>1, EnqueueNoDuplicates
<1>5. GoodMap(n, now)
  BY <1>2, <1>3, <1>4 DEF GoodMap
<1>6. \A x : InFront(m, now, x) => InFront(n, now, x)
  BY <1>1, <1>3, EnqueueHead DEF InFront
<1>7. Queued(n) = Queued(m) \cup {y}
  BY <1>1, EnqueueQueued
<1>8. \A x, t : IsDueAt(n, x, t) <=> IsDueAt(m, x, t) \/ (x = y /\ t = u)
  BY <1>1, EnqueueDue
<1> QED
  BY <1>5, <1>6, <1>7, <1>8

\* The front entry is popped.
LEMMA PopFromMap ==
  ASSUME NEW m, NEW now, GoodMap(m, now), NEW x, InFront(m, now, x)
  PROVE  /\ GoodMap(PopFront(m, now), now)
         /\ Queued(PopFront(m, now)) = Queued(m) \ {x}
         /\ \A y, t : IsDueAt(PopFront(m, now), y, t) <=> IsDueAt(m, y, t) /\ y # x
<1> DEFINE n == PopFront(m, now)
<1>1. /\ IsEventMap(m, Addr) /\ NoDuplicates(m) /\ \A t \in DOMAIN m : now <= t
      /\ now \in DOMAIN m /\ x = Head(m[now])
  BY DEF GoodMap, InFront
<1>2. IsEventMap(n, Addr) /\ DOMAIN n \subseteq DOMAIN m
  BY <1>1, PopFrontType
<1>3. NoDuplicates(n)
  BY <1>1, PopFrontNoDuplicates
<1>4. GoodMap(n, now)
  BY <1>1, <1>2, <1>3 DEF GoodMap
<1>5. Queued(n) = Queued(m) \ {x}
  BY <1>1, PopFrontQueued
<1>6. \A y, t : IsDueAt(n, y, t) <=> IsDueAt(m, y, t) /\ y # x
  BY <1>1, PopFrontDue
<1> QED
  BY <1>4, <1>5, <1>6

\* The handler queues the event it runs for again, and then its front entry is
\* popped: the event has moved.
LEMMA MoveInMap ==
  ASSUME NEW m, NEW now, GoodMap(m, now), NEW x, InFront(m, now, x),
         NEW u \in Nat, now <= u
  PROVE  LET n == PopFront(Enqueue(m, u, x), now)
         IN  /\ GoodMap(n, now)
             /\ Queued(n) = Queued(m)
             /\ \A y, t : IsDueAt(n, y, t)
                  <=> (IsDueAt(m, y, t) /\ y # x) \/ (y = x /\ t = u)
<1> DEFINE p == PopFront(m, now)
           n == PopFront(Enqueue(m, u, x), now)
<1>1. IsEventMap(m, Addr) /\ now \in DOMAIN m
  BY DEF GoodMap, InFront
<1>2. x \in Addr /\ x \in Queued(m)
  BY FrontIsDue
<1>3. n = Enqueue(p, u, x)
  BY <1>1, <1>2, PopAfterEnqueue
<1>4. /\ GoodMap(p, now)
      /\ Queued(p) = Queued(m) \ {x}
      /\ \A y, t : IsDueAt(p, y, t) <=> IsDueAt(m, y, t) /\ y # x
  BY PopFromMap
<1> HIDE DEF n, p
<1>5. /\ GoodMap(n, now)
      /\ Queued(n) = Queued(p) \cup {x}
      /\ \A y, t : IsDueAt(n, y, t) <=> IsDueAt(p, y, t) \/ (y = x /\ t = u)
  BY <1>2, <1>3, <1>4, AddToMap
<1>6. Queued(n) = Queued(m)
  BY <1>2, <1>4, <1>5
<1>7. \A y, t : IsDueAt(n, y, t) <=> (IsDueAt(m, y, t) /\ y # x) \/ (y = x /\ t = u)
  BY <1>4, <1>5
<1> QED
  BY <1>5, <1>6, <1>7 DEF n

-----------------------------------------------------------------------------
(* The queue with the objects and the pointers.                               *)

\* operator new returns an address that no event has.
LEMMA FreshIsNew ==
  ASSUME NEW m, NEW h, NEW now, GoodMap(m, now), GoodHeap(m, h),
         NEW y \in Fresh(DOMAIN h)
  PROVE  y \in Addr /\ y \notin DOMAIN h /\ y \notin Queued(m)
<1>1. DOMAIN h = Queued(m) /\ Queued(m) \subseteq Addr
  BY QueuedIsDue, DueTimes DEF GoodHeap
<1> QED
  BY <1>1, AddrAssumption

\* The event in front is no parent: its ticks would be due before it, in the past.
LEMMA FrontIsNoParent ==
  ASSUME NEW m, NEW h, NEW now \in Nat, GoodMap(m, now), GoodHeap(m, h),
         GoodTicks(m, h), NEW x, InFront(m, now, x),
         NEW y \in DOMAIN h, IsTick(h[y])
  PROVE  h[y].parent # x
<1>1. PICK t : IsDueAt(m, y, t)
  BY QueuedIsDue DEF GoodHeap
<1>2. t \in Nat /\ now <= t
  BY <1>1, DueTimes
<1>3. IsDueAt(m, x, now)
  BY FrontIsDue
<1>4. h[y].parent = x => t < now
  BY <1>1, <1>3 DEF GoodTicks
<1> QED
  BY <1>2, <1>4

LEMMA UntouchedTwice ==
  ASSUME NEW m, NEW h, NEW n, NEW g, NEW o, NEW f, NEW x,
         Untouched(m, h, n, g, x), Untouched(n, g, o, f, x)
  PROVE  Untouched(m, h, o, f, x)
BY DEF Untouched

\* A new object that is no tick is queued for a time to come.
LEMMA AddEvent ==
  ASSUME NEW m, NEW h, NEW now \in Nat, NEW cs, Sound(m, h, now, cs),
         NEW y \in Fresh(DOMAIN h), NEW u \in Nat, now <= u,
         NEW obj, GoodObject(obj), ~IsTick(obj)
  PROVE  /\ Sound(Enqueue(m, u, y), New(h, y, obj), now, cs)
         /\ DOMAIN New(h, y, obj) = DOMAIN h \cup {y}
         /\ New(h, y, obj)[y] = obj
         /\ \A x \in DOMAIN h : x # y /\ New(h, y, obj)[x] = h[x]
         /\ \A x : InFront(m, now, x) =>
              InFront(Enqueue(m, u, y), now, x) /\ x \in DOMAIN h
         /\ \A x : Untouched(m, h, Enqueue(m, u, y), New(h, y, obj), x)
<1> DEFINE n == Enqueue(m, u, y)
           g == New(h, y, obj)
<1>1. GoodMap(m, now) /\ GoodHeap(m, h) /\ GoodTicks(m, h) /\ GoodCast(h, cs)
  BY DEF Sound
<1>2. y \in Addr /\ y \notin DOMAIN h /\ y \notin Queued(m)
  BY <1>1, FreshIsNew
<1>3. /\ GoodMap(n, now)
      /\ Queued(n) = Queued(m) \cup {y}
      /\ \A x, t : IsDueAt(n, x, t) <=> IsDueAt(m, x, t) \/ (x = y /\ t = u)
      /\ \A x : InFront(m, now, x) => InFront(n, now, x)
  BY <1>1, <1>2, AddToMap
<1>4. /\ DOMAIN g = DOMAIN h \cup {y}
      /\ g[y] = obj
      /\ \A x \in DOMAIN h : x # y /\ g[x] = h[x]
      /\ IsFunctionOn(g, DOMAIN g)
  BY <1>2 DEF New, IsFunctionOn
<1>5. \A x : InFront(m, now, x) => x \in DOMAIN h
  BY <1>1, FrontIsDue DEF GoodHeap
<1> HIDE DEF n, g
<1>6. GoodHeap(n, g)
  BY <1>1, <1>3, <1>4 DEF GoodHeap
<1>7. GoodTicks(n, g)
  <2> SUFFICES ASSUME NEW x \in DOMAIN g, IsTick(g[x])
               PROVE  /\ IsParent(g, g[x].parent, g[x])
                      /\ \A t, v : IsDueAt(n, x, t) /\ IsDueAt(n, g[x].parent, v)
                                    => t < v
    BY DEF GoodTicks
  <2>1. x \in DOMAIN h /\ g[x] = h[x] /\ x # y
    BY <1>4
  <2>2. /\ IsParent(h, h[x].parent, h[x])
        /\ \A t, v : IsDueAt(m, x, t) /\ IsDueAt(m, h[x].parent, v) => t < v
    BY <1>1, <2>1 DEF GoodTicks
  <2>3. IsParent(g, g[x].parent, g[x]) /\ g[x].parent # y
    BY <1>4, <2>1, <2>2 DEF IsParent
  <2> QED
    BY <1>3, <2>1, <2>2, <2>3
<1>8. GoodCast(g, cs)
  BY <1>1, <1>4 DEF GoodCast
<1>9. \A x : Untouched(m, h, n, g, x)
  BY <1>3, <1>4 DEF Untouched
<1> QED
  BY <1>3, <1>4, <1>5, <1>6, <1>7, <1>8, <1>9 DEF Sound, n, g

\* The handler of the event in front returns nonzero: the entry is popped and
\* the object deleted.
LEMMA RemoveEvent ==
  ASSUME NEW m, NEW h, NEW now \in Nat, NEW cs, Sound(m, h, now, cs),
         NEW x, InFront(m, now, x), NEW ds \in {cs, Null}, ds # x
  PROVE  /\ Sound(PopFront(m, now), Delete(h, x), now, ds)
         /\ Untouched(m, h, PopFront(m, now), Delete(h, x), x)
<1> DEFINE n == PopFront(m, now)
           g == Delete(h, x)
<1>1. GoodMap(m, now) /\ GoodHeap(m, h) /\ GoodTicks(m, h) /\ GoodCast(h, cs)
  BY DEF Sound
<1>2. /\ GoodMap(n, now)
      /\ Queued(n) = Queued(m) \ {x}
      /\ \A y, t : IsDueAt(n, y, t) <=> IsDueAt(m, y, t) /\ y # x
  BY <1>1, PopFromMap
<1>3. /\ DOMAIN g = DOMAIN h \ {x}
      /\ \A y \in DOMAIN g : g[y] = h[y]
      /\ IsFunctionOn(g, DOMAIN g)
  BY DEF Delete, IsFunctionOn
<1> HIDE DEF n, g
<1>4. GoodHeap(n, g)
  BY <1>1, <1>2, <1>3 DEF GoodHeap
<1>5. GoodTicks(n, g)
  <2> SUFFICES ASSUME NEW y \in DOMAIN g, IsTick(g[y])
               PROVE  /\ IsParent(g, g[y].parent, g[y])
                      /\ \A t, v : IsDueAt(n, y, t) /\ IsDueAt(n, g[y].parent, v)
                                    => t < v
    BY DEF GoodTicks
  <2>1. y \in DOMAIN h /\ g[y] = h[y]
    BY <1>3
  <2>2. /\ IsParent(h, h[y].parent, h[y])
        /\ \A t, v : IsDueAt(m, y, t) /\ IsDueAt(m, h[y].parent, v) => t < v
    BY <1>1, <2>1 DEF GoodTicks
  <2>3. h[y].parent # x
    BY <1>1, <2>1, FrontIsNoParent
  <2>4. IsParent(g, g[y].parent, g[y])
    BY <1>3, <2>1, <2>2, <2>3 DEF IsParent
  <2> QED
    BY <1>2, <2>1, <2>2, <2>4
<1>6. GoodCast(g, ds)
  BY <1>1, <1>3 DEF GoodCast
<1>7. Untouched(m, h, n, g, x)
  BY <1>2, <1>3 DEF Untouched
<1> QED
  BY <1>2, <1>4, <1>5, <1>6, <1>7 DEF Sound, n, g

\* The handler of the event in front queues it again, perhaps as the second run
\* of the same object, and returns zero.
LEMMA MoveEvent ==
  ASSUME NEW m, NEW h, NEW now \in Nat, NEW cs, Sound(m, h, now, cs),
         NEW x, InFront(m, now, x), NEW u \in Nat, now <= u,
         NEW g, IsFunctionOn(g, DOMAIN h), DOMAIN g = DOMAIN h,
         \A y \in DOMAIN h : y # x => g[y] = h[y],
         GoodObject(g[x]),
         IsTick(g[x]) => /\ g[x].parent # x
                         /\ IsParent(h, g[x].parent, g[x])
                         /\ \A v : IsDueAt(m, g[x].parent, v) => u < v,
         NEW ds, \/ ds = x /\ g[x].type = "castPost"
                 \/ ds = cs /\ (cs = x => g[x].type = "castPost")
  PROVE  /\ Sound(PopFront(Enqueue(m, u, x), now), g, now, ds)
         /\ Untouched(m, h, PopFront(Enqueue(m, u, x), now), g, x)
<1> DEFINE n == PopFront(Enqueue(m, u, x), now)
<1>1. GoodMap(m, now) /\ GoodHeap(m, h) /\ GoodTicks(m, h) /\ GoodCast(h, cs)
  BY DEF Sound
<1>2. /\ GoodMap(n, now)
      /\ Queued(n) = Queued(m)
      /\ \A y, t : IsDueAt(n, y, t)
           <=> (IsDueAt(m, y, t) /\ y # x) \/ (y = x /\ t = u)
  BY <1>1, MoveInMap
<1> HIDE DEF n
<1>3. x \in DOMAIN h
  BY <1>1, FrontIsDue DEF GoodHeap
<1>4. GoodHeap(n, g)
  BY <1>1, <1>2 DEF GoodHeap
<1>5. GoodTicks(n, g)
  <2> SUFFICES ASSUME NEW y \in DOMAIN g, IsTick(g[y])
               PROVE  /\ IsParent(g, g[y].parent, g[y])
                      /\ \A t, v : IsDueAt(n, y, t) /\ IsDueAt(n, g[y].parent, v)
                                    => t < v
    BY DEF GoodTicks
  <2>1. CASE y = x
    <3>1. IsParent(g, g[y].parent, g[y])
      BY <2>1 DEF IsParent
    <3> QED
      BY <1>2, <2>1, <3>1
  <2>2. CASE y # x
    <3>1. g[y] = h[y] /\ h[y].parent # x
      BY <1>1, <2>2, FrontIsNoParent
    <3>2. /\ IsParent(h, h[y].parent, h[y])
          /\ \A t, v : IsDueAt(m, y, t) /\ IsDueAt(m, h[y].parent, v) => t < v
      BY <1>1, <3>1 DEF GoodTicks
    <3>3. IsParent(g, g[y].parent, g[y])
      BY <3>1, <3>2 DEF IsParent
    <3> QED
      BY <1>2, <2>2, <3>1, <3>2, <3>3
  <2> QED
    BY <2>1, <2>2
<1>6. GoodCast(g, ds)
  BY <1>1, <1>3 DEF GoodCast
<1>7. Untouched(m, h, n, g, x)
  BY <1>2 DEF Untouched
<1> QED
  BY <1>2, <1>4, <1>5, <1>6, <1>7 DEF Sound, n

-----------------------------------------------------------------------------
(* The ticks of a channel.                                                    *)

LEMMA DivisionFacts ==
  ASSUME NEW a \in Nat, NEW n \in Nat, n > 0
  PROVE  a \div n \in Nat /\ n * (a \div n) <= a /\ a < n * ((a \div n) + 1)
OBVIOUS

LEMMA FactorCancels ==
  ASSUME NEW n \in Nat, NEW p \in Nat, NEW q \in Nat, n * p < n * (q + 1)
  PROVE  p <= q
OBVIOUS

\* The ticks of a channel are at different times, none before it begins and all
\* before it ends.
LEMMA TickDelays ==
  ASSUME NEW s \in Spells, IsChannel(s), NEW c \in CastTimes(s),
         NEW i \in 1..SpellData[s].ticks
  PROVE  /\ TickDelay(s, c, i) \in Nat
         /\ TickDelay(s, c, i) < c
         /\ \A j \in 1..SpellData[s].ticks :
              i < j => TickDelay(s, c, i) < TickDelay(s, c, j)
<1> DEFINE n == SpellData[s].ticks
           d(j) == (c * j) \div n
<1>1. n \in Nat /\ n > 0 /\ c \in Nat /\ c >= n /\ i \in 1..n
  BY SpellAssumption, ChannelAssumption DEF IsChannel, CastTimes
<1> HIDE DEF n
<1>2. \A j \in 1..n : /\ d(j) \in Nat
                      /\ n * d(j) <= c * j
                      /\ c * j < n * (d(j) + 1)
  BY <1>1, DivisionFacts
<1>3. \A j \in 1..n : TickDelay(s, c, j) = d(j) - 1
  BY DEF TickDelay, n
<1> HIDE DEF d
<1>4. d(i) >= 1
  <2>1. n <= c * i /\ c * i \in Nat
    BY <1>1
  <2>2. d(i) = 0 => n * (d(i) + 1) = n
    BY <1>1
  <2> QED
    BY <1>1, <1>2, <2>1, <2>2
<1>5. d(i) <= c
  <2>1. c * i <= c * n /\ c * n < n * (c + 1)
    BY <1>1
  <2>2. n * d(i) < n * (c + 1)
    BY <1>1, <1>2, <2>1
  <2> QED
    BY <1>1, <1>2, <2>2, FactorCancels
<1>6. ASSUME NEW j \in 1..n, i < j
      PROVE  d(i) < d(j)
  <2>1. c * i + n <= c * j
    BY <1>1, <1>6
  <2>2. n * (d(i) + 1) = n * d(i) + n
    BY <1>1, <1>2
  <2>3. n * (d(i) + 1) < n * (d(j) + 1)
    BY <1>1, <1>2, <2>1, <2>2
  <2>4. d(i) + 1 \in Nat
    BY <1>1, <1>2
  <2>5. d(i) + 1 <= d(j)
    BY <1>1, <1>2, <2>3, <2>4, FactorCancels
  <2> QED
    BY <1>1, <1>2, <2>5
<1> QED
  BY <1>1, <1>2, <1>4, <1>5, <1>6, <1>3 DEF n

\* Objects that are created one after the other are different objects.
LEMMA Allocated ==
  ASSUME DOMAIN heap \subseteq Addr, NEW n \in Nat, NEW k \in Allocations(n)
  PROVE  /\ k \in [1..n -> Addr]
         /\ \A i \in 1..n : k[i] \notin DOMAIN heap
         /\ \A i, j \in 1..n : k[i] = k[j] => i = j
<1>1. /\ k \in [1..n -> Addr]
      /\ \A i \in 1..n : k[i] \in Fresh(DOMAIN heap \cup {k[j] : j \in 1..(i - 1)})
  BY DEF Allocations
<1>2. ASSUME NEW i \in 1..n
      PROVE  k[i] \notin DOMAIN heap /\ \A j \in 1..(i - 1) : k[i] # k[j]
  <2> DEFINE used == DOMAIN heap \cup {k[j] : j \in 1..(i - 1)}
  <2>1. used \in SUBSET Addr
    BY <1>1
  <2>2. k[i] \notin used
    BY <1>1, <2>1, AddrAssumption
  <2> QED
    BY <2>2
<1>3. ASSUME NEW i \in 1..n, NEW j \in 1..n, k[i] = k[j]
      PROVE  i = j
  <2>1. ~(i < j) /\ ~(j < i)
    BY <1>2, <1>3
  <2> QED
    BY <2>1
<1> QED
  BY <1>1, <1>2, <1>3

LEMMA AppendFacts ==
  ASSUME NEW S, NEW l \in Seq(S), NEW e \in S
  PROVE  /\ Append(l, e) \in Seq(S) /\ Append(l, e) # << >>
         /\ DOMAIN Append(l, e) = 1..(Len(l) + 1)
         /\ DOMAIN l = 1..Len(l) /\ Len(l) \in Nat
         /\ Append(l, e)[Len(l) + 1] = e
         /\ \A q \in 1..Len(l) : Append(l, e)[q] = l[q]
OBVIOUS

\* The queue with the ticks of a channel in it: each is at the end of the list
\* of its own time, and nothing else has moved.
LEMMA AddTicksToMap ==
  ASSUME gameTime \in Nat, NEW m, GoodMap(m, gameTime),
         NEW s \in Spells, IsChannel(s), NEW c \in CastTimes(s),
         NEW k \in [1..SpellData[s].ticks -> Addr],
         \A i \in 1..SpellData[s].ticks : k[i] \notin Queued(m),
         \A i, j \in 1..SpellData[s].ticks : k[i] = k[j] => i = j
  PROVE  LET n == EnqueueTicks(m, s, c, k)
         IN  /\ GoodMap(n, gameTime)
             /\ Queued(n) = Queued(m) \cup {k[i] : i \in DOMAIN k}
             /\ \A x, t : IsDueAt(n, x, t)
                  <=> \/ IsDueAt(m, x, t)
                      \/ \E i \in DOMAIN k :
                           x = k[i] /\ t = gameTime + TickDelay(s, c, i)
             /\ \A x : InFront(m, gameTime, x) => InFront(n, gameTime, x)
<1> DEFINE T == 1..SpellData[s].ticks
           at == [i \in T |-> gameTime + TickDelay(s, c, i)]
           n == EnqueueTicks(m, s, c, k)
<1>1. \A i \in T : at[i] \in Nat /\ gameTime <= at[i]
  BY TickDelays
<1>2. ASSUME NEW i \in T, NEW j \in T, at[i] = at[j]
      PROVE  i = j
  <2>1. /\ TickDelay(s, c, i) \in Nat /\ TickDelay(s, c, j) \in Nat
        /\ i < j => TickDelay(s, c, i) < TickDelay(s, c, j)
        /\ j < i => TickDelay(s, c, j) < TickDelay(s, c, i)
    BY TickDelays
  <2>2. TickDelay(s, c, i) = TickDelay(s, c, j)
    BY <1>2, <2>1
  <2>3. i \in Int /\ j \in Int /\ ~(i < j) /\ ~(j < i)
    BY <2>1, <2>2
  <2> QED
    BY <2>3
<1>3. /\ DOMAIN k = T
      /\ \A i \in T : k[i] \in Addr /\ at[i] = gameTime + TickDelay(s, c, i)
  OBVIOUS
<1>4. n = [u \in DOMAIN m \cup {at[i] : i \in T} |->
             IF \E i \in T : at[i] = u
               THEN Append(ListAt(m, u), k[CHOOSE i \in T : at[i] = u])
               ELSE m[u]]
  BY <1>3 DEF EnqueueTicks
<1> HIDE DEF at, n, T
<1>5. DOMAIN n = DOMAIN m \cup {at[i] : i \in T}
  BY <1>4
<1>6. ASSUME NEW i \in T
      PROVE  at[i] \in DOMAIN n /\ n[at[i]] = Append(ListAt(m, at[i]), k[i])
  <2>1. (CHOOSE j \in T : at[j] = at[i]) = i
    BY <1>2
  <2> QED
    BY <1>4, <1>5, <2>1
<1>7. ASSUME NEW u \in DOMAIN m, \A i \in T : at[i] # u
      PROVE  u \in DOMAIN n /\ n[u] = m[u]
  BY <1>4, <1>7
<1>8. /\ IsEventMap(m, Addr) /\ NoDuplicates(m)
      /\ \A t \in DOMAIN m : gameTime <= t
      /\ DOMAIN m \subseteq Nat
      /\ \A t \in DOMAIN m : m[t] \in Seq(Addr) /\ m[t] # << >>
  BY DEF GoodMap, IsEventMap
<1>9. \A u : ListAt(m, u) \in Seq(Addr)
  BY <1>8 DEF ListAt
<1>10. \A u : u \notin DOMAIN m => ListAt(m, u) = << >>
  BY DEF ListAt
<1>11. \A u \in DOMAIN m : ListAt(m, u) = m[u]
  BY DEF ListAt
<1>12. ASSUME NEW i \in T
       PROVE  LET l == ListAt(m, at[i])
              IN  /\ n[at[i]] \in Seq(Addr) /\ n[at[i]] # << >>
                  /\ DOMAIN n[at[i]] = 1..(Len(l) + 1)
                  /\ DOMAIN l = 1..Len(l) /\ Len(l) \in Nat
                  /\ n[at[i]][Len(l) + 1] = k[i]
                  /\ \A q \in 1..Len(l) : n[at[i]][q] = l[q]
  <2>1. k[i] \in Addr /\ ListAt(m, at[i]) \in Seq(Addr)
    BY <1>3, <1>9
  <2>2. n[at[i]] = Append(ListAt(m, at[i]), k[i])
    BY <1>6
  <2> HIDE DEF n, at
  <2> QED
    BY <2>1, <2>2, AppendFacts
\* Where the entries of n come from.
<1>13. ASSUME NEW u \in DOMAIN n, NEW q \in DOMAIN n[u]
       PROVE  \/ /\ u \in DOMAIN m /\ q \in DOMAIN m[u]
                 /\ n[u][q] = m[u][q]
              \/ \E i \in T : /\ u = at[i] /\ n[u][q] = k[i]
                              /\ q = Len(ListAt(m, u)) + 1
  <2>1. CASE \E i \in T : at[i] = u
    <3>1. PICK i \in T : at[i] = u
      BY <2>1
    <3>2. CASE q = Len(ListAt(m, u)) + 1
      BY <1>12, <3>1, <3>2
    <3>3. CASE q # Len(ListAt(m, u)) + 1
      <4>1. q \in 1..Len(ListAt(m, u)) /\ n[u][q] = ListAt(m, u)[q]
        BY SMTT(40), <1>12, <3>1, <3>3
      <4>2. u \in DOMAIN m
        BY <1>10, <4>1
      <4> QED
        BY <1>11, <1>12, <3>1, <4>1, <4>2
    <3> QED
      BY <3>2, <3>3
  <2>2. CASE \A i \in T : at[i] # u
    BY <1>5, <1>7, <2>2
  <2> QED
    BY <2>1, <2>2
\* The entries of m are still there.
<1>14. ASSUME NEW u \in DOMAIN m, NEW q \in DOMAIN m[u]
       PROVE  u \in DOMAIN n /\ q \in DOMAIN n[u] /\ n[u][q] = m[u][q]
  <2>1. CASE \E i \in T : at[i] = u
    BY SMTT(40), <1>5, <1>11, <1>12, <2>1
  <2>2. CASE \A i \in T : at[i] # u
    BY <1>7, <2>2
  <2> QED
    BY <2>1, <2>2
<1>15. IsEventMap(n, Addr)
  <2>1. DOMAIN n \subseteq Nat
    BY <1>1, <1>5, <1>8 DEF T, at
  <2>2. \A u \in DOMAIN n : n[u] \in Seq(Addr) /\ n[u] # << >>
    BY <1>5, <1>7, <1>8, <1>12
  <2>3. n = [u \in DOMAIN n |-> n[u]]
    BY <1>4
  <2> QED
    BY <2>1, <2>2, <2>3 DEF IsEventMap
<1>16. \A u \in DOMAIN n : gameTime <= u
  BY <1>1, <1>5, <1>8 DEF T, at
<1>17. \A u \in DOMAIN m : \A q \in DOMAIN m[u] : m[u][q] \in Queued(m)
  BY DEF Queued
<1>18. NoDuplicates(n)
  <2> SUFFICES ASSUME NEW t \in DOMAIN n, NEW u \in DOMAIN n,
                      NEW p \in DOMAIN n[t], NEW q \in DOMAIN n[u],
                      n[t][p] = n[u][q]
               PROVE  t = u /\ p = q
    BY DEF NoDuplicates
  <2>1. \A i \in T : k[i] \notin Queued(m)
    BY DEF T
  <2>2. \A i, j \in T : k[i] = k[j] => i = j
    BY DEF T
  <2> QED
    BY SMTT(40), <1>8, <1>13, <1>17, <2>1, <2>2 DEF NoDuplicates
<1>19. ASSUME NEW x, NEW t
       PROVE  IsDueAt(n, x, t) <=> \/ IsDueAt(m, x, t)
                                   \/ \E i \in T : x = k[i] /\ t = at[i]
  <2>1. IsDueAt(m, x, t) => IsDueAt(n, x, t)
    BY <1>14 DEF IsDueAt
  <2>2. (\E i \in T : x = k[i] /\ t = at[i]) => IsDueAt(n, x, t)
    BY <1>6, <1>12 DEF IsDueAt
  <2>3. ASSUME IsDueAt(n, x, t)
        PROVE  IsDueAt(m, x, t) \/ \E i \in T : x = k[i] /\ t = at[i]
    BY <1>13, <2>3 DEF IsDueAt
  <2> QED
    BY <2>1, <2>2, <2>3
<1>20. \A x, t : IsDueAt(n, x, t)
         <=> \/ IsDueAt(m, x, t)
             \/ \E i \in DOMAIN k : x = k[i] /\ t = gameTime + TickDelay(s, c, i)
  <2>1. ASSUME NEW x, NEW t
        PROVE  (\E i \in T : x = k[i] /\ t = at[i])
                 <=> \E i \in DOMAIN k : x = k[i] /\ t = gameTime + TickDelay(s, c, i)
    BY <1>3
  <2> QED
    BY SMTT(40), <1>19, <2>1
<1>21. Queued(n) = Queued(m) \cup {k[i] : i \in DOMAIN k}
  <2>1. \A x : x \in Queued(m) <=> \E t : IsDueAt(m, x, t)
    BY QueuedIsDue
  <2>2. \A x : x \in Queued(n) <=> \E t : IsDueAt(n, x, t)
    BY QueuedIsDue
  <2>3. ASSUME NEW x
        PROVE  x \in Queued(n) <=> x \in Queued(m) \/ \E i \in T : x = k[i]
    BY ZenonT(60), <1>19, <2>1, <2>2
  <2> QED
    BY <1>3, <2>3
<1>22. ASSUME NEW x, InFront(m, gameTime, x)
       PROVE  InFront(n, gameTime, x)
  <2>1. gameTime \in DOMAIN m /\ m[gameTime] \in Seq(Addr) /\ m[gameTime] # << >>
    BY <1>8, <1>22 DEF InFront
  <2>2. x = m[gameTime][1] /\ 1 \in DOMAIN m[gameTime]
    BY <1>22, <2>1 DEF InFront
  <2>3. gameTime \in DOMAIN n /\ n[gameTime][1] = x
    BY <1>14, <2>1, <2>2
  <2>4. n[gameTime] \in Seq(Addr) /\ n[gameTime] # << >>
    BY <1>15, <2>3 DEF IsEventMap
  <2> QED
    BY <2>3, <2>4 DEF InFront
<1> QED
  BY <1>15, <1>16, <1>18, <1>20, <1>21, <1>22 DEF GoodMap, n

-----------------------------------------------------------------------------
(* The invariant of the simulator.                                            *)

\* The event that each routine of main.toc is called for.
HookType ==
  [PreCastingSpell |-> "castPre", PostCastingSpell |-> "castPost",
   PreSpellChannel |-> "tickPre", PostSpellChannel |-> "tickPost",
   AuraApplication |-> "apply", AuraFade |-> "remove",
   PeriodicEvent |-> "periodic"]

\* While a handler is in its Lua call its event stays in front of the queue, for
\* now: what scripts add meanwhile goes behind it.
HandlerRuns ==
  IF pc \in Hooks THEN /\ InFront(eventMap, gameTime, current)
                       /\ heap[current].type = HookType[pc]
                  ELSE current = Null

AurasOK(am) ==
  /\ IsFunctionOn(am, Creatures)
  /\ \A c \in Creatures :
       /\ IsFunctionOn(am[c], DOMAIN am[c])
       /\ DOMAIN am[c] \subseteq Auras
       /\ \A a \in DOMAIN am[c] : am[c][a] \in AuraObjects

OthersOK ==
  /\ globalCooldown \in Nat
  /\ spellCooldown \in [Spells -> Nat]
  /\ AurasOK(auraMap)
  /\ guidCounter \in Nat
  /\ budget \in 0..Budget

ClockOK == gameTime \in Nat /\ exitable \in BOOLEAN /\ pc \in Control

SoundNow == Sound(eventMap, heap, gameTime, castingSpell)

Inv == ClockOK /\ OthersOK /\ SoundNow /\ HandlerRuns

\* A step leaves the event y as it is and where it is in the queue.
Stays(y) ==
  /\ y \in DOMAIN heap' /\ heap'[y] = heap[y]
  /\ \A t : IsDueAt(eventMap', y, t) <=> IsDueAt(eventMap, y, t)

\* A step changes and deletes no event.
AllStay == \A y \in DOMAIN heap : Stays(y)

\* A step returns from the handler of y.
Finishes(y) == InFront(eventMap, gameTime, y) /\ pc' \notin Hooks

\* A step changes or deletes no event but the one it finishes.
Undisturbed == \A y \in DOMAIN heap : Finishes(y) \/ Stays(y)

LEMMA AllStayUndisturbed == AllStay => Undisturbed
BY DEF AllStay, Undisturbed

-----------------------------------------------------------------------------
\* The invariant says what the runs check.
LEMMA InvGivesTypeOK == Inv => TypeOK
<1> SUFFICES ASSUME Inv PROVE TypeOK
  OBVIOUS
<1>1. /\ GoodMap(eventMap, gameTime) /\ GoodHeap(eventMap, heap)
      /\ GoodCast(heap, castingSpell)
  BY DEF Inv, SoundNow, Sound
<1>2. IsEventMap(eventMap, Addr)
  BY <1>1 DEF GoodMap
<1>3. /\ IsFunctionOn(heap, DOMAIN heap)
      /\ \A x \in DOMAIN heap : heap[x] \in EventObjects
  BY <1>1 DEF GoodHeap, GoodObject
<1>4. DOMAIN heap \subseteq Addr
  BY <1>1, QueuedIsDue, DueTimes DEF GoodHeap
<1>5. castingSpell \in Addr \cup {Null}
  BY <1>1, <1>4 DEF GoodCast
<1>6. current \in IF pc \in Hooks THEN Addr ELSE {Null}
  BY <1>1, FrontIsDue DEF Inv, HandlerRuns
<1> QED
  BY <1>2, <1>3, <1>4, <1>5, <1>6 DEF Inv, TypeOK, ClockOK, OthersOK, AurasOK

LEMMA InvGivesPointersLive == Inv => PointersLive
<1> SUFFICES ASSUME Inv PROVE PointersLive
  OBVIOUS
<1>1. /\ GoodMap(eventMap, gameTime) /\ GoodHeap(eventMap, heap)
      /\ GoodTicks(eventMap, heap) /\ GoodCast(heap, castingSpell)
  BY DEF Inv, SoundNow, Sound
<1>2. HeapIsQueue
  BY <1>1 DEF HeapIsQueue, GoodMap, GoodHeap
<1>3. CastingSpellLives
  BY <1>1 DEF CastingSpellLives, GoodCast, GoodMap
<1>4. TickParentLives
  BY <1>1 DEF TickParentLives, GoodTicks, IsTick, IsParent
<1> QED
  BY <1>2, <1>3, <1>4 DEF PointersLive

\* The simulator starts with nothing queued and nothing allocated.
LEMMA InvInit == Init => Inv
<1> SUFFICES ASSUME Init PROVE Inv
  OBVIOUS
<1>1. ClockOK
  BY DEF Init, ClockOK, Control, Scripts
<1>2. OthersOK
  BY ScriptAssumption DEF Init, OthersOK, AurasOK, IsFunctionOn
<1>3. IsEventMap(EmptyMap, Addr) /\ DOMAIN EmptyMap = {}
  BY EmptyMapType DEF EmptyMap
<1>4. GoodMap(eventMap, gameTime)
  BY <1>3 DEF Init, GoodMap, NoDuplicates
<1>5. DOMAIN heap = {} /\ IsFunctionOn(heap, DOMAIN heap)
  BY DEF Init, IsFunctionOn
<1>6. Queued(eventMap) = {}
  BY <1>3 DEF Init, Queued
<1>7. SoundNow
  BY <1>4, <1>5, <1>6 DEF Init, SoundNow, Sound, GoodHeap, GoodTicks, GoodCast
<1> QED
  BY <1>1, <1>2, <1>7 DEF Init, Inv, HandlerRuns, Hooks

-----------------------------------------------------------------------------
(* What the parts of a step have in common.                                   *)

\* The event that ProcessEvent takes is in front of the list of this instant.
LEMMA NextIsInFront ==
  ASSUME Inv, NEW x, IsNext(x)
  PROVE  /\ InFront(eventMap, gameTime, x)
         /\ x \in DOMAIN heap /\ x \in Addr /\ x # Null
         /\ GoodObject(heap[x]) /\ gameTime \in Nat
<1>1. GoodMap(eventMap, gameTime) /\ GoodHeap(eventMap, heap) /\ gameTime \in Nat
  BY DEF Inv, SoundNow, Sound, ClockOK
<1>2. PICK t \in DOMAIN eventMap : t <= gameTime /\ x = Head(eventMap[t])
  BY DEF IsNext
<1>3. t = gameTime
  BY <1>1, <1>2 DEF GoodMap, IsEventMap
<1>4. InFront(eventMap, gameTime, x)
  BY <1>2, <1>3 DEF InFront
<1>5. x \in DOMAIN heap /\ x \in Addr
  BY <1>1, <1>4, FrontIsDue DEF GoodHeap
<1> QED
  BY <1>1, <1>4, <1>5, AddrAssumption DEF GoodHeap

\* So is the event whose handler is in a Lua call.
LEMMA CurrentIsInFront ==
  ASSUME Inv, pc \in Hooks
  PROVE  /\ InFront(eventMap, gameTime, current)
         /\ current \in DOMAIN heap /\ current \in Addr /\ current # Null
         /\ GoodObject(heap[current]) /\ gameTime \in Nat
         /\ heap[current].type = HookType[pc]
<1>1. /\ GoodMap(eventMap, gameTime) /\ GoodHeap(eventMap, heap)
      /\ gameTime \in Nat
  BY DEF Inv, SoundNow, Sound, ClockOK
<1>2. InFront(eventMap, gameTime, current) /\ heap[current].type = HookType[pc]
  BY DEF Inv, HandlerRuns
<1>3. current \in DOMAIN heap /\ current \in Addr
  BY <1>1, <1>2, FrontIsDue DEF GoodHeap
<1> QED
  BY <1>1, <1>2, <1>3, AddrAssumption DEF GoodHeap

\* ProcessEvent pops the entry of this instant.
LEMMA ReturnPops ==
  ASSUME gameTime \in Nat, exitable \in BOOLEAN,
         NEW m, DOMAIN m \subseteq Nat, \A t \in DOMAIN m : gameTime <= t,
         gameTime \in DOMAIN m, Return(m)
  PROVE  /\ eventMap' = PopFront(m, gameTime)
         /\ gameTime' = gameTime
         /\ ClockOK'
         /\ pc' \in {"batch", "idle", "loop"}
         /\ current' = Null
<1>1. PICK t \in DOMAIN m : IsFirst(m, t) /\ eventMap' = PopFront(m, t)
  BY DEF Return
<1>2. t = gameTime
  BY <1>1 DEF IsFirst
<1> QED
  BY <1>1, <1>2 DEF Return, AfterProcessEvent, ClockOK, Control, Scripts

\* The handler leaves the queue m and the objects h, and returns nonzero for the
\* event in front.
LEMMA DeleteFrom ==
  ASSUME ClockOK, NEW m, NEW h, Sound(m, h, gameTime, castingSpell),
         NEW x, InFront(m, gameTime, x),
         Return(m), heap' = Delete(h, x), OthersOK',
         castingSpell' \in {castingSpell, Null}, castingSpell' # x,
         InFront(eventMap, gameTime, x), Untouched(eventMap, heap, m, h, x)
  PROVE  Inv' /\ Undisturbed
<1>1. GoodMap(m, gameTime) /\ gameTime \in Nat /\ exitable \in BOOLEAN
  BY DEF Sound, ClockOK
<1>2. /\ eventMap' = PopFront(m, gameTime) /\ gameTime' = gameTime
      /\ ClockOK' /\ pc' \in {"batch", "idle", "loop"} /\ current' = Null
  BY <1>1, ReturnPops DEF InFront, GoodMap, IsEventMap
<1>3. SoundNow'
  BY <1>1, <1>2, RemoveEvent DEF SoundNow
<1>4. HandlerRuns'
  BY <1>2 DEF HandlerRuns, Hooks
<1>5. Untouched(m, h, eventMap', heap', x)
  BY <1>1, <1>2, RemoveEvent
<1>6. Untouched(eventMap, heap, eventMap', heap', x)
  BY <1>5, UntouchedTwice
<1>7. pc' \notin Hooks
  BY <1>2 DEF Hooks
<1>8. Undisturbed
  BY <1>6, <1>7 DEF Undisturbed, Finishes, Stays, Untouched
<1> QED
  BY <1>2, <1>3, <1>4, <1>8 DEF Inv

\* The handler has queued nothing and returns nonzero.
LEMMA DeleteStep ==
  ASSUME Inv, NEW x, InFront(eventMap, gameTime, x),
         ReturnAndDelete(x, eventMap), OthersOK',
         castingSpell' \in {castingSpell, Null}, castingSpell' # x
  PROVE  Inv' /\ Undisturbed
<1>1. Untouched(eventMap, heap, eventMap, heap, x)
  BY DEF Untouched
<1> QED
  BY <1>1, DeleteFrom DEF Inv, SoundNow, ReturnAndDelete

\* The handler of the event in front has queued it again and returns zero.
LEMMA MoveStep ==
  ASSUME Inv, NEW x, InFront(eventMap, gameTime, x),
         NEW u \in Nat, gameTime <= u, Return(Enqueue(eventMap, u, x)),
         IsFunctionOn(heap', DOMAIN heap), DOMAIN heap' = DOMAIN heap,
         \A y \in DOMAIN heap : y # x => heap'[y] = heap[y],
         GoodObject(heap'[x]),
         IsTick(heap'[x]) =>
           /\ heap'[x].parent # x
           /\ IsParent(heap, heap'[x].parent, heap'[x])
           /\ \A v : IsDueAt(eventMap, heap'[x].parent, v) => u < v,
         \/ castingSpell' = x /\ heap'[x].type = "castPost"
         \/ /\ castingSpell' = castingSpell
            /\ castingSpell = x => heap'[x].type = "castPost",
         OthersOK'
  PROVE  Inv' /\ Undisturbed
<1> DEFINE m == Enqueue(eventMap, u, x)
<1>1. /\ SoundNow /\ GoodMap(eventMap, gameTime)
      /\ gameTime \in Nat /\ exitable \in BOOLEAN
  BY DEF Inv, SoundNow, Sound, ClockOK
<1>2. /\ DOMAIN eventMap \subseteq Nat /\ \A t \in DOMAIN eventMap : gameTime <= t
      /\ gameTime \in DOMAIN eventMap
  BY <1>1 DEF GoodMap, IsEventMap, InFront
<1>3. DOMAIN m = DOMAIN eventMap \cup {u}
  BY DEF Enqueue
<1>4. /\ DOMAIN m \subseteq Nat /\ \A t \in DOMAIN m : gameTime <= t
      /\ gameTime \in DOMAIN m
  BY <1>2, <1>3
<1>5. /\ eventMap' = PopFront(m, gameTime) /\ gameTime' = gameTime
      /\ ClockOK' /\ pc' \in {"batch", "idle", "loop"} /\ current' = Null
  BY <1>1, <1>4, ReturnPops
<1>6. SoundNow'
  BY <1>1, <1>5, MoveEvent DEF SoundNow
<1>7. HandlerRuns' /\ pc' \notin Hooks
  BY <1>5 DEF HandlerRuns, Hooks
<1>8. Untouched(eventMap, heap, eventMap', heap', x)
  BY <1>1, <1>5, MoveEvent DEF SoundNow
<1>9. Undisturbed
  BY <1>7, <1>8 DEF Undisturbed, Finishes, Stays, Untouched
<1> QED
  BY <1>5, <1>6, <1>7, <1>9 DEF Inv

\* The object has not changed, and it is no cast event and no tick of a channel.
LEMMA KeepStep ==
  ASSUME Inv, NEW x, InFront(eventMap, gameTime, x),
         heap[x].type \in {"remove", "periodic"},
         NEW u \in Nat, gameTime <= u, ReturnAndKeep(Enqueue(eventMap, u, x)),
         castingSpell' = castingSpell, OthersOK'
  PROVE  Inv' /\ Undisturbed
<1>1. /\ GoodMap(eventMap, gameTime) /\ GoodHeap(eventMap, heap)
      /\ GoodCast(heap, castingSpell)
  BY DEF Inv, SoundNow, Sound
<1>2. x \in DOMAIN heap /\ GoodObject(heap[x])
  BY <1>1, FrontIsDue DEF GoodHeap
<1>3. castingSpell # x
  BY <1>1, AddrAssumption, FrontIsDue DEF GoodCast
<1>4. heap' = heap /\ Return(Enqueue(eventMap, u, x))
  BY DEF ReturnAndKeep
<1>5. IsFunctionOn(heap, DOMAIN heap)
  BY <1>1 DEF GoodHeap
<1>6. ~IsTick(heap[x])
  BY DEF IsTick
<1> QED
  BY <1>2, <1>3, <1>4, <1>5, <1>6, MoveStep

\* The handler of the event in front has reached its Lua call.
LEMMA HookStep ==
  ASSUME Inv, NEW x, NEW hook \in Hooks, CallHook(x, hook),
         InFront(eventMap', gameTime, x), heap'[x].type = HookType[hook],
         gameTime' = gameTime, exitable' = exitable, SoundNow', OthersOK',
         AllStay
  PROVE  Inv' /\ AllStay
BY DEF Inv, ClockOK, HandlerRuns, CallHook, Control, Scripts

\* A script has added an event, or changed something else, while its routine
\* goes on.
LEMMA ScriptStep ==
  ASSUME Inv, SoundNow', OthersOK', UNCHANGED <<gameTime, pc, current>>,
         exitable' \in BOOLEAN,
         \A x : InFront(eventMap, gameTime, x) =>
           InFront(eventMap', gameTime, x) /\ heap'[x] = heap[x],
         AllStay
  PROVE  Inv' /\ AllStay
BY DEF Inv, ClockOK, HandlerRuns

\* The queue and the objects are not touched, nor is m_CastingSpell.
LEMMA SoundStays ==
  ASSUME Inv, UNCHANGED <<eventMap, heap, gameTime, castingSpell>>
  PROVE  SoundNow' /\ AllStay
BY DEF AllStay, Inv, SoundNow, Stays

LEMMA OthersStay ==
  ASSUME Inv, UNCHANGED <<globalCooldown, spellCooldown, auraMap, guidCounter, budget>>
  PROVE  OthersOK'
BY DEF Inv, OthersOK

LEMMA NullIsNoEvent == Inv => Null \notin DOMAIN heap
BY AddrAssumption, QueuedIsDue, DueTimes DEF Inv, SoundNow, Sound, GoodHeap

\* new, and AddEvent, for an object that is no tick.
LEMMA AddStep ==
  ASSUME Inv, NEW y \in Fresh(DOMAIN heap), NEW u \in Nat, gameTime <= u,
         NEW obj, GoodObject(obj), ~IsTick(obj),
         eventMap' = Enqueue(eventMap, u, y), heap' = New(heap, y, obj),
         gameTime' = gameTime, castingSpell' = castingSpell
  PROVE  /\ SoundNow'
         /\ \A x : InFront(eventMap, gameTime, x) =>
              InFront(eventMap', gameTime, x) /\ heap'[x] = heap[x]
         /\ AllStay
<1> DEFINE n == Enqueue(eventMap, u, y)
           g == New(heap, y, obj)
<1>1. Sound(eventMap, heap, gameTime, castingSpell) /\ gameTime \in Nat
  BY DEF Inv, SoundNow, ClockOK
<1>2. Sound(n, g, gameTime, castingSpell)
  BY <1>1, AddEvent
<1>3. \A x \in DOMAIN heap : g[x] = heap[x]
  <2>1. y \notin DOMAIN heap
    BY <1>1, FreshIsNew DEF Sound
  <2> QED
    BY <2>1 DEF New
<1>4. \A x : InFront(eventMap, gameTime, x) =>
        InFront(n, gameTime, x) /\ x \in DOMAIN heap
  BY <1>1, AddEvent
<1>5. AllStay
  <2>1. Untouched(eventMap, heap, n, g, Null)
    BY <1>1, AddEvent
  <2> QED
    BY <2>1, NullIsNoEvent DEF AllStay, Untouched, Stays
<1> QED
  BY <1>2, <1>3, <1>4, <1>5 DEF SoundNow

-----------------------------------------------------------------------------
(* The kinds of event objects.                                                *)

LEMMA KindsOfObjects ==
  ASSUME NEW obj \in EventObjects
  PROVE  /\ obj.type \in {"castPre", "castPost"} => obj \in CastEvents
         /\ IsTick(obj) => obj \in TickEvents
         /\ obj.type = "apply" => obj \in ApplyEvents
         /\ obj.type = "remove" => obj \in RemoveEvents
         /\ obj.type = "periodic" => obj \in PeriodicEvents
BY DEF EventObjects, CastEvents, TickEvents, ApplyEvents, RemoveEvents,
       PeriodicEvents, IsTick

\* The auras of one creature change.
LEMMA ReplaceAuras ==
  ASSUME NEW am, AurasOK(am), NEW c \in Creatures, NEW f,
         IsFunctionOn(f, DOMAIN f), DOMAIN f \subseteq Auras,
         \A a \in DOMAIN f : f[a] \in AuraObjects
  PROVE  AurasOK([am EXCEPT ![c] = f])
<1> DEFINE n == [am EXCEPT ![c] = f]
<1>1. /\ am = [d \in Creatures |-> am[d]]
      /\ \A d \in Creatures : /\ IsFunctionOn(am[d], DOMAIN am[d])
                              /\ DOMAIN am[d] \subseteq Auras
                              /\ \A a \in DOMAIN am[d] : am[d][a] \in AuraObjects
  BY DEF AurasOK, IsFunctionOn
<1>2. DOMAIN am = Creatures
  BY <1>1
<1>3. /\ n = [d \in Creatures |-> n[d]]
      /\ n[c] = f
      /\ \A d \in Creatures : d # c => n[d] = am[d]
  BY <1>2
<1> HIDE DEF n
<1>4. ASSUME NEW d \in Creatures
      PROVE  /\ IsFunctionOn(n[d], DOMAIN n[d])
             /\ DOMAIN n[d] \subseteq Auras
             /\ \A a \in DOMAIN n[d] : n[d][a] \in AuraObjects
  BY <1>1, <1>3
<1>5. AurasOK(n)
  BY <1>3, <1>4 DEF AurasOK, IsFunctionOn
<1> QED
  BY <1>5 DEF n

\* One aura changes.
LEMMA ReplaceAura ==
  ASSUME NEW am, AurasOK(am), NEW c \in Creatures, NEW a \in DOMAIN am[c],
         NEW v \in AuraObjects
  PROVE  AurasOK([am EXCEPT ![c][a] = v])
<1> DEFINE f == [am[c] EXCEPT ![a] = v]
<1>1. /\ IsFunctionOn(am[c], DOMAIN am[c]) /\ DOMAIN am[c] \subseteq Auras
      /\ \A b \in DOMAIN am[c] : am[c][b] \in AuraObjects
  BY DEF AurasOK
<1>2. /\ DOMAIN f = DOMAIN am[c] /\ IsFunctionOn(f, DOMAIN f)
      /\ \A b \in DOMAIN f : f[b] \in AuraObjects
  BY <1>1 DEF IsFunctionOn
<1>3. [am EXCEPT ![c][a] = v] = [am EXCEPT ![c] = f]
  OBVIOUS
<1> HIDE DEF f
<1> QED
  BY <1>1, <1>2, <1>3, ReplaceAuras

-----------------------------------------------------------------------------
(* Spell events.                                                              *)

\* The aura of a spell is queued behind the event that is running.
LEMMA QueueAuraKeeps ==
  ASSUME Inv, NEW x \in DOMAIN heap, heap[x] \in CastEvents \cup TickEvents,
         QueueSpellAura(x), gameTime' = gameTime,
         castingSpell' = castingSpell,
         UNCHANGED <<globalCooldown, spellCooldown, guidCounter, budget>>
  PROVE  /\ SoundNow' /\ OthersOK'
         /\ \A z : InFront(eventMap, gameTime, z) =>
              InFront(eventMap', gameTime, z) /\ heap'[z] = heap[z]
         /\ AllStay
<1> DEFINE s == heap[x].spell
           a == SpellData[s].aura
<1>1. s \in Spells /\ heap[x].target \in Creatures
  BY DEF CastEvents, TickEvents
<1>2. a \in Auras \cup {Null} /\ SpellData[s].fade \in Nat
      /\ HastedTimes(SpellData[s].fade) \subseteq Nat
  BY <1>1, SpellAssumption, FadeAssumption
<1>3. CASE a = Null
  <2>1. UNCHANGED <<eventMap, heap, auraMap>>
    BY <1>3 DEF QueueSpellAura
  <2> QED
    BY <2>1, SoundStays, OthersStay
<1>4. CASE a # Null
  <2> DEFINE app == Application(x)
  <2>1. GoodObject(app) /\ ~IsTick(app)
    BY <1>1, <1>2, <1>4 DEF GoodObject, Application, EventObjects, ApplyEvents, IsTick
  <2>2. /\ gameTime \in Nat /\ gameTime <= gameTime
        /\ Sound(eventMap, heap, gameTime, castingSpell)
    BY SMTT(40) DEF Inv, ClockOK, SoundNow
  <2> HIDE DEF app
  <2>3. PICK f \in ForcedRemovals(x) :
          IF f = << >>
            THEN \E y \in Fresh(DOMAIN heap) :
                   /\ eventMap' = Enqueue(eventMap, gameTime, y)
                   /\ heap' = New(heap, y, app)
                   /\ UNCHANGED auraMap
            ELSE \E z \in Fresh(DOMAIN heap) :
                 \E y \in Fresh(DOMAIN heap \cup {z}) :
                   /\ eventMap' = Enqueue(Enqueue(eventMap, gameTime, z),
                                          gameTime, y)
                   /\ heap' = New(New(heap, z, f[1]), y, app)
                   /\ auraMap' = [auraMap EXCEPT ![Player][a].fadeTime = 1]
    BY <1>4 DEF QueueSpellAura, app
  <2>4. CASE f = << >>
    <3>1. PICK y \in Fresh(DOMAIN heap) :
                   /\ eventMap' = Enqueue(eventMap, gameTime, y)
                   /\ heap' = New(heap, y, app)
                   /\ UNCHANGED auraMap
      BY <2>3, <2>4
    <3> QED
      BY <2>1, <2>2, <3>1, AddStep, OthersStay
  <2>5. CASE f # << >>
    <3>1. PICK z \in Fresh(DOMAIN heap) :
                 \E y \in Fresh(DOMAIN heap \cup {z}) :
                   /\ eventMap' = Enqueue(Enqueue(eventMap, gameTime, z),
                                          gameTime, y)
                   /\ heap' = New(New(heap, z, f[1]), y, app)
                   /\ auraMap' = [auraMap EXCEPT ![Player][a].fadeTime = 1]
      BY <2>3, <2>5
    <3>2. PICK y \in Fresh(DOMAIN heap \cup {z}) :
                   /\ eventMap' = Enqueue(Enqueue(eventMap, gameTime, z),
                                          gameTime, y)
                   /\ heap' = New(New(heap, z, f[1]), y, app)
                   /\ auraMap' = [auraMap EXCEPT ![Player][a].fadeTime = 1]
      BY <3>1
    <3>3. /\ a \in DOMAIN auraMap[Player]
          /\ \E g \in 0..guidCounter :
               f = <<[type |-> "remove", aura |-> a, target |-> heap[x].target,
                      guid |-> g]>>
      BY <2>5 DEF ForcedRemovals, HasAura
    <3>4. GoodObject(f[1]) /\ ~IsTick(f[1])
      BY <1>1, <1>2, <1>4, <3>3 DEF GoodObject, EventObjects, RemoveEvents, IsTick, Inv, OthersOK
    <3> DEFINE m == Enqueue(eventMap, gameTime, z)
               h == New(heap, z, f[1])
    <3>5. /\ y \in Fresh(DOMAIN h)
          /\ z \notin DOMAIN heap /\ \A w \in DOMAIN heap : w \in DOMAIN h
      <4>1. y \in Fresh(DOMAIN h)
        BY DEF New
      <4>2. z \notin DOMAIN heap
        BY <2>2, FreshIsNew DEF Sound
      <4> QED
        BY <4>1, <4>2 DEF New
    <3>6. /\ Sound(m, h, gameTime, castingSpell)
          /\ \A w : InFront(eventMap, gameTime, w) =>
               InFront(m, gameTime, w) /\ w \in DOMAIN heap
      <4>1. Sound(m, h, gameTime, castingSpell)
        BY <2>2, <3>4, AddEvent
      <4>2. \A w : InFront(eventMap, gameTime, w) =>
               InFront(m, gameTime, w) /\ w \in DOMAIN heap
        BY <2>2, <3>4, AddEvent
      <4> QED
        BY <4>1, <4>2
    <3>7. \A w \in DOMAIN heap : h[w] = heap[w]
      BY <3>5 DEF New
    <3>8. Untouched(eventMap, heap, m, h, Null)
      BY ZenonT(60), <2>2, <3>4, AddEvent
    <3> HIDE DEF m, h
    <3>9. /\ Sound(Enqueue(m, gameTime, y), New(h, y, app), gameTime, castingSpell)
          /\ \A w : InFront(m, gameTime, w) => InFront(Enqueue(m, gameTime, y), gameTime, w)
      <4>1. Sound(Enqueue(m, gameTime, y), New(h, y, app), gameTime, castingSpell)
        BY <2>1, <2>2, <3>5, <3>6, AddEvent
      <4>2. \A w : InFront(m, gameTime, w) => InFront(Enqueue(m, gameTime, y), gameTime, w)
        BY <2>1, <2>2, <3>5, <3>6, AddEvent
      <4> QED
        BY <4>1, <4>2
    <3>10. \A w \in DOMAIN h : New(h, y, app)[w] = h[w]
      <4>1. y \notin DOMAIN h
        BY <3>5, <3>6, FreshIsNew DEF Sound
      <4> QED
        BY <4>1 DEF New
    <3>11. eventMap' = Enqueue(m, gameTime, y) /\ heap' = New(h, y, app)
      BY <3>2 DEF m, h
    <3>12. SoundNow'
      BY <3>9, <3>11 DEF SoundNow
    <3>13. AurasOK(auraMap')
      <4> DEFINE v == [auraMap[Player][a] EXCEPT !.fadeTime = 1]
      <4>1. AurasOK(auraMap) /\ Player \in Creatures
        BY PlayerAssumption DEF Inv, OthersOK
      <4>2. auraMap[Player][a] \in AuraObjects
        BY <3>3, <4>1 DEF AurasOK
      <4>3. v \in AuraObjects
        BY <4>2 DEF AuraObjects
      <4>4. auraMap' = [auraMap EXCEPT ![Player][a] = v]
        BY <3>2
      <4> HIDE DEF v
      <4> QED
        BY <3>3, <4>1, <4>3, <4>4, ReplaceAura
    <3>14. OthersOK'
      BY <3>13 DEF Inv, OthersOK
    <3>15. Untouched(m, h, eventMap', heap', Null)
      <4>1. Untouched(m, h, Enqueue(m, gameTime, y), New(h, y, app), Null)
        BY <2>1, <2>2, <3>5, <3>6, AddEvent
      <4> QED
        BY <3>11, <4>1
    <3>16. AllStay
      BY <3>8, <3>15, UntouchedTwice, NullIsNoEvent DEF AllStay, Untouched, Stays
    <3> QED
      BY SMTT(40), <3>5, <3>6, <3>7, <3>9, <3>10, <3>11, <3>12, <3>14, <3>16
  <2> QED
    BY <2>4, <2>5
<1> QED
  BY <1>3, <1>4

\* A cast or a tick that comes to nothing: its object is deleted.
LEMMA RejectCastKeepsInv ==
  ASSUME Inv, NEW x \in DOMAIN heap,
         RejectCast(x) \/ AbandonCast(x) \/ SkipTick(x) \/ MissTick(x)
  PROVE  Inv' /\ Undisturbed
<1>1. IsNext(x) /\ ReturnAndDelete(x, eventMap) /\ UNCHANGED <<player, auras, budget>>
  BY DEF RejectCast, AbandonCast, SkipTick, MissTick
<1>2. InFront(eventMap, gameTime, x) /\ x # Null
  BY <1>1, NextIsInFront
<1>3. OthersOK'
  BY <1>1, OthersStay DEF player, auras
<1>4. castingSpell # x
  <2>1. castingSpell # Null => heap[castingSpell].type = "castPost"
    BY DEF Inv, SoundNow, Sound, GoodCast
  <2> QED
    BY <1>2, <2>1 DEF RejectCast, AbandonCast, SkipTick, MissTick
<1>5. castingSpell' = castingSpell
  BY <1>1 DEF player
<1> QED
  BY <1>1, <1>2, <1>3, <1>4, <1>5, DeleteStep

LEMMA MissCastKeepsInv ==
  ASSUME Inv, NEW x \in DOMAIN heap, MissCast(x)
  PROVE  Inv' /\ Undisturbed
<1>1. /\ IsNext(x) /\ heap[x].type = "castPost"
      /\ ReturnAndDelete(x, eventMap) /\ castingSpell' = Null
      /\ globalCooldown' = heap[x].gcdRecovery
      /\ UNCHANGED <<spellCooldown, auras, budget>>
  BY DEF MissCast
<1>2. InFront(eventMap, gameTime, x) /\ x # Null /\ heap[x] \in EventObjects
  BY <1>1, NextIsInFront DEF GoodObject
<1>3. heap[x] \in CastEvents
  BY <1>1, <1>2, KindsOfObjects
<1>4. globalCooldown' \in Nat
  BY <1>1, <1>3 DEF CastEvents
<1>5. OthersOK'
  BY <1>1, <1>4 DEF OthersOK, Inv, auras
<1> QED
  BY <1>1, <1>2, <1>5, DeleteStep

\* A handler whose event fits has reached its Lua call and changed nothing yet.
LEMMA BeginKeepsInv ==
  ASSUME Inv, NEW x \in DOMAIN heap,
         \/ BeginCast(x) \/ BeginTick(x)
         \/ BeginApplication(x) \/ BeginFade(x) \/ BeginPeriodic(x)
  PROVE  Inv' /\ AllStay
<1>1. /\ IsNext(x)
      /\ UNCHANGED <<eventSystem, heap, player, auras, budget>>
      /\ \E hook \in Hooks : CallHook(x, hook) /\ heap[x].type = HookType[hook]
  BY DEF BeginCast, BeginTick, BeginApplication, BeginFade, BeginPeriodic,
         Hooks, HookType
<1>2. InFront(eventMap, gameTime, x)
  BY <1>1, NextIsInFront
<1>3. SoundNow' /\ OthersOK' /\ AllStay
  BY <1>1, SoundStays, OthersStay DEF eventSystem, player, auras
<1> QED
  BY <1>1, <1>2, <1>3, HookStep DEF eventSystem

\* A cast or a tick that hits: the aura of the spell is queued, and the routine
\* is called.
LEMMA HitKeepsInv ==
  ASSUME Inv, NEW x \in DOMAIN heap, HitCast(x) \/ HitTick(x)
  PROVE  Inv' /\ AllStay
<1>1. /\ IsNext(x) /\ heap[x].type \in {"castPost", "tickPost"}
      /\ QueueSpellAura(x)
      /\ UNCHANGED <<gameTime, exitable, player, guidCounter, budget>>
      /\ \E hook \in Hooks : CallHook(x, hook) /\ heap[x].type = HookType[hook]
  BY DEF HitCast, HitTick, Hooks, HookType
<1>2. InFront(eventMap, gameTime, x) /\ heap[x] \in EventObjects
  BY <1>1, NextIsInFront DEF GoodObject
<1>3. heap[x] \in CastEvents \cup TickEvents
  BY <1>1, <1>2, KindsOfObjects DEF IsTick
<1>4. /\ SoundNow' /\ OthersOK'
      /\ InFront(eventMap', gameTime, x) /\ heap'[x] = heap[x]
      /\ AllStay
  BY <1>1, <1>2, <1>3, QueueAuraKeeps DEF player
<1> QED
  BY <1>1, <1>4, HookStep

LEMMA FinishPostCastingKeepsInv ==
  ASSUME Inv, FinishPostCasting
  PROVE  Inv' /\ Undisturbed
<1>1. /\ pc = "PostCastingSpell" /\ castingSpell' = Null
      /\ globalCooldown' = heap[current].gcdRecovery
      /\ UNCHANGED <<auras, budget>>
      /\ ReturnAndDelete(current, eventMap)
  BY DEF FinishPostCasting
<1>2. /\ InFront(eventMap, gameTime, current) /\ current # Null
      /\ heap[current] \in EventObjects /\ heap[current].type = "castPost"
      /\ gameTime \in Nat
  BY <1>1, CurrentIsInFront DEF GoodObject, Hooks, HookType
<1>3. heap[current] \in CastEvents
  BY <1>2, KindsOfObjects
<1>4. globalCooldown' \in Nat /\ heap[current].spell \in Spells
  BY <1>1, <1>3 DEF CastEvents
<1>5. spellCooldown' \in [Spells -> Nat]
  <2>1. SpellData[heap[current].spell].cooldown \in Nat
    BY <1>4, SpellAssumption
  <2> QED
    BY <1>2, <1>4, <2>1 DEF FinishPostCasting, Inv, OthersOK
<1>6. OthersOK'
  BY <1>1, <1>4, <1>5 DEF OthersOK, Inv, auras
<1> QED
  BY <1>1, <1>2, <1>6, DeleteStep

\* The second run of a tick is queued for the time it is; its parent is due later.
LEMMA FinishPreChannelKeepsInv ==
  ASSUME Inv, FinishPreChannel
  PROVE  Inv' /\ Undisturbed
<1> DEFINE x == current
           h == [heap EXCEPT ![current].type = "tickPost"]
<1>1. /\ pc = "PreSpellChannel" /\ UNCHANGED <<player, auras, budget>>
      /\ Return(Enqueue(eventMap, gameTime, x)) /\ heap' = h
  BY DEF FinishPreChannel
<1>2. /\ InFront(eventMap, gameTime, x) /\ x \in DOMAIN heap /\ x # Null
      /\ heap[x] \in EventObjects /\ heap[x].type = "tickPre"
      /\ gameTime \in Nat /\ gameTime <= gameTime
  BY <1>1, CurrentIsInFront DEF GoodObject, Hooks, HookType
<1>3. heap[x] \in TickEvents /\ IsTick(heap[x])
  BY <1>2, KindsOfObjects DEF IsTick
<1>4. /\ GoodMap(eventMap, gameTime) /\ GoodHeap(eventMap, heap)
      /\ GoodTicks(eventMap, heap) /\ GoodCast(heap, castingSpell)
  BY DEF Inv, SoundNow, Sound
<1>5. IsFunctionOn(heap, DOMAIN heap)
  BY <1>4 DEF GoodHeap
<1>6. /\ DOMAIN h = DOMAIN heap /\ IsFunctionOn(h, DOMAIN heap)
      /\ \A y \in DOMAIN heap : y # x => h[y] = heap[y]
      /\ h[x] = [heap[x] EXCEPT !.type = "tickPost"]
  BY <1>2 DEF IsFunctionOn
<1> HIDE DEF h
<1>7. /\ h[x] \in TickEvents /\ h[x].type = "tickPost"
      /\ h[x].spell = heap[x].spell /\ h[x].parent = heap[x].parent
  BY <1>3, <1>6 DEF TickEvents
<1>8. GoodObject(h[x])
  BY <1>7 DEF GoodObject, EventObjects
<1>9. h[x].parent # x
  BY <1>2, <1>3, <1>4, <1>7, FrontIsNoParent
<1>10. IsParent(heap, h[x].parent, h[x])
  BY <1>2, <1>3, <1>4, <1>7 DEF GoodTicks, IsParent
<1>11. \A v : IsDueAt(eventMap, h[x].parent, v) => gameTime < v
  BY <1>2, <1>3, <1>4, <1>7, FrontIsDue DEF GoodTicks
<1>12. castingSpell' = castingSpell /\ castingSpell # x
  BY <1>1, <1>2, <1>4 DEF player, GoodCast
<1>13. OthersOK'
  BY <1>1, OthersStay DEF player, auras
<1> QED
  BY <1>1, <1>2, <1>6, <1>8, <1>9, <1>10, <1>11, <1>12, <1>13, MoveStep

LEMMA FinishPostChannelKeepsInv ==
  ASSUME Inv, FinishPostChannel
  PROVE  Inv' /\ Undisturbed
<1>1. /\ pc = "PostSpellChannel" /\ UNCHANGED <<player, auras, budget>>
      /\ ReturnAndDelete(current, eventMap)
  BY DEF FinishPostChannel
<1>2. /\ InFront(eventMap, gameTime, current) /\ current # Null
      /\ heap[current].type = "tickPost"
  BY <1>1, CurrentIsInFront DEF Hooks, HookType
<1>3. castingSpell' = castingSpell /\ castingSpell # current
  BY <1>1, <1>2 DEF player, Inv, SoundNow, Sound, GoodCast
<1>4. OthersOK'
  BY <1>1, OthersStay DEF player, auras
<1> QED
  BY <1>1, <1>2, <1>3, <1>4, DeleteStep

\* The spell of the event whose cast begins, and its first cooldown.
LEMMA PreCastingFacts ==
  ASSUME Inv, pc = "PreCastingSpell"
  PROVE  /\ InFront(eventMap, gameTime, current) /\ current \in DOMAIN heap
         /\ current # Null /\ heap[current] \in CastEvents
         /\ heap[current].type = "castPre" /\ gameTime \in Nat
<1>1. /\ InFront(eventMap, gameTime, current) /\ current \in DOMAIN heap
      /\ current # Null /\ heap[current] \in EventObjects
      /\ heap[current].type = "castPre" /\ gameTime \in Nat
  BY CurrentIsInFront DEF GoodObject, Hooks, HookType
<1>2. heap[current] \in CastEvents
  BY <1>1, KindsOfObjects
<1> QED
  BY <1>1, <1>2

LEMMA MissChannelKeepsInv ==
  ASSUME Inv, NEW g \in GcdTimes, MissChannel(g)
  PROVE  Inv' /\ Undisturbed
<1>1. /\ pc = "PreCastingSpell" /\ globalCooldown' = gameTime + g
      /\ castingSpell' = Null /\ UNCHANGED <<spellCooldown, auras, budget>>
      /\ ReturnAndDelete(current, eventMap)
  BY DEF MissChannel
<1>2. /\ InFront(eventMap, gameTime, current) /\ current # Null /\ gameTime \in Nat
  BY <1>1, PreCastingFacts
<1>3. globalCooldown' \in Nat
  BY <1>1, <1>2, SpellAssumption
<1>4. OthersOK'
  BY <1>1, <1>3 DEF OthersOK, Inv, auras
<1> QED
  BY <1>1, <1>2, <1>4, DeleteStep

\* The cast event after its first run.
CastPost(e, r) == [e EXCEPT !.type = "castPost", !.gcdRecovery = r]

LEMMA CastPostIsGood ==
  ASSUME NEW e \in CastEvents, NEW r \in Nat
  PROVE  /\ GoodObject(CastPost(e, r)) /\ CastPost(e, r).type = "castPost"
         /\ ~IsTick(CastPost(e, r)) /\ CastPost(e, r).spell = e.spell
<1> DEFINE f == CastPost(e, r)
<1>1. f \in CastEvents /\ f.type = "castPost" /\ f.spell = e.spell
  BY DEF CastEvents, CastPost
<1> HIDE DEF f
<1>2. GoodObject(f) /\ ~IsTick(f)
  BY <1>1 DEF GoodObject, EventObjects, IsTick
<1> QED
  BY <1>1, <1>2 DEF f

LEMMA StartCastKeepsInv ==
  ASSUME Inv, NEW g \in GcdTimes, NEW c \in CastTimes(heap[current].spell),
         StartCast(g, c)
  PROVE  Inv' /\ Undisturbed
<1> DEFINE x == current
           r == gameTime + g
           h == [heap EXCEPT ![x].type = "castPost",
                             ![x].gcdRecovery = r]
           u == gameTime + c
<1>1. /\ pc = "PreCastingSpell" /\ castingSpell' = x
      /\ UNCHANGED <<globalCooldown, spellCooldown, auras, budget>>
      /\ Return(Enqueue(eventMap, u, x)) /\ heap' = h
  BY DEF StartCast
<1>2. /\ InFront(eventMap, gameTime, x) /\ x \in DOMAIN heap
      /\ heap[x] \in CastEvents /\ gameTime \in Nat
  BY <1>1, PreCastingFacts
<1>3. c \in Nat /\ g \in Nat
  BY <1>2, SpellAssumption, ChannelAssumption DEF CastEvents, CastTimes
<1>4. u \in Nat /\ gameTime <= u /\ r \in Nat
  BY <1>2, <1>3
<1>5. IsFunctionOn(heap, DOMAIN heap)
  BY DEF Inv, SoundNow, Sound, GoodHeap
<1>6. /\ DOMAIN h = DOMAIN heap /\ IsFunctionOn(h, DOMAIN heap)
      /\ \A y \in DOMAIN heap : y # x => h[y] = heap[y]
      /\ h[x] = CastPost(heap[x], r)
  BY <1>2 DEF IsFunctionOn, CastPost
<1> HIDE DEF h, u, r
<1>7. GoodObject(h[x]) /\ h[x].type = "castPost" /\ ~IsTick(h[x])
  BY <1>2, <1>4, <1>6, CastPostIsGood
<1>8. OthersOK'
  BY <1>1, OthersStay DEF auras
<1> QED
  BY <1>1, <1>2, <1>4, <1>6, <1>7, <1>8, MoveStep

\* The ticks are queued for times before the one at which their parent ends.
LEMMA StartChannelKeepsInv ==
  ASSUME Inv, NEW g \in GcdTimes, NEW c \in CastTimes(heap[current].spell),
         StartChannel(g, c)
  PROVE  Inv' /\ Undisturbed
<1> DEFINE x == current
           s == heap[x].spell
           u == gameTime + c
           r == gameTime + g
           T == 1..SpellData[s].ticks
<1>1. /\ pc = "PreCastingSpell" /\ IsChannel(s) /\ castingSpell' = x
      /\ UNCHANGED <<globalCooldown, spellCooldown, auras, budget>>
  BY DEF StartChannel
<1>2. PICK k \in Allocations(SpellData[s].ticks) :
        /\ Return(Enqueue(EnqueueTicks(eventMap, s, c, k), u, x))
        /\ heap' = [y \in DOMAIN heap \cup {k[i] : i \in DOMAIN k} |->
                      IF y = x
                        THEN [heap[x] EXCEPT !.type = "castPost",
                                             !.gcdRecovery = r]
                      ELSE IF y \in DOMAIN heap THEN heap[y]
                      ELSE TickEvent(s, heap[x].target, x)]
  BY DEF StartChannel
<1>3. /\ InFront(eventMap, gameTime, x) /\ x \in DOMAIN heap /\ x \in Addr
      /\ heap[x] \in CastEvents /\ gameTime \in Nat /\ x # Null
      /\ heap[x].type = "castPre"
  BY <1>1, PreCastingFacts, CurrentIsInFront DEF Hooks
<1>4. s \in Spells /\ heap[x].target \in Creatures
  BY <1>3 DEF CastEvents
<1>5. c \in Nat /\ g \in Nat /\ SpellData[s].ticks \in Nat
  BY <1>4, SpellAssumption, ChannelAssumption DEF CastTimes
<1>6. u \in Nat /\ gameTime <= u /\ r \in Nat
  BY <1>3, <1>5
<1>7. /\ GoodMap(eventMap, gameTime) /\ GoodHeap(eventMap, heap)
      /\ GoodTicks(eventMap, heap) /\ exitable \in BOOLEAN
  BY DEF Inv, SoundNow, Sound, ClockOK
<1>8. DOMAIN heap \subseteq Addr /\ DOMAIN heap = Queued(eventMap)
  BY <1>7, QueuedIsDue, DueTimes DEF GoodHeap
<1>9. /\ k \in [T -> Addr]
      /\ \A i \in T : k[i] \notin DOMAIN heap
      /\ \A i, j \in T : k[i] = k[j] => i = j
  BY <1>5, <1>8, Allocated
<1> DEFINE m == EnqueueTicks(eventMap, s, c, k)
           n == PopFront(Enqueue(m, u, x), gameTime)
           K == {k[i] : i \in DOMAIN k}
<1>10. /\ GoodMap(m, gameTime)
       /\ Queued(m) = Queued(eventMap) \cup K
       /\ \A y, t : IsDueAt(m, y, t)
            <=> \/ IsDueAt(eventMap, y, t)
                \/ \E i \in DOMAIN k :
                     y = k[i] /\ t = gameTime + TickDelay(s, c, i)
       /\ \A y : InFront(eventMap, gameTime, y) => InFront(m, gameTime, y)
  BY <1>1, <1>3, <1>4, <1>7, <1>8, <1>9, AddTicksToMap
<1>11. InFront(m, gameTime, x)
  BY <1>3, <1>10
<1>12. DOMAIN k = T /\ \A i \in T : TickDelay(s, c, i) \in Nat /\ TickDelay(s, c, i) < c
  BY <1>1, <1>4, <1>9, TickDelays
<1> HIDE DEF m
<1>13. /\ GoodMap(n, gameTime)
       /\ Queued(n) = Queued(m)
       /\ \A y, t : IsDueAt(n, y, t)
            <=> (IsDueAt(m, y, t) /\ y # x) \/ (y = x /\ t = u)
  BY <1>6, <1>10, <1>11, MoveInMap
<1>14. /\ eventMap' = n /\ gameTime' = gameTime /\ ClockOK'
       /\ pc' \in {"batch", "idle", "loop"} /\ current' = Null
  <2> DEFINE q == Enqueue(m, u, x)
  <2>1. DOMAIN q = DOMAIN m \cup {u}
    BY DEF Enqueue
  <2>2. /\ DOMAIN q \subseteq Nat /\ \A t \in DOMAIN q : gameTime <= t
        /\ gameTime \in DOMAIN q
    BY <1>6, <1>10, <1>11, <2>1 DEF GoodMap, IsEventMap, InFront
  <2>3. Return(q)
    BY <1>2 DEF m
  <2> HIDE DEF q
  <2>4. /\ eventMap' = PopFront(q, gameTime) /\ gameTime' = gameTime /\ ClockOK'
        /\ pc' \in {"batch", "idle", "loop"} /\ current' = Null
    BY <1>3, <1>7, <2>2, <2>3, ReturnPops
  <2> QED
    BY <2>4 DEF q
<1> HIDE DEF n, K, r
\* The heap.
<1>15. /\ DOMAIN heap' = DOMAIN heap \cup K
       /\ IsFunctionOn(heap', DOMAIN heap')
       /\ heap'[x] = CastPost(heap[x], r)
       /\ \A y \in DOMAIN heap : y # x => heap'[y] = heap[y]
  BY SMTT(40), <1>2, <1>3 DEF IsFunctionOn, K, CastPost
<1>16. \A y \in K : /\ y \notin DOMAIN heap /\ y # x
                    /\ heap'[y] = TickEvent(s, heap[x].target, x)
  BY <1>2, <1>3, <1>9, <1>12 DEF K
<1>17. /\ GoodObject(heap'[x]) /\ heap'[x].type = "castPost"
       /\ ~IsTick(heap'[x]) /\ heap'[x].spell = s
  BY <1>3, <1>6, <1>15, CastPostIsGood
<1>18. LET t == TickEvent(s, heap[x].target, x)
       IN  GoodObject(t) /\ t.parent = x /\ t.spell = s
  BY <1>3, <1>4 DEF TickEvent, GoodObject, EventObjects, TickEvents
<1>19. GoodHeap(n, heap')
  BY <1>7, <1>8, <1>10, <1>13, <1>15, <1>16, <1>17, <1>18 DEF GoodHeap
<1>20. \A y \in K : \A t, v : IsDueAt(n, y, t) /\ IsDueAt(n, x, v) => t < v
  <2> SUFFICES ASSUME NEW y \in K, NEW t, NEW v, IsDueAt(n, y, t), IsDueAt(n, x, v)
               PROVE  t < v
    OBVIOUS
  <2>1. v = u
    BY <1>13
  <2>2. ~IsDueAt(eventMap, y, t)
    BY <1>8, <1>16, QueuedIsDue
  <2>3. PICK i \in T : t = gameTime + TickDelay(s, c, i)
    BY <1>10, <1>12, <1>13, <1>16, <2>2
  <2>4. TickDelay(s, c, i) \in Nat /\ TickDelay(s, c, i) < c
    BY <1>12
  <2> QED
    BY <1>3, <1>5, <2>1, <2>3, <2>4
<1>21. GoodTicks(n, heap')
  <2> SUFFICES ASSUME NEW y \in DOMAIN heap', IsTick(heap'[y])
               PROVE  /\ IsParent(heap', heap'[y].parent, heap'[y])
                      /\ \A t, v : IsDueAt(n, y, t) /\ IsDueAt(n, heap'[y].parent, v)
                                    => t < v
    BY DEF GoodTicks
  <2>1. y # x
    BY <1>17
  <2>2. CASE y \in K
    <3>1. heap'[y].parent = x /\ heap'[y].spell = s
      BY <1>16, <1>18, <2>2
    <3>2. IsParent(heap', x, heap'[y])
      BY <1>3, <1>15, <1>17, <3>1 DEF IsParent
    <3> QED
      BY <1>20, <2>2, <3>1, <3>2
  <2>3. CASE y \in DOMAIN heap
    <3>1. heap'[y] = heap[y]
      BY <1>15, <2>1, <2>3
    <3>2. /\ heap[y].parent # x
          /\ IsParent(heap, heap[y].parent, heap[y])
          /\ \A t, v : IsDueAt(eventMap, y, t) /\ IsDueAt(eventMap, heap[y].parent, v)
                        => t < v
      BY <1>3, <1>7, <2>3, <3>1, FrontIsNoParent DEF GoodTicks
    <3>3. IsParent(heap', heap[y].parent, heap[y])
      BY <1>15, <3>2 DEF IsParent
    <3>4. \A z \in DOMAIN heap : \A t : IsDueAt(n, z, t) /\ z # x => IsDueAt(eventMap, z, t)
      BY <1>10, <1>13, <1>16 DEF K
    <3> QED
      BY <2>1, <2>3, <3>1, <3>2, <3>3, <3>4 DEF IsParent
  <2> QED
    BY <1>15, <2>2, <2>3
<1>22. GoodCast(heap', castingSpell')
  BY <1>1, <1>3, <1>15, <1>17 DEF GoodCast
<1>23. SoundNow'
  BY <1>13, <1>14, <1>19, <1>21, <1>22 DEF SoundNow, Sound
<1>24. OthersOK'
  BY <1>1, OthersStay DEF auras
<1>25. HandlerRuns'
  BY <1>14 DEF HandlerRuns, Hooks
\* The events that were there.
<1>26. ASSUME NEW y \in DOMAIN heap, y # x
       PROVE  Stays(y)
  <2>1. \A t : IsDueAt(n, y, t) <=> IsDueAt(m, y, t)
    BY <1>13, <1>26
  <2>2. \A t : IsDueAt(m, y, t) <=> IsDueAt(eventMap, y, t)
    BY <1>10, <1>16 DEF K
  <2> QED
    BY <1>14, <1>15, <1>26, <2>1, <2>2 DEF Stays
<1>27. Undisturbed
  BY <1>3, <1>14, <1>26 DEF Undisturbed, Finishes, Hooks
<1> QED
  BY <1>14, <1>23, <1>24, <1>25, <1>27 DEF Inv

-----------------------------------------------------------------------------
(* Aura events.                                                               *)

\* A removal or a tick that finds no aura, or another one.
LEMMA DropKeepsInv ==
  ASSUME Inv, NEW x \in DOMAIN heap, DropRemoval(x) \/ DropTick(x)
  PROVE  Inv' /\ Undisturbed
<1>1. /\ IsNext(x) /\ heap[x].type \in {"remove", "periodic"}
      /\ UNCHANGED <<player, auras, budget>> /\ ReturnAndDelete(x, eventMap)
  BY DEF DropRemoval, DropTick
<1>2. InFront(eventMap, gameTime, x) /\ x # Null
  BY <1>1, NextIsInFront
<1>3. castingSpell' = castingSpell /\ castingSpell # x
  BY <1>1, <1>2 DEF player, Inv, SoundNow, Sound, GoodCast
<1>4. OthersOK'
  BY <1>1, OthersStay DEF player, auras
<1> QED
  BY <1>1, <1>2, <1>3, <1>4, DeleteStep

\* The aura an event finds.
LEMMA InstanceType ==
  ASSUME Inv, NEW x \in DOMAIN heap, heap[x].target \in Creatures,
         HasAura(heap[x].target, heap[x].aura)
  PROVE  Instance(x) \in AuraObjects /\ heap[x].aura \in Auras
BY DEF Inv, OthersOK, AurasOK, HasAura, Instance

LEMMA PostponeRemovalKeepsInv ==
  ASSUME Inv, NEW x \in DOMAIN heap, PostponeRemoval(x)
  PROVE  Inv' /\ Undisturbed
<1> DEFINE u == Instance(x).fadeTime
<1>1. /\ IsNext(x) /\ heap[x].type = "remove" /\ FindsItsAura(x)
      /\ u > gameTime /\ UNCHANGED <<player, auras, budget>>
      /\ ReturnAndKeep(Enqueue(eventMap, u, x))
  BY DEF PostponeRemoval
<1>2. InFront(eventMap, gameTime, x) /\ heap[x] \in EventObjects /\ gameTime \in Nat
  BY <1>1, NextIsInFront DEF GoodObject
<1>3. heap[x].target \in Creatures
  BY <1>1, <1>2, KindsOfObjects DEF RemoveEvents
<1>4. u \in Nat
  BY <1>1, <1>3, InstanceType DEF FindsItsAura, AuraObjects
<1> HIDE DEF u
<1>5. gameTime <= u
  BY <1>1, <1>2, <1>4
<1>6. OthersOK' /\ castingSpell' = castingSpell
  BY <1>1, OthersStay DEF player, auras
<1> QED
  BY <1>1, <1>2, <1>4, <1>5, <1>6, KeepStep

LEMMA FinishFadeKeepsInv ==
  ASSUME Inv, FinishFade
  PROVE  Inv' /\ Undisturbed
<1> DEFINE x == current
           c == heap[x].target
           f == [b \in DOMAIN auraMap[c] \ {heap[x].aura} |-> auraMap[c][b]]
<1>1. /\ pc = "AuraFade" /\ UNCHANGED <<player, guidCounter, budget>>
      /\ ReturnAndDelete(x, eventMap)
      /\ auraMap' = [auraMap EXCEPT ![c] = f]
  BY DEF FinishFade
<1>2. /\ InFront(eventMap, gameTime, x) /\ x # Null /\ heap[x] \in EventObjects
      /\ heap[x].type = "remove"
  BY <1>1, CurrentIsInFront DEF GoodObject, Hooks, HookType
<1>3. c \in Creatures /\ AurasOK(auraMap)
  BY <1>2, KindsOfObjects DEF RemoveEvents, Inv, OthersOK
<1>4. /\ IsFunctionOn(f, DOMAIN f) /\ DOMAIN f \subseteq Auras
      /\ \A a \in DOMAIN f : f[a] \in AuraObjects
  BY <1>3 DEF AurasOK, IsFunctionOn
<1> HIDE DEF f
<1>5. AurasOK(auraMap')
  BY <1>1, <1>3, <1>4, ReplaceAuras
<1>6. OthersOK'
  BY <1>1, <1>5 DEF OthersOK, Inv, player
<1>7. castingSpell' = castingSpell /\ castingSpell # x
  BY <1>1, <1>2 DEF player, Inv, SoundNow, Sound, GoodCast
<1> QED
  BY <1>1, <1>2, <1>6, <1>7, DeleteStep

LEMMA FinishPeriodicKeepsInv ==
  ASSUME Inv, FinishPeriodic
  PROVE  Inv' /\ Undisturbed
<1> DEFINE x == current
           next == gameTime + heap[x].period
<1>1. /\ pc = "PeriodicEvent" /\ UNCHANGED <<player, auras, budget>>
      /\ \/ ReturnAndKeep(Enqueue(eventMap, next, x))
         \/ ReturnAndDelete(x, eventMap)
  BY DEF FinishPeriodic
<1>2. /\ InFront(eventMap, gameTime, x) /\ x # Null /\ heap[x] \in EventObjects
      /\ heap[x].type = "periodic" /\ gameTime \in Nat
  BY <1>1, CurrentIsInFront DEF GoodObject, Hooks, HookType
<1>3. next \in Nat /\ gameTime <= next
  BY <1>2, KindsOfObjects DEF PeriodicEvents
<1>4. OthersOK' /\ castingSpell' = castingSpell
  BY <1>1, OthersStay DEF player, auras
<1>5. castingSpell # x
  BY <1>2 DEF Inv, SoundNow, Sound, GoodCast
<1> HIDE DEF next
<1>6. CASE ReturnAndKeep(Enqueue(eventMap, next, x))
  BY <1>2, <1>3, <1>4, <1>6, KeepStep
<1>7. CASE ReturnAndDelete(x, eventMap)
  BY <1>2, <1>4, <1>5, <1>7, DeleteStep
<1> QED
  BY <1>1, <1>6, <1>7

\* The event whose routine AuraApplication is.
LEMMA ApplicationFacts ==
  ASSUME Inv, pc = "AuraApplication"
  PROVE  /\ InFront(eventMap, gameTime, current) /\ current \in DOMAIN heap
         /\ current # Null /\ heap[current] \in ApplyEvents
         /\ HastedTimes(heap[current].fade) \subseteq Nat /\ heap[current].type = "apply"
         /\ heap[current].target \in Creatures /\ heap[current].aura \in Auras
         /\ gameTime \in Nat /\ castingSpell # current
<1>1. /\ InFront(eventMap, gameTime, current) /\ current \in DOMAIN heap
      /\ current # Null /\ GoodObject(heap[current])
      /\ heap[current].type = "apply" /\ gameTime \in Nat
  BY CurrentIsInFront DEF Hooks, HookType
<1>2. heap[current] \in ApplyEvents /\ HastedTimes(heap[current].fade) \subseteq Nat
  BY <1>1, KindsOfObjects DEF GoodObject
<1>3. castingSpell # current
  BY <1>1 DEF Inv, SoundNow, Sound, GoodCast
<1> QED
  BY <1>1, <1>2, <1>3 DEF ApplyEvents

LEMMA RefreshAuraKeepsInv ==
  ASSUME Inv, RefreshAura
  PROVE  Inv' /\ Undisturbed
<1> DEFINE x == current
           c == heap[x].target
           a == heap[x].aura
           i == auraMap[c][a]
<1>1. /\ pc = "AuraApplication" /\ HasAura(c, a)
      /\ UNCHANGED <<player, guidCounter, budget>>
      /\ ReturnAndDelete(x, eventMap)
  BY Zenon DEF RefreshAura
<1>2. PICK f \in RefreshedFades(x) :
        auraMap' = [auraMap EXCEPT ![c][a].ticks = @ + heap[x].stacks,
                                   ![c][a].fadeTime = f]
  BY Zenon DEF RefreshAura
<1>3. /\ InFront(eventMap, gameTime, x) /\ x \in DOMAIN heap /\ x # Null
      /\ HastedTimes(heap[x].fade) \subseteq Nat /\ heap[x] \in ApplyEvents
      /\ c \in Creatures /\ gameTime \in Nat /\ castingSpell # x
  BY <1>1, ApplicationFacts
<1>4. heap[x].stacks \in Nat /\ heap[x].fade \in Nat
  BY <1>3 DEF ApplyEvents
<1>5. AurasOK(auraMap) /\ a \in DOMAIN auraMap[c] /\ i \in AuraObjects
  BY SMTT(40), <1>1, <1>3 DEF Inv, OthersOK, HasAura, AurasOK
<1>6. f \in Nat
  <2>1. Instance(x).fadeTime \in Nat
    BY <1>5 DEF Instance, AuraObjects
  <2>2. HastedTimes(heap[x].fade) \subseteq Nat
    BY <1>3
  <2> QED
    BY <1>2, <1>3, <1>4, <2>1, <2>2 DEF RefreshedFades
<1> DEFINE v == [i EXCEPT !.ticks = @ + heap[x].stacks, !.fadeTime = f]
<1>7. v \in AuraObjects
  <2>1. i.ticks \in Nat /\ i.ticks + heap[x].stacks \in Nat
    BY <1>4, <1>5 DEF AuraObjects
  <2> DEFINE k == i.ticks + heap[x].stacks
  <2>2. v = [i EXCEPT !.ticks = k, !.fadeTime = f] /\ k \in Nat
    BY <2>1
  <2> HIDE DEF k, i
  <2> QED
    BY <1>5, <1>6, <2>2 DEF AuraObjects
<1>8. auraMap' = [auraMap EXCEPT ![c][a] = v]
  <2>1. auraMap = [d \in Creatures |-> auraMap[d]]
    BY <1>5 DEF AurasOK, IsFunctionOn
  <2> QED
    BY Zenon, <1>2, <1>3, <1>5, <2>1
<1> HIDE DEF v
<1>9. AurasOK(auraMap')
  BY <1>3, <1>5, <1>7, <1>8, ReplaceAura
<1>10. OthersOK' /\ castingSpell' = castingSpell
  BY <1>1, <1>9 DEF OthersOK, Inv, player
<1> QED
  BY <1>1, <1>3, <1>10, DeleteStep

\* What a handler can give to QueueAndReturn: objects that are no ticks of a
\* channel, for times to come.
Queueable(e) ==
  /\ GoodObject(e.event) /\ ~IsTick(e.event)
  /\ e.at \in Nat /\ gameTime <= e.at

LEMMA AddQueueable ==
  ASSUME NEW m, NEW h, Sound(m, h, gameTime, castingSpell), gameTime \in Nat,
         NEW y \in Fresh(DOMAIN h), NEW e, Queueable(e)
  PROVE  /\ Sound(Enqueue(m, e.at, y), New(h, y, e.event), gameTime, castingSpell)
         /\ \A x : InFront(m, gameTime, x) => InFront(Enqueue(m, e.at, y), gameTime, x)
         /\ \A x : Untouched(m, h, Enqueue(m, e.at, y), New(h, y, e.event), x)
<1> DEFINE u == e.at
           obj == e.event
<1>1. u \in Nat /\ gameTime <= u /\ GoodObject(obj) /\ ~IsTick(obj)
  BY DEF Queueable
<1> HIDE DEF u, obj
<1>2. Sound(Enqueue(m, u, y), New(h, y, obj), gameTime, castingSpell)
  BY <1>1, AddEvent
<1>3. \A x : InFront(m, gameTime, x) => InFront(Enqueue(m, u, y), gameTime, x)
  BY <1>1, AddEvent
<1>4. \A x : Untouched(m, h, Enqueue(m, u, y), New(h, y, obj), x)
  BY <1>1, AddEvent
<1> QED
  BY <1>2, <1>3, <1>4 DEF u, obj

LEMMA QueueAndReturnKeepsInv ==
  ASSUME Inv, NEW x, InFront(eventMap, gameTime, x), castingSpell # x,
         NEW q, \/ q = << >>
                \/ Len(q) = 1 /\ Queueable(q[1])
                \/ Len(q) = 2 /\ Queueable(q[1]) /\ Queueable(q[2]),
         QueueAndReturn(x, q), castingSpell' = castingSpell, OthersOK'
  PROVE  Inv' /\ Undisturbed
<1>1. /\ Sound(eventMap, heap, gameTime, castingSpell) /\ ClockOK
      /\ gameTime \in Nat
  BY DEF Inv, SoundNow, ClockOK
<1>2. Len(<< >>) = 0
  OBVIOUS
<1>3. CASE q = << >>
  <2>1. ReturnAndDelete(x, eventMap)
    BY <1>3, <1>2 DEF QueueAndReturn
  <2> QED
    BY <2>1, DeleteStep
<1>4. CASE Len(q) = 1 /\ Queueable(q[1])
  <2>1. PICK y \in Fresh(DOMAIN heap) :
          /\ Return(Enqueue(eventMap, q[1].at, y))
          /\ heap' = Delete(New(heap, y, q[1].event), x)
    BY <1>2, <1>4 DEF QueueAndReturn
  <2> DEFINE m == Enqueue(eventMap, q[1].at, y)
             h == New(heap, y, q[1].event)
  <2>2. Sound(m, h, gameTime, castingSpell)
    BY <1>1, <1>4, AddQueueable
  <2>3. InFront(m, gameTime, x)
    BY <1>1, <1>4, AddQueueable
  <2>4. Untouched(eventMap, heap, m, h, x)
    BY <1>1, <1>4, AddQueueable
  <2> HIDE DEF m, h
  <2>5. Return(m) /\ heap' = Delete(h, x)
    BY <2>1 DEF m, h
  <2> QED
    BY <1>1, <2>2, <2>3, <2>5, <2>4, DeleteFrom
<1>5. CASE Len(q) = 2 /\ Queueable(q[1]) /\ Queueable(q[2])
  <2>1. PICK y \in Fresh(DOMAIN heap) :
          \E z \in Fresh(DOMAIN heap \cup {y}) :
            /\ Return(Enqueue(Enqueue(eventMap, q[1].at, y), q[2].at, z))
            /\ heap' = Delete(New(New(heap, y, q[1].event), z, q[2].event), x)
    BY <1>2, <1>5 DEF QueueAndReturn
  <2>2. PICK z \in Fresh(DOMAIN heap \cup {y}) :
            /\ Return(Enqueue(Enqueue(eventMap, q[1].at, y), q[2].at, z))
            /\ heap' = Delete(New(New(heap, y, q[1].event), z, q[2].event), x)
    BY <2>1
  <2> DEFINE m == Enqueue(eventMap, q[1].at, y)
             h == New(heap, y, q[1].event)
  <2>3. Sound(m, h, gameTime, castingSpell)
    BY <1>1, <1>5, AddQueueable
  <2>4. InFront(m, gameTime, x)
    BY <1>1, <1>5, AddQueueable
  <2>5. z \in Fresh(DOMAIN h)
    BY DEF New
  <2>6. Untouched(eventMap, heap, m, h, x)
    BY <1>1, <1>5, AddQueueable
  <2> HIDE DEF m, h
  <2> DEFINE n == Enqueue(m, q[2].at, z)
             g == New(h, z, q[2].event)
  <2>7. Sound(n, g, gameTime, castingSpell)
    BY <1>1, <1>5, <2>3, <2>5, AddQueueable
  <2>8. InFront(n, gameTime, x)
    BY <1>1, <1>5, <2>3, <2>4, <2>5, AddQueueable
  <2>9. Return(n) /\ heap' = Delete(g, x)
    BY <2>2 DEF m, h
  <2>10. Untouched(m, h, n, g, x)
    BY <1>1, <1>5, <2>3, <2>5, AddQueueable
  <2>11. Untouched(eventMap, heap, n, g, x)
    BY <2>6, <2>10, UntouchedTwice
  <2> HIDE DEF n, g
  <2> QED
    BY <1>1, <2>7, <2>8, <2>9, <2>11, DeleteFrom
<1> QED
  BY <1>3, <1>4, <1>5

LEMMA TickTimesType ==
  ASSUME NEW a \in Auras
  PROVE  TickTimes(a) \subseteq Nat \ {0}
BY AuraAssumption DEF TickTimes

LEMMA EmptyConcatenations ==
  ASSUME NEW e
  PROVE  << >> \o << >> = << >> /\ <<e>> \o << >> = <<e>> /\ << >> \o <<e>> = <<e>>
OBVIOUS

LEMMA PairConcatenation ==
  ASSUME NEW S, NEW e \in S, NEW f \in S
  PROVE  /\ Len(<<e>> \o <<f>>) = 2
         /\ (<<e>> \o <<f>>)[1] = e /\ (<<e>> \o <<f>>)[2] = f
OBVIOUS

\* The removal and the first tick of a new aura.
FirstRemoval(x, f) ==
  [at |-> gameTime + f + 1,
   event |-> [type |-> "remove", aura |-> heap[x].aura,
              target |-> heap[x].target, guid |-> guidCounter + 1]]

FirstTick(x, p) ==
  [at |-> gameTime + p,
   event |-> [type |-> "periodic", aura |-> heap[x].aura,
              target |-> heap[x].target, guid |-> guidCounter + 1,
              period |-> p]]

\* It has one, the other, both or none of them.
LEMMA FirstEventsAre ==
  ASSUME NEW x, NEW f, NEW p
  PROVE  LET q == FirstEvents(x, f, p)
             r == FirstRemoval(x, f)
             t == FirstTick(x, p)
             ticks == AuraData[heap[x].aura].periodic
         IN  \/ f = 0 /\ ~ticks /\ q = << >>
             \/ f # 0 /\ ~ticks /\ q = <<r>>
             \/ f = 0 /\ ticks /\ q = <<t>>
             \/ f # 0 /\ ticks /\ Len(q) = 2 /\ q[1] = r /\ q[2] = t
<1> DEFINE q == FirstEvents(x, f, p)
           r == FirstRemoval(x, f)
           t == FirstTick(x, p)
           ticks == AuraData[heap[x].aura].periodic
<1>1. q = (IF f = 0 THEN << >> ELSE <<r>>) \o (IF ticks THEN <<t>> ELSE << >>)
  BY DEF FirstEvents, FirstRemoval, FirstTick
<1> HIDE DEF q, r, t, ticks
<1>2. /\ << >> \o << >> = << >> /\ <<r>> \o << >> = <<r>>
      /\ << >> \o <<t>> = <<t>>
  BY EmptyConcatenations
<1>3. LET c == <<r>> \o <<t>> IN Len(c) = 2 /\ c[1] = r /\ c[2] = t
  BY PairConcatenation, r \in {r, t}, t \in {r, t}
<1>4. CASE f = 0 /\ ticks
  BY <1>1, <1>2, <1>4 DEF q, r, t, ticks
<1>5. CASE f # 0 /\ ticks
  <2>1. q = <<r>> \o <<t>>
    BY <1>1, <1>5
  <2>2. Len(q) = 2 /\ q[1] = r /\ q[2] = t
    BY <1>3, <2>1
  <2> QED
    BY <1>5, <2>2 DEF q, r, t, ticks
<1>6. CASE f = 0 /\ ~ticks
  BY <1>1, <1>2, <1>6 DEF q, r, t, ticks
<1>7. CASE f # 0 /\ ~ticks
  BY <1>1, <1>2, <1>7 DEF q, r, t, ticks
<1> QED
  BY <1>4, <1>5, <1>6, <1>7

LEMMA FirstAreQueueable ==
  ASSUME NEW x, heap[x].target \in Creatures, heap[x].aura \in Auras,
         gameTime \in Nat, guidCounter \in Nat, NEW f \in Nat, NEW p \in Nat
  PROVE  Queueable(FirstRemoval(x, f)) /\ Queueable(FirstTick(x, p))
<1> DEFINE r == FirstRemoval(x, f)
           t == FirstTick(x, p)
<1>1. Queueable(r)
  <2>1. r.event \in RemoveEvents /\ r.event.type = "remove"
    BY DEF RemoveEvents, FirstRemoval
  <2>2. r.at = gameTime + f + 1
    BY DEF FirstRemoval
  <2> HIDE DEF r
  <2> QED
    BY <2>1, <2>2 DEF Queueable, GoodObject, EventObjects, IsTick
<1>2. Queueable(t)
  <2>1. t.event \in PeriodicEvents /\ t.event.type = "periodic"
    BY DEF PeriodicEvents, FirstTick
  <2>2. t.at = gameTime + p
    BY DEF FirstTick
  <2> HIDE DEF t
  <2> QED
    BY <2>1, <2>2 DEF Queueable, GoodObject, EventObjects, IsTick
<1> QED
  BY <1>1, <1>2

\* The events of a new aura.
LEMMA FirstEventsAreQueueable ==
  ASSUME NEW x, heap[x].target \in Creatures, heap[x].aura \in Auras,
         gameTime \in Nat, guidCounter \in Nat, NEW f \in Nat, NEW p \in Nat
  PROVE  LET q == FirstEvents(x, f, p)
         IN  \/ q = << >>
             \/ Len(q) = 1 /\ Queueable(q[1])
             \/ Len(q) = 2 /\ Queueable(q[1]) /\ Queueable(q[2])
<1> DEFINE q == FirstEvents(x, f, p)
           r == FirstRemoval(x, f)
           t == FirstTick(x, p)
<1>1. Queueable(r) /\ Queueable(t)
  BY FirstAreQueueable
<1>2. \/ q = << >> \/ q = <<r>> \/ q = <<t>>
      \/ Len(q) = 2 /\ q[1] = r /\ q[2] = t
  BY FirstEventsAre
<1> HIDE DEF q, r, t
<1>3. /\ Len(<<r>>) = 1 /\ <<r>>[1] = r
      /\ Len(<<t>>) = 1 /\ <<t>>[1] = t
  OBVIOUS
<1> QED
  BY <1>1, <1>2, <1>3 DEF q

LEMMA NewAuraKeepsInv ==
  ASSUME Inv, NewAura
  PROVE  Inv' /\ Undisturbed
<1> DEFINE x == current
           c == heap[x].target
           a == heap[x].aura
<1>1. /\ pc = "AuraApplication" /\ ~HasAura(c, a)
      /\ guidCounter' = guidCounter + 1 /\ UNCHANGED <<player, budget>>
  BY DEF NewAura
<1>2. PICK p \in TickTimes(a) :
        LET f == FirstFade(x, p)
        IN  /\ auraMap' = [auraMap EXCEPT ![c] =
                 [b \in DOMAIN @ \cup {a} |->
                    IF b = a
                      THEN [guid |-> guidCounter + 1,
                            ticks |-> heap[x].stacks,
                            fadeTime |-> IF f = 0 THEN 0 ELSE f + gameTime + 1]
                      ELSE @[b]]]
            /\ QueueAndReturn(x, FirstEvents(x, f, p))
  BY DEF NewAura
<1>3. /\ InFront(eventMap, gameTime, x) /\ x \in DOMAIN heap /\ x # Null
      /\ heap[x] \in ApplyEvents /\ c \in Creatures /\ a \in Auras
      /\ gameTime \in Nat /\ castingSpell # x
  BY <1>1, ApplicationFacts
<1>4. heap[x].stacks \in Nat /\ heap[x].fade \in Nat /\ p \in Nat
  BY <1>3, TickTimesType DEF ApplyEvents
<1>5. AurasOK(auraMap) /\ guidCounter \in Nat
  BY DEF Inv, OthersOK
<1> DEFINE f == FirstFade(x, p)
           o == [guid |-> guidCounter + 1, ticks |-> heap[x].stacks,
                 fadeTime |-> IF f = 0 THEN 0 ELSE f + gameTime + 1]
           n == [b \in DOMAIN auraMap[c] \cup {a} |->
                   IF b = a THEN o ELSE auraMap[c][b]]
<1>6. f \in Nat
  <2>1. AuraData[a].period \in Nat \ {0}
    BY <1>3, AuraAssumption
  <2>2. heap[x].fade \div AuraData[a].period \in Nat
    BY <1>4, <2>1
  <2> QED
    BY <1>4, <2>2 DEF FirstFade
<1>7. auraMap' = [auraMap EXCEPT ![c] = n] /\ QueueAndReturn(x, FirstEvents(x, f, p))
  BY <1>2
<1> HIDE DEF f
<1>8. o \in AuraObjects
  BY <1>3, <1>4, <1>5, <1>6 DEF AuraObjects
<1> HIDE DEF o
<1>9. /\ IsFunctionOn(n, DOMAIN n) /\ DOMAIN n \subseteq Auras
      /\ \A b \in DOMAIN n : n[b] \in AuraObjects
  BY <1>3, <1>5, <1>8 DEF AurasOK, IsFunctionOn
<1> HIDE DEF n
<1>10. AurasOK(auraMap')
  BY <1>3, <1>5, <1>7, <1>9, ReplaceAuras
<1>11. OthersOK' /\ castingSpell' = castingSpell
  BY <1>1, <1>5, <1>10 DEF OthersOK, Inv, player
<1> DEFINE q == FirstEvents(x, f, p)
<1>12. \/ q = << >>
       \/ Len(q) = 1 /\ Queueable(q[1])
       \/ Len(q) = 2 /\ Queueable(q[1]) /\ Queueable(q[2])
  BY <1>3, <1>4, <1>5, <1>6, FirstEventsAreQueueable
<1> HIDE DEF q
<1> QED
  BY <1>3, <1>7, <1>11, <1>12, QueueAndReturnKeepsInv DEF q

-----------------------------------------------------------------------------
(* Scripts and the loop.                                                      *)

\* CastSpellByName and UnitApplyAura, whichever script calls them.
LEMMA QueueKeepsInv ==
  ASSUME Inv, NEW obj, GoodObject(obj), ~IsTick(obj), Queue(obj),
         budget > 0, budget' = budget - 1,
         UNCHANGED <<gameTime, exitable, pc, current, player, auras>>
  PROVE  Inv' /\ AllStay
<1>1. PICK y \in Fresh(DOMAIN heap) :
        /\ eventMap' = Enqueue(eventMap, gameTime, y)
        /\ heap' = New(heap, y, obj)
  BY DEF Queue
<1>2. gameTime \in Nat /\ gameTime <= gameTime /\ exitable \in BOOLEAN
  BY DEF Inv, ClockOK
<1>3. castingSpell' = castingSpell /\ gameTime' = gameTime
  BY DEF player
<1>4. /\ SoundNow'
      /\ \A x : InFront(eventMap, gameTime, x) =>
           InFront(eventMap', gameTime, x) /\ heap'[x] = heap[x]
      /\ AllStay
  BY <1>1, <1>2, <1>3, AddStep
<1>5. OthersOK'
  BY ScriptAssumption DEF Inv, OthersOK, player, auras
<1> QED
  BY <1>2, <1>4, <1>5, ScriptStep

LEMMA CastSpellByNameKeepsInv ==
  ASSUME Inv, NEW call \in CastCalls, CastSpellByName(call[1], call[2])
  PROVE  Inv' /\ AllStay
<1> DEFINE obj == [type |-> "castPre", spell |-> call[1], target |-> call[2],
                   gcdRecovery |-> 0]
<1>1. call[1] \in Spells /\ call[2] \in Creatures
  BY ScriptAssumption
<1>2. obj \in CastEvents /\ obj.type = "castPre"
  BY <1>1 DEF CastEvents
<1>3. /\ Queue(obj) /\ budget > 0 /\ budget' = budget - 1
      /\ UNCHANGED <<gameTime, exitable, pc, current, player, auras>>
  BY DEF CastSpellByName, Call
<1> HIDE DEF obj
<1>4. GoodObject(obj) /\ ~IsTick(obj)
  BY <1>2 DEF GoodObject, EventObjects, IsTick
<1> QED
  BY <1>3, <1>4, QueueKeepsInv

LEMMA UnitApplyAuraKeepsInv ==
  ASSUME Inv, NEW call \in ApplyCalls, UnitApplyAura(call)
  PROVE  Inv' /\ AllStay
<1>1. call \in ApplyEvents /\ HastedTimes(call.fade) \subseteq Nat
  BY ScriptAssumption, FadeAssumption
<1>2. GoodObject(call) /\ ~IsTick(call)
  BY <1>1 DEF GoodObject, EventObjects, IsTick, ApplyEvents
<1>3. /\ Queue(call) /\ budget > 0 /\ budget' = budget - 1
      /\ UNCHANGED <<gameTime, exitable, pc, current, player, auras>>
  BY DEF UnitApplyAura, Call
<1> QED
  BY <1>2, <1>3, QueueKeepsInv

\* The other calls of the API add no event.
LEMMA OtherCallsKeepsInv ==
  ASSUME Inv, \/ StopCasting \/ FinalizeCalculation
              \/ \E n \in SleepTimes : PlayerSleep(n)
  PROVE  Inv' /\ AllStay
<1>1. /\ UNCHANGED <<eventMap, heap, gameTime, pc, current>>
      /\ budget > 0 /\ budget' = budget - 1
      /\ UNCHANGED <<spellCooldown, auraMap, guidCounter>>
      /\ castingSpell' \in {castingSpell, Null} /\ exitable' \in BOOLEAN
  BY DEF StopCasting, FinalizeCalculation, PlayerSleep, Call, eventSystem,
         player, auras, Inv, ClockOK
<1>2. globalCooldown' \in Nat
  <2>1. gameTime \in Nat /\ globalCooldown \in Nat
    BY DEF Inv, ClockOK, OthersOK
  <2>2. globalCooldown' = globalCooldown \/ \E n \in SleepTimes : globalCooldown' = gameTime + n
    BY DEF StopCasting, FinalizeCalculation, PlayerSleep, player
  <2> QED
    BY <2>1, <2>2, ScriptAssumption
<1>3. OthersOK'
  BY <1>1, <1>2, ScriptAssumption DEF Inv, OthersOK
<1>4. SoundNow'
  BY <1>1 DEF Inv, SoundNow, Sound, GoodCast
<1>5. AllStay
  BY <1>1 DEF AllStay, Stays
<1> QED
  BY <1>1, <1>3, <1>4, <1>5, ScriptStep

LEMMA LoopKeepsInv ==
  ASSUME Inv, BeginLoop \/ StartLoop \/ Stop \/ EndIdle \/ Terminated
  PROVE  Inv' /\ AllStay
<1>1. /\ UNCHANGED <<eventSystem, current, heap, player, auras, budget>>
      /\ pc \notin Hooks /\ pc' \notin Hooks /\ pc' \in Control
  BY DEF BeginLoop, StartLoop, Stop, EndIdle, Terminated, vars, eventSystem,
         player, auras, Hooks, Control, Scripts
<1>2. SoundNow' /\ OthersOK' /\ AllStay
  BY <1>1, SoundStays, OthersStay DEF eventSystem, player, auras
<1> QED
  BY <1>1, <1>2 DEF Inv, ClockOK, HandlerRuns, eventSystem

\* The clock never passes an event that waits.
LEMMA AdvanceKeepsInv ==
  ASSUME Inv, Advance
  PROVE  Inv' /\ AllStay
<1>1. /\ pc = "batch" /\ ~HasDue(eventMap, gameTime)
      /\ UNCHANGED <<eventMap, exitable, current, heap, player, auras, budget>>
      /\ pc' = AfterProcessEvent
  BY DEF Advance
<1>2. /\ gameTime \in Nat /\ globalCooldown \in Nat
      /\ GoodMap(eventMap, gameTime)
  BY DEF Inv, ClockOK, OthersOK, SoundNow, Sound
<1>3. Wait \in Nat
  BY <1>2 DEF Wait
<1>4. DOMAIN eventMap \subseteq Nat
  BY <1>2 DEF GoodMap, IsEventMap
<1>5. gameTime' \in Nat /\ \A t \in DOMAIN eventMap : gameTime' <= t
  <2>1. CASE eventMap = EmptyMap /\ gameTime' = gameTime + Wait
    BY <1>2, <1>3, <2>1 DEF EmptyMap
  <2>2. ASSUME NEW t \in DOMAIN eventMap, IsFirst(eventMap, t),
               gameTime' = IF Wait # 0 /\ gameTime + Wait < t
                             THEN gameTime + Wait ELSE t
        PROVE  gameTime' \in Nat /\ \A u \in DOMAIN eventMap : gameTime' <= u
    <3>1. t \in Nat /\ \A u \in DOMAIN eventMap : t <= u /\ u \in Nat
      BY <1>4, <2>2 DEF IsFirst
    <3> QED
      BY <1>2, <1>3, <2>2, <3>1
  <2> QED
    BY <2>1, <2>2 DEF Advance
<1>6. GoodMap(eventMap, gameTime')
  BY <1>2, <1>5 DEF GoodMap
<1>7. SoundNow'
  BY <1>1, <1>6 DEF Inv, SoundNow, Sound, player
<1>8. OthersOK'
  BY <1>1, OthersStay DEF player, auras
<1>9. pc' \in {"idle", "loop"}
  BY <1>1 DEF AfterProcessEvent
<1>10. ClockOK' /\ HandlerRuns'
  BY <1>1, <1>5, <1>9 DEF Inv, ClockOK, HandlerRuns, Hooks, Control, Scripts
<1>11. AllStay
  BY <1>1 DEF AllStay, Stays
<1> QED
  BY <1>7, <1>8, <1>10, <1>11 DEF Inv

-----------------------------------------------------------------------------
LEMMA SpellNextKeepsInv ==
  ASSUME Inv, SpellNext
  PROVE  Inv' /\ Undisturbed
<1>1. CASE FinishPreCasting
  <2>1. PICK g \in GcdTimes :
          \/ MissChannel(g)
          \/ \E c \in CastTimes(heap[current].spell) :
               StartCast(g, c) \/ StartChannel(g, c)
    BY <1>1 DEF FinishPreCasting
  <2> QED
    BY <2>1, MissChannelKeepsInv, StartCastKeepsInv, StartChannelKeepsInv
<1>2. CASE FinishPostCasting \/ FinishPreChannel \/ FinishPostChannel
  BY <1>2, FinishPostCastingKeepsInv, FinishPreChannelKeepsInv,
     FinishPostChannelKeepsInv
<1>3. ASSUME NEW x \in DOMAIN heap,
             \/ RejectCast(x) \/ BeginCast(x)
             \/ AbandonCast(x) \/ MissCast(x) \/ HitCast(x)
             \/ SkipTick(x) \/ BeginTick(x) \/ MissTick(x) \/ HitTick(x)
      PROVE  Inv' /\ Undisturbed
  BY <1>3, RejectCastKeepsInv, MissCastKeepsInv, BeginKeepsInv, HitKeepsInv,
     AllStayUndisturbed
<1> QED
  BY <1>1, <1>2, <1>3 DEF SpellNext

LEMMA AuraNextKeepsInv ==
  ASSUME Inv, AuraNext
  PROVE  Inv' /\ Undisturbed
<1>1. CASE RefreshAura \/ NewAura \/ FinishFade \/ FinishPeriodic
  BY <1>1, RefreshAuraKeepsInv, NewAuraKeepsInv, FinishFadeKeepsInv,
     FinishPeriodicKeepsInv
<1>2. ASSUME NEW x \in DOMAIN heap,
             \/ BeginApplication(x)
             \/ DropRemoval(x) \/ PostponeRemoval(x) \/ BeginFade(x)
             \/ DropTick(x) \/ BeginPeriodic(x)
      PROVE  Inv' /\ Undisturbed
  BY <1>2, BeginKeepsInv, DropKeepsInv, PostponeRemovalKeepsInv,
     AllStayUndisturbed
<1> QED
  BY <1>1, <1>2 DEF AuraNext

\* A step of the engine, of a script or of nobody keeps the invariant, and
\* touches no event but the one it finishes.
LEMMA NextKeepsInv == Inv /\ [Next]_vars => Inv' /\ Undisturbed
<1> SUFFICES ASSUME Inv, [Next]_vars PROVE Inv' /\ Undisturbed
  OBVIOUS
<1>1. CASE SpellNext
  BY <1>1, SpellNextKeepsInv
<1>2. CASE AuraNext
  BY <1>2, AuraNextKeepsInv
<1>3. CASE ScriptNext
  BY <1>3, CastSpellByNameKeepsInv, UnitApplyAuraKeepsInv, OtherCallsKeepsInv,
     AllStayUndisturbed DEF ScriptNext
<1>4. CASE Advance
  BY <1>4, AdvanceKeepsInv, AllStayUndisturbed
<1>5. CASE BeginLoop \/ StartLoop \/ Stop \/ EndIdle \/ Terminated
  BY <1>5, LoopKeepsInv, AllStayUndisturbed
<1>6. CASE UNCHANGED vars
  <2>1. SoundNow' /\ OthersOK' /\ Undisturbed
    BY <1>6, SoundStays, OthersStay, AllStayUndisturbed DEF vars
  <2> QED
    BY <1>6, <2>1 DEF vars, Inv, ClockOK, HandlerRuns
<1> QED
  BY <1>1, <1>2, <1>3, <1>4, <1>5, <1>6 DEF Next, Engine

-----------------------------------------------------------------------------
(* Routines are entered, left and called from one thread.                     *)

LEMMA ReturnLeavesHook ==
  ASSUME NEW m, Return(m)
  PROVE  pc' \notin Hooks /\ current' = Null
BY DEF Return, AfterProcessEvent, Hooks

LEMMA NewAuraLeavesHook ==
  ASSUME NewAura
  PROVE  pc' \notin Hooks
<1>1. PICK x, f, p : QueueAndReturn(x, FirstEvents(x, f, p))
  BY DEF NewAura
<1> DEFINE q == FirstEvents(x, f, p)
<1>2. q = << >> \/ Len(q) = 1 \/ Len(q) = 2
  BY FirstEventsAre
<1> HIDE DEF q
<1>3. \E m : Return(m)
  BY <1>1, <1>2 DEF QueueAndReturn, ReturnAndDelete, q
<1> QED
  BY <1>3, ReturnLeavesHook

\* A thread that is in a routine was there before, and scripts run, or has just
\* called it.
LEMMA InHook ==
  ASSUME [Next]_vars, pc' \in Hooks
  PROVE  \/ /\ ScriptNext \/ UNCHANGED vars
            /\ UNCHANGED <<pc, current, auras>>
         \/ \E x \in DOMAIN heap :
              \/ BeginCast(x) \/ BeginTick(x) \/ HitCast(x) \/ HitTick(x)
              \/ BeginApplication(x) \/ BeginFade(x) \/ BeginPeriodic(x)
<1>1. CASE ScriptNext
  BY <1>1 DEF ScriptNext, CastSpellByName, UnitApplyAura, StopCasting, PlayerSleep,
         FinalizeCalculation, auras
<1>2. CASE UNCHANGED vars
  BY <1>2 DEF vars, auras
<1>3. CASE BeginLoop \/ StartLoop \/ Stop \/ Advance \/ EndIdle \/ Terminated
  BY <1>2, <1>3 DEF BeginLoop, StartLoop, Stop, Advance, EndIdle, Terminated, Hooks,
         AfterProcessEvent
<1>4. \A m : ~Return(m)
  BY ReturnLeavesHook
<1>5. \A x, m : ~ReturnAndDelete(x, m) /\ ~ReturnAndKeep(m)
  BY <1>4 DEF ReturnAndDelete, ReturnAndKeep
<1>6. ~NewAura
  BY NewAuraLeavesHook
<1>7. CASE SpellNext
  BY ZenonT(60), <1>4, <1>5, <1>7 DEF SpellNext, RejectCast, AbandonCast, MissCast, SkipTick,
     MissTick, FinishPreCasting, MissChannel, StartCast, StartChannel,
     FinishPostCasting, FinishPreChannel, FinishPostChannel
<1>8. CASE AuraNext
  BY Zenon, <1>5, <1>6, <1>8 DEF AuraNext, DropRemoval, PostponeRemoval, DropTick,
     RefreshAura, FinishFade, FinishPeriodic
<1> QED
  BY <1>1, <1>2, <1>3, <1>7, <1>8 DEF Next, Engine

\* What the steps do to the thread and to the clock.
LEMMA KindsOfSteps ==
  ASSUME [Next]_vars
  PROVE  \/ Advance \/ BeginLoop \/ StartLoop \/ Stop \/ EndIdle
         \/ \E m : Return(m)
         \/ UNCHANGED <<pc, gameTime>>
         \/ pc = "batch" /\ pc' \in Hooks /\ UNCHANGED gameTime
<1>1. CASE ScriptNext \/ Terminated \/ UNCHANGED vars
  BY <1>1 DEF ScriptNext, CastSpellByName, UnitApplyAura, StopCasting, PlayerSleep,
     FinalizeCalculation, Terminated, vars, eventSystem
<1>2. ASSUME NEW x, \E m : ReturnAndDelete(x, m) \/ ReturnAndKeep(m)
      PROVE  \E m : Return(m)
  BY <1>2 DEF ReturnAndDelete, ReturnAndKeep
<1>3. CASE NewAura
  <2>1. PICK x, f, p : QueueAndReturn(x, FirstEvents(x, f, p))
    BY <1>3 DEF NewAura
  <2> DEFINE q == FirstEvents(x, f, p)
  <2>2. q = << >> \/ Len(q) = 1 \/ Len(q) = 2
    BY FirstEventsAre
  <2> HIDE DEF q
  <2> QED
    BY Zenon, <1>2, <2>1, <2>2 DEF QueueAndReturn, q
<1>4. ASSUME NEW x \in DOMAIN heap,
             \/ BeginCast(x) \/ BeginTick(x) \/ HitCast(x) \/ HitTick(x)
             \/ BeginApplication(x) \/ BeginFade(x) \/ BeginPeriodic(x)
      PROVE  pc = "batch" /\ pc' \in Hooks /\ UNCHANGED gameTime
  BY SMTT(40), <1>4 DEF BeginCast, BeginTick, HitCast, HitTick, BeginApplication, BeginFade,
     BeginPeriodic, CallHook, IsNext, Hooks, eventSystem
<1>5. CASE FinishPreCasting \/ FinishPostCasting \/ FinishPreChannel \/ FinishPostChannel
  BY <1>2, <1>5 DEF FinishPreCasting, MissChannel, StartCast, StartChannel,
     FinishPostCasting, FinishPreChannel, FinishPostChannel
<1>6. CASE SpellNext
  BY SMTT(30), <1>2, <1>4, <1>5, <1>6 DEF SpellNext, RejectCast, AbandonCast, MissCast, SkipTick,
     MissTick
<1>7. CASE AuraNext
  BY ZenonT(60), <1>2, <1>3, <1>4, <1>7 DEF AuraNext, DropRemoval, PostponeRemoval, DropTick,
     RefreshAura, FinishFade, FinishPeriodic
<1> QED
  BY <1>1, <1>6, <1>7 DEF Next, Engine

\* The clock does not go back.
LEMMA ClockGoesOn ==
  ASSUME Inv, [Next]_vars
  PROVE  gameTime \in Nat /\ gameTime' \in Nat /\ gameTime <= gameTime'
<1>1. gameTime \in Nat /\ globalCooldown \in Nat /\ GoodMap(eventMap, gameTime)
  BY DEF Inv, ClockOK, OthersOK, SoundNow, Sound
<1>2. gameTime' \in Nat
  BY NextKeepsInv DEF Inv, ClockOK
<1>3. CASE Advance
  <2>1. Wait \in Nat
    BY <1>1 DEF Wait
  <2>2. \A t \in DOMAIN eventMap : t \in Nat /\ gameTime <= t
    BY <1>1 DEF GoodMap, IsEventMap
  <2>3. \/ gameTime' = gameTime + Wait
        \/ \E t \in DOMAIN eventMap : gameTime' = t
    BY <1>3 DEF Advance
  <2> QED
    BY <1>1, <1>2, <2>1, <2>2, <2>3
<1>4. CASE gameTime' = gameTime
  BY <1>1, <1>4
<1> QED
  BY <1>3, <1>4, KindsOfSteps DEF BeginLoop, StartLoop, Stop, EndIdle, Return, eventSystem

\* While something is left to do in an instant, the clock stands and the loop of
\* ProcessEvent goes on.
LEMMA InstantGoesOn ==
  ASSUME Inv, [Next]_vars, NEW y, IsDueAt(eventMap, y, gameTime) \/ IsDueAt(eventMap', y, gameTime)
  PROVE  /\ gameTime' = gameTime
         /\ pc \in Hooks \cup {"batch"} /\ IsDueAt(eventMap', y, gameTime) =>
              pc' \in Hooks \cup {"batch"}
<1>1. gameTime \in Nat /\ gameTime <= gameTime
  BY DEF Inv, ClockOK
<1>2. ~Advance
  BY <1>1 DEF Advance, HasDue, IsDueAt
<1>3. IsDueAt(eventMap', y, gameTime) => HasDue(eventMap', gameTime)
  BY <1>1 DEF HasDue, IsDueAt
<1>4. CASE BeginLoop \/ StartLoop \/ Stop \/ EndIdle
  BY <1>4 DEF BeginLoop, StartLoop, Stop, EndIdle, Hooks, eventSystem
<1>5. CASE \E m : Return(m)
  BY SMTT(40), <1>3, <1>5 DEF Return
<1> QED
  BY <1>2, <1>4, <1>5, KindsOfSteps

-----------------------------------------------------------------------------
(* Who queues applications, and who changes auras.                            *)

\* From a routine the engine goes on with the rest of its handler.
LEMMA EngineInHook ==
  ASSUME Engine, pc \in Hooks
  PROVE  /\ pc = "PreCastingSpell" => FinishPreCasting
         /\ pc = "PostCastingSpell" => FinishPostCasting
         /\ pc = "PreSpellChannel" => FinishPreChannel
         /\ pc = "PostSpellChannel" => FinishPostChannel
         /\ pc = "AuraApplication" => RefreshAura \/ NewAura
         /\ pc = "AuraFade" => FinishFade
         /\ pc = "PeriodicEvent" => FinishPeriodic
<1>1. \A x : ~IsNext(x)
  BY DEF IsNext, Hooks
<1>2. SpellNext => \/ FinishPreCasting \/ FinishPostCasting
                   \/ FinishPreChannel \/ FinishPostChannel
  BY Zenon, <1>1 DEF SpellNext, RejectCast, BeginCast, AbandonCast, MissCast, HitCast,
     SkipTick, BeginTick, MissTick, HitTick
<1>3. AuraNext => RefreshAura \/ NewAura \/ FinishFade \/ FinishPeriodic
  BY Zenon, <1>1 DEF AuraNext, BeginApplication, DropRemoval, PostponeRemoval,
     BeginFade, DropTick, BeginPeriodic
<1>4. ~(BeginLoop \/ StartLoop \/ Stop \/ Advance \/ EndIdle)
  BY DEF BeginLoop, StartLoop, Stop, Advance, EndIdle, Hooks
<1>5. \/ FinishPreCasting \/ FinishPostCasting \/ FinishPreChannel \/ FinishPostChannel
      \/ RefreshAura \/ NewAura \/ FinishFade \/ FinishPeriodic
  BY <1>2, <1>3, <1>4 DEF Engine
<1> QED
  BY Zenon, <1>5 DEF FinishPreCasting, MissChannel, StartCast, StartChannel,
     FinishPostCasting, FinishPreChannel, FinishPostChannel, RefreshAura, NewAura,
     FinishFade, FinishPeriodic

\* The handlers that leave these routines.
LEMMA LeavingHook ==
  ASSUME [Next]_vars, pc' # pc
  PROVE  /\ pc = "PreCastingSpell" => FinishPreCasting
         /\ pc = "AuraApplication" => RefreshAura \/ NewAura
         /\ pc = "PeriodicEvent" => FinishPeriodic
<1>1. ~ScriptNext /\ ~UNCHANGED vars
  BY DEF ScriptNext, CastSpellByName, UnitApplyAura, StopCasting, PlayerSleep,
     FinalizeCalculation, vars
<1>2. Engine \/ pc = "done"
  BY <1>1 DEF Next, Terminated
<1> QED
  BY <1>2, EngineInHook DEF Hooks

\* Who changes an aura.
LEMMA AurasChangedBy ==
  ASSUME [Next]_vars
  PROVE  \/ UNCHANGED auraMap
         \/ \E x \in DOMAIN heap : HitCast(x) \/ HitTick(x)
         \/ RefreshAura \/ NewAura \/ FinishFade
<1>1. CASE SpellNext
  BY <1>1 DEF SpellNext, RejectCast, BeginCast, AbandonCast, MissCast, SkipTick,
     BeginTick, MissTick, FinishPreCasting, MissChannel, StartCast, StartChannel,
     FinishPostCasting, FinishPreChannel, FinishPostChannel, auras
<1>2. CASE AuraNext
  BY <1>2 DEF AuraNext, BeginApplication, DropRemoval, PostponeRemoval, BeginFade,
     DropTick, BeginPeriodic, FinishPeriodic, auras
<1>3. CASE ScriptNext
  BY <1>3 DEF ScriptNext, CastSpellByName, UnitApplyAura, StopCasting, PlayerSleep,
     FinalizeCalculation, auras
<1>4. CASE \/ Advance \/ UNCHANGED vars
           \/ BeginLoop \/ StartLoop \/ Stop \/ EndIdle \/ Terminated
  BY <1>4 DEF Advance, vars, BeginLoop, StartLoop, Stop, EndIdle, Terminated, auras
<1> QED
  BY <1>1, <1>2, <1>3, <1>4 DEF Next, Engine

IsApplication(x) == x \in DOMAIN heap /\ heap[x].type = "apply"

\* The applications after a step were there before it, due when they were.
ApplicationsStay == \A y : IsApplication(y)' => y \in DOMAIN heap /\ Stays(y)

\* So were the removals.
AuraKinds == {"apply", "remove"}

AuraEventsStay ==
  \A y \in DOMAIN heap' : heap'[y].type \in AuraKinds => y \in DOMAIN heap /\ Stays(y)

LEMMA OthersAreNoAuraEvents ==
  ASSUME Undisturbed, NEW x, InFront(eventMap, gameTime, x),
         \A y \in DOMAIN heap' : heap'[y].type \in AuraKinds => y \in DOMAIN heap /\ y # x
  PROVE  AuraEventsStay
BY DEF Undisturbed, Finishes, InFront, AuraEventsStay, AuraKinds

LEMMA AllStayNoAuraEvent ==
  ASSUME AllStay,
         \A y \in DOMAIN heap' : heap'[y].type \in AuraKinds => y \in DOMAIN heap
  PROVE  AuraEventsStay
BY DEF AllStay, AuraEventsStay, AuraKinds

\* The event in front is deleted.
LEMMA DeletedIsNoAuraEvent ==
  ASSUME Undisturbed, NEW x, InFront(eventMap, gameTime, x),
         ReturnAndDelete(x, eventMap)
  PROVE  AuraEventsStay
<1>1. DOMAIN heap' = DOMAIN heap \ {x}
  BY DEF ReturnAndDelete, Delete
<1> QED
  BY <1>1, OthersAreNoAuraEvents

\* The event in front is kept, and it is neither.
LEMMA KeptIsNoAuraEvent ==
  ASSUME Undisturbed, NEW x, InFront(eventMap, gameTime, x),
         UNCHANGED heap, heap[x].type \notin AuraKinds
  PROVE  AuraEventsStay
BY OthersAreNoAuraEvents

\* A cast or the second run of a tick begins.
LEMMA StartedIsNoAuraEvent ==
  ASSUME Inv, Undisturbed,
         \/ FinishPreChannel
         \/ \E g \in GcdTimes : \E c \in CastTimes(heap[current].spell) :
              StartCast(g, c) \/ StartChannel(g, c)
  PROVE  AuraEventsStay
<1>1. pc \in {"PreSpellChannel", "PreCastingSpell"}
  BY DEF FinishPreChannel, StartCast, StartChannel
<1>2. /\ InFront(eventMap, gameTime, current) /\ current \in DOMAIN heap
      /\ heap[current] \in EventObjects
      /\ heap[current].type \in {"castPre", "tickPre"}
  BY <1>1, CurrentIsInFront DEF Hooks, HookType, GoodObject
<1>3. heap[current] \in CastEvents \cup TickEvents
  BY <1>2, KindsOfObjects DEF IsTick
<1>4. CASE FinishPreChannel
  <2>1. heap' = [heap EXCEPT ![current].type = "tickPost"]
    BY <1>4 DEF FinishPreChannel
  <2>2. DOMAIN heap' = DOMAIN heap /\ heap'[current].type = "tickPost"
    BY <1>2, <1>3, <2>1 DEF CastEvents, TickEvents
  <2> QED
    BY <1>2, <2>2, OthersAreNoAuraEvents DEF AuraKinds
<1>5. ASSUME NEW g \in GcdTimes, NEW c \in CastTimes(heap[current].spell),
             StartCast(g, c)
      PROVE  AuraEventsStay
  <2>1. heap' = [heap EXCEPT ![current] = CastPost(heap[current], gameTime + g)]
    BY <1>5 DEF StartCast, CastPost
  <2>2. DOMAIN heap' = DOMAIN heap /\ heap'[current].type = "castPost"
    BY <1>2, <1>3, <2>1 DEF CastPost, CastEvents, TickEvents
  <2> QED
    BY <1>2, <2>2, OthersAreNoAuraEvents DEF AuraKinds
<1>6. ASSUME NEW g \in GcdTimes, NEW c \in CastTimes(heap[current].spell),
             StartChannel(g, c)
      PROVE  AuraEventsStay
  <2>1. PICK k \in Allocations(SpellData[heap[current].spell].ticks) :
          heap' = [y \in DOMAIN heap \cup {k[i] : i \in DOMAIN k} |->
                     IF y = current THEN CastPost(heap[current], gameTime + g)
                     ELSE IF y \in DOMAIN heap THEN heap[y]
                     ELSE TickEvent(heap[current].spell, heap[current].target,
                                    current)]
    BY <1>6 DEF StartChannel, CastPost
  <2>2. heap'[current] = CastPost(heap[current], gameTime + g)
    BY <1>2, <2>1
  <2>3. heap'[current].type = "castPost"
    BY <1>3, <2>2 DEF CastPost, CastEvents, TickEvents
  <2>4. \A y \in DOMAIN heap' : y \notin DOMAIN heap => heap'[y].type = "tickPre"
    BY <1>2, <2>1 DEF TickEvent
  <2>5. \A y \in DOMAIN heap' : heap'[y].type \in AuraKinds => y \in DOMAIN heap /\ y # current
    BY <2>3, <2>4 DEF AuraKinds
  <2> QED
    BY <1>2, <2>5, OthersAreNoAuraEvents
<1> QED
  BY <1>4, <1>5, <1>6

LEMMA AuraEventsStayApplications == AuraEventsStay => ApplicationsStay
BY DEF AuraEventsStay, AuraKinds, ApplicationsStay, IsApplication

LEMMA OthersAreNoApplications ==
  ASSUME Undisturbed, NEW x, InFront(eventMap, gameTime, x),
         \A y \in DOMAIN heap' : heap'[y].type = "apply" => y \in DOMAIN heap /\ y # x
  PROVE  ApplicationsStay
BY DEF Undisturbed, Finishes, InFront, ApplicationsStay, IsApplication

\* A new aura is given a removal and a tick.
LEMMA NewAuraIsNoApplication ==
  ASSUME Inv, Undisturbed, NewAura
  PROVE  ApplicationsStay
<1> DEFINE x == current
<1>1. InFront(eventMap, gameTime, x)
  BY ApplicationFacts DEF NewAura
<1>2. PICK f, p : QueueAndReturn(x, FirstEvents(x, f, p))
  BY DEF NewAura
<1> DEFINE q == FirstEvents(x, f, p)
<1>3. \/ q = << >>
      \/ Len(q) = 1 /\ q[1].event.type # "apply"
      \/ Len(q) = 2 /\ q[1].event.type # "apply" /\ q[2].event.type # "apply"
  <2>1. \A r : Len(<<r>>) = 1 /\ <<r>>[1] = r
    OBVIOUS
  <2>2. /\ FirstRemoval(x, f).event.type = "remove"
        /\ FirstTick(x, p).event.type = "periodic"
    BY DEF FirstRemoval, FirstTick
  <2>3. \/ q = << >> \/ q = <<FirstRemoval(x, f)>> \/ q = <<FirstTick(x, p)>>
        \/ Len(q) = 2 /\ q[1] = FirstRemoval(x, f) /\ q[2] = FirstTick(x, p)
    BY FirstEventsAre
  <2> HIDE DEF q
  <2> QED
    BY <2>1, <2>2, <2>3
<1>4. Len(<< >>) = 0
  OBVIOUS
<1> HIDE DEF q, x
<1>5. CASE q = << >>
  <2>1. ReturnAndDelete(x, eventMap)
    BY <1>2, <1>5 DEF QueueAndReturn, q
  <2> QED
    BY <1>1, <2>1, DeletedIsNoAuraEvent, AuraEventsStayApplications
<1>6. CASE Len(q) = 1 /\ q[1].event.type # "apply"
  <2>1. PICK y : heap' = Delete(New(heap, y, q[1].event), x)
    BY <1>2, <1>4, <1>6 DEF QueueAndReturn, q
  <2>2. \A z \in DOMAIN heap' : heap'[z].type = "apply" => z \in DOMAIN heap /\ z # x
    BY <1>6, <2>1 DEF New, Delete
  <2> QED
    BY <1>1, <2>2, OthersAreNoApplications
<1>7. CASE Len(q) = 2 /\ q[1].event.type # "apply" /\ q[2].event.type # "apply"
  <2>1. \E y \in Fresh(DOMAIN heap) : \E w \in Fresh(DOMAIN heap \cup {y}) :
          heap' = Delete(New(New(heap, y, q[1].event), w, q[2].event), x)
    BY <1>2, <1>4, <1>7 DEF QueueAndReturn, q
  <2>2. PICK y, w : heap' = Delete(New(New(heap, y, q[1].event), w, q[2].event), x)
    BY <2>1
  <2>3. \A z \in DOMAIN heap' : heap'[z].type = "apply" => z \in DOMAIN heap /\ z # x
    BY SMTT(30), <1>7, <2>2 DEF New, Delete
  <2> QED
    BY <1>1, <2>3, OthersAreNoApplications
<1> QED
  BY <1>3, <1>5, <1>6, <1>7

LEMMA FinishingIsNoAuraEvent ==
  ASSUME Inv, Undisturbed,
         \/ FinishPostCasting \/ FinishPostChannel \/ RefreshAura \/ FinishFade
         \/ FinishPeriodic \/ \E g \in GcdTimes : MissChannel(g)
  PROVE  AuraEventsStay
<1>1. pc \in Hooks
  BY ZenonT(60) DEF FinishPostCasting, FinishPostChannel, RefreshAura, FinishFade, FinishPeriodic,
     MissChannel, Hooks
<1>2. InFront(eventMap, gameTime, current) /\ heap[current].type = HookType[pc]
  BY <1>1, CurrentIsInFront
<1>3. CASE FinishPeriodic
  <2>1. heap[current].type = "periodic"
    BY <1>2, <1>3 DEF FinishPeriodic, HookType
  <2>2. UNCHANGED heap \/ ReturnAndDelete(current, eventMap)
    BY <1>3 DEF FinishPeriodic, ReturnAndKeep
  <2> QED
    BY <1>2, <2>1, <2>2, KeptIsNoAuraEvent, DeletedIsNoAuraEvent DEF AuraKinds
<1>4. CASE ReturnAndDelete(current, eventMap)
  BY <1>2, <1>4, DeletedIsNoAuraEvent
<1>5. CASE FinishPostCasting \/ FinishPostChannel \/ FinishFade
  BY ZenonT(60), <1>4, <1>5 DEF FinishPostCasting, FinishPostChannel, FinishFade
<1>6. CASE RefreshAura
  BY ZenonT(60), <1>4, <1>6 DEF RefreshAura
<1>7. CASE \E g \in GcdTimes : MissChannel(g)
  BY <1>4, <1>7 DEF MissChannel
<1> QED
  BY ZenonT(60), <1>3, <1>5, <1>6, <1>7

LEMMA DroppingIsNoAuraEvent ==
  ASSUME Inv, Undisturbed, NEW x \in DOMAIN heap,
         \/ RejectCast(x) \/ AbandonCast(x) \/ MissCast(x) \/ SkipTick(x)
         \/ MissTick(x) \/ DropRemoval(x) \/ DropTick(x)
  PROVE  AuraEventsStay
<1>1. IsNext(x)
  BY DEF RejectCast, AbandonCast, MissCast, SkipTick, MissTick, DropRemoval, DropTick
<1>2. InFront(eventMap, gameTime, x)
  BY <1>1, NextIsInFront
<1>3. CASE ReturnAndDelete(x, eventMap)
  BY <1>2, <1>3, DeletedIsNoAuraEvent
<1> QED
  BY <1>3 DEF RejectCast, AbandonCast, MissCast, SkipTick, MissTick, DropRemoval,
     DropTick

\* What is new in the heap after a call, or after the spell of an event.
LEMMA QueuedIsNew ==
  ASSUME NEW obj, Queue(obj)
  PROVE  /\ DOMAIN heap \subseteq DOMAIN heap'
         /\ \A y \in DOMAIN heap' : y \notin DOMAIN heap => heap'[y] = obj
BY DEF Queue, New

LEMMA SpellAuraIsNew ==
  ASSUME NEW x \in DOMAIN heap, QueueSpellAura(x)
  PROVE  \A y \in DOMAIN heap' : y \notin DOMAIN heap =>
           /\ SpellData[heap[x].spell].aura # Null
           /\ heap'[y].aura = SpellData[heap[x].spell].aura
           /\ heap'[y].type = "apply" => heap'[y] = Application(x)
<1> DEFINE a == SpellData[heap[x].spell].aura
<1>1. CASE a = Null
  BY <1>1 DEF QueueSpellAura
<1>2. CASE a # Null
  <2>1. PICK f \in ForcedRemovals(x) :
           IF f = << >>
             THEN \E y : heap' = New(heap, y, Application(x))
             ELSE \E z, y : heap' = New(New(heap, z, f[1]), y, Application(x))
    BY <1>2 DEF QueueSpellAura
  <2>2. f # << >> => f[1].type = "remove" /\ f[1].aura = a
    BY DEF ForcedRemovals
  <2>3. Application(x).aura = a
    BY DEF Application
  <2> QED
    BY ZenonT(40), <1>2, <2>1, <2>2, <2>3 DEF New
<1> QED
  BY <1>1, <1>2

\* Removals and applications come from the spells of casts and ticks, from the
\* scripts and from new auras.
LEMMA AuraEventsCome ==
  ASSUME Inv, [Next]_vars
  PROVE  \/ AuraEventsStay
         \/ NewAura \/ \E x \in DOMAIN heap : PostponeRemoval(x)
         \/ /\ AllStay
            /\ \E x \in DOMAIN heap :
                 /\ HitCast(x) \/ HitTick(x)
                 /\ \A y \in DOMAIN heap' : y \notin DOMAIN heap =>
                      /\ SpellData[heap[x].spell].aura # Null
                      /\ heap'[y].aura = SpellData[heap[x].spell].aura
                      /\ heap'[y].type = "apply" => heap'[y] = Application(x)
         \/ /\ AllStay
            /\ \E call \in ApplyCalls :
                 /\ UnitApplyAura(call)
                 /\ \A y \in DOMAIN heap' : y \notin DOMAIN heap => heap'[y] = call
<1>1. Undisturbed
  BY NextKeepsInv
<1>2. ASSUME NEW x \in DOMAIN heap, HitCast(x) \/ HitTick(x)
      PROVE  /\ AllStay
             /\ \A y \in DOMAIN heap' : y \notin DOMAIN heap =>
                  /\ SpellData[heap[x].spell].aura # Null
                  /\ heap'[y].aura = SpellData[heap[x].spell].aura
                  /\ heap'[y].type = "apply" => heap'[y] = Application(x)
  <2>1. AllStay
    BY <1>2, HitKeepsInv
  <2>2. QueueSpellAura(x)
    BY <1>2 DEF HitCast, HitTick
  <2> QED
    BY <2>1, <2>2, SpellAuraIsNew
<1>3. ASSUME NEW call \in ApplyCalls, UnitApplyAura(call)
      PROVE  /\ AllStay
             /\ \A y \in DOMAIN heap' : y \notin DOMAIN heap => heap'[y] = call
  BY <1>3, UnitApplyAuraKeepsInv, QueuedIsNew DEF UnitApplyAura
<1>4. ASSUME NEW x \in DOMAIN heap,
             \/ BeginCast(x) \/ BeginTick(x)
             \/ BeginApplication(x) \/ BeginFade(x) \/ BeginPeriodic(x)
      PROVE  AuraEventsStay
  <2>1. UNCHANGED heap
    BY <1>4 DEF BeginCast, BeginTick, BeginApplication, BeginFade, BeginPeriodic
  <2> QED
    BY <1>4, <2>1, BeginKeepsInv, AllStayNoAuraEvent
<1>5. CASE SpellNext
  <2>1. CASE FinishPreCasting
    <3>1. PICK g \in GcdTimes :
            \/ MissChannel(g)
            \/ \E c \in CastTimes(heap[current].spell) :
                 StartCast(g, c) \/ StartChannel(g, c)
      BY <2>1 DEF FinishPreCasting
    <3> QED
      BY <1>1, <3>1, FinishingIsNoAuraEvent, StartedIsNoAuraEvent
  <2>2. CASE FinishPreChannel
    BY <1>1, <2>2, StartedIsNoAuraEvent
  <2>3. CASE FinishPostCasting \/ FinishPostChannel
    BY <1>1, <2>3, FinishingIsNoAuraEvent
  <2>4. CASE \E x \in DOMAIN heap :
               \/ RejectCast(x) \/ AbandonCast(x) \/ MissCast(x)
               \/ SkipTick(x) \/ MissTick(x)
    BY <1>1, <2>4, DroppingIsNoAuraEvent
  <2>5. CASE \E x \in DOMAIN heap : BeginCast(x) \/ BeginTick(x)
    BY <1>4, <2>5
  <2>6. CASE \E x \in DOMAIN heap : HitCast(x) \/ HitTick(x)
    BY <1>2, <2>6
  <2> QED
    BY <1>5, <2>1, <2>2, <2>3, <2>4, <2>5, <2>6 DEF SpellNext
<1>6. CASE AuraNext
  <2>1. CASE RefreshAura \/ FinishFade \/ FinishPeriodic
    BY <1>1, <2>1, FinishingIsNoAuraEvent
  <2>2. CASE \E x \in DOMAIN heap : DropRemoval(x) \/ DropTick(x)
    BY <1>1, <2>2, DroppingIsNoAuraEvent
  <2>3. CASE \E x \in DOMAIN heap :
               BeginApplication(x) \/ BeginFade(x) \/ BeginPeriodic(x)
    BY <1>4, <2>3
  <2> QED
    BY <1>6, <2>1, <2>2, <2>3 DEF AuraNext
<1>7. CASE ScriptNext
  <2>1. ASSUME NEW call \in CastCalls, CastSpellByName(call[1], call[2])
        PROVE  AuraEventsStay
    <3>1. AllStay
      BY <2>1, CastSpellByNameKeepsInv
    <3>2. \A y \in DOMAIN heap' : y \notin DOMAIN heap => heap'[y].type = "castPre"
      BY <2>1, QueuedIsNew DEF CastSpellByName
    <3>3. \A y \in DOMAIN heap' : heap'[y].type \in AuraKinds => y \in DOMAIN heap
      BY <3>2 DEF AuraKinds
    <3> QED
      BY <3>1, <3>3, AllStayNoAuraEvent
  <2>2. CASE StopCasting \/ FinalizeCalculation \/ \E n \in SleepTimes : PlayerSleep(n)
    <3>1. UNCHANGED heap
      BY <2>2 DEF StopCasting, FinalizeCalculation, PlayerSleep
    <3> QED
      BY <2>2, <3>1, OtherCallsKeepsInv, AllStayNoAuraEvent
  <2> QED
    BY <1>3, <1>7, <2>1, <2>2 DEF ScriptNext
<1>8. CASE Advance
  <2>1. UNCHANGED heap
    BY <1>8 DEF Advance
  <2> QED
    BY <1>8, <2>1, AdvanceKeepsInv, AllStayNoAuraEvent
<1>9. CASE BeginLoop \/ StartLoop \/ Stop \/ EndIdle \/ Terminated \/ UNCHANGED vars
  <2>1. UNCHANGED <<heap, eventMap>>
    BY <1>9 DEF BeginLoop, StartLoop, Stop, EndIdle, Terminated, vars, eventSystem
  <2> QED
    BY <2>1, AllStayNoAuraEvent DEF AllStay, Stays
<1> QED
  BY <1>5, <1>6, <1>7, <1>8, <1>9 DEF Next, Engine

\* Applications come from the spells of casts and ticks and from the scripts.
LEMMA ApplicationsCome ==
  ASSUME Inv, [Next]_vars
  PROVE  \/ ApplicationsStay
         \/ /\ AllStay
            /\ \E x \in DOMAIN heap :
                 /\ HitCast(x) \/ HitTick(x)
                 /\ \A y : IsApplication(y)' /\ y \notin DOMAIN heap =>
                      /\ SpellData[heap[x].spell].aura # Null
                      /\ heap'[y] = Application(x)
         \/ /\ AllStay
            /\ \E call \in ApplyCalls :
                 /\ UnitApplyAura(call)
                 /\ \A y : IsApplication(y)' /\ y \notin DOMAIN heap => heap'[y] = call
<1>1. Undisturbed
  BY NextKeepsInv
<1>2. ASSUME NEW x \in DOMAIN heap, PostponeRemoval(x)
      PROVE  ApplicationsStay
  <2>1. UNCHANGED heap /\ heap[x].type = "remove" /\ IsNext(x)
    BY <1>2 DEF PostponeRemoval, ReturnAndKeep
  <2>2. InFront(eventMap, gameTime, x)
    BY <2>1, NextIsInFront
  <2> QED
    BY <1>1, <2>1, <2>2, OthersAreNoApplications
<1> QED
  BY <1>1, <1>2, AuraEventsCome, AuraEventsStayApplications, NewAuraIsNoApplication
     DEF IsApplication

-----------------------------------------------------------------------------
(* The order of the events in a list.                                         *)

\* In the list at t, y comes before x.
Before(m, t, y, x) ==
  t \in DOMAIN m /\ \E i, j \in DOMAIN m[t] : i < j /\ m[t][i] = y /\ m[t][j] = x

\* Every list of m is the beginning of the list of n at its time.
Extends(m, n) ==
  \A t \in DOMAIN m :
    /\ t \in DOMAIN n /\ m[t] \in Seq(Addr) /\ n[t] \in Seq(Addr)
    /\ DOMAIN m[t] \subseteq DOMAIN n[t]
    /\ \A i \in DOMAIN m[t] : n[t][i] = m[t][i]

LEMMA ExtendsItself ==
  ASSUME NEW m, IsEventMap(m, Addr)
  PROVE  Extends(m, m)
BY DEF Extends, IsEventMap

LEMMA AppendExtends ==
  ASSUME NEW l \in Seq(Addr), NEW y \in Addr
  PROVE  /\ Append(l, y) \in Seq(Addr) /\ DOMAIN l \subseteq DOMAIN Append(l, y)
         /\ \A i \in DOMAIN l : Append(l, y)[i] = l[i]
         /\ Len(l) + 1 \in DOMAIN Append(l, y) /\ Append(l, y)[Len(l) + 1] = y
OBVIOUS

LEMMA EnqueueExtends ==
  ASSUME NEW m, NEW n, Extends(m, n), NEW u, NEW y \in Addr
  PROVE  Extends(m, Enqueue(n, u, y))
<1> SUFFICES ASSUME NEW t \in DOMAIN m
             PROVE  LET l == Enqueue(n, u, y)[t]
                    IN  /\ t \in DOMAIN Enqueue(n, u, y) /\ l \in Seq(Addr)
                        /\ DOMAIN m[t] \subseteq DOMAIN l
                        /\ \A i \in DOMAIN m[t] : l[i] = m[t][i]
  BY DEF Extends
<1>1. /\ t \in DOMAIN n /\ n[t] \in Seq(Addr) /\ DOMAIN m[t] \subseteq DOMAIN n[t]
      /\ \A i \in DOMAIN m[t] : n[t][i] = m[t][i]
  BY DEF Extends
<1>2. CASE t = u
  <2>1. t \in DOMAIN Enqueue(n, u, y) /\ Enqueue(n, u, y)[t] = Append(n[t], y)
    BY <1>1, <1>2 DEF Enqueue, ListAt
  <2> QED
    BY <1>1, <2>1, AppendExtends
<1>3. CASE t # u
  <2>1. t \in DOMAIN Enqueue(n, u, y) /\ Enqueue(n, u, y)[t] = n[t]
    BY <1>1, <1>3 DEF Enqueue
  <2> QED
    BY <1>1, <2>1
<1> QED
  BY <1>2, <1>3

LEMMA TicksExtend ==
  ASSUME NEW m, IsEventMap(m, Addr), NEW s, NEW c, NEW n, NEW k \in [1..n -> Addr]
  PROVE  Extends(m, EnqueueTicks(m, s, c, k))
<1> DEFINE at == [i \in DOMAIN k |-> gameTime + TickDelay(s, c, i)]
           r == EnqueueTicks(m, s, c, k)
<1>1. \A t \in DOMAIN m :
        /\ t \in DOMAIN r
        /\ r[t] = IF \E i \in DOMAIN k : at[i] = t
                    THEN Append(m[t], k[CHOOSE i \in DOMAIN k : at[i] = t])
                    ELSE m[t]
  BY DEF EnqueueTicks, ListAt
<1> HIDE DEF r, at
<1> SUFFICES ASSUME NEW t \in DOMAIN m
             PROVE  /\ t \in DOMAIN r /\ m[t] \in Seq(Addr) /\ r[t] \in Seq(Addr)
                    /\ DOMAIN m[t] \subseteq DOMAIN r[t]
                    /\ \A i \in DOMAIN m[t] : r[t][i] = m[t][i]
  BY DEF Extends, r
<1>2. m[t] \in Seq(Addr)
  BY DEF IsEventMap
<1>3. CASE \E i \in DOMAIN k : at[i] = t
  <2> DEFINE d == CHOOSE i \in DOMAIN k : at[i] = t
  <2>1. d \in DOMAIN k
    BY <1>3
  <2>2. PICK y \in Addr : y = k[d]
    BY <2>1
  <2>3. r[t] = Append(m[t], y)
    BY <1>1, <1>3, <2>2
  <2>4. /\ Append(m[t], y) \in Seq(Addr) /\ DOMAIN m[t] \subseteq DOMAIN Append(m[t], y)
        /\ \A i \in DOMAIN m[t] : Append(m[t], y)[i] = m[t][i]
    BY <1>2, AppendExtends
  <2>5. t \in DOMAIN r
    BY <1>1
  <2> HIDE DEF d
  <2> QED
    BY <1>2, <2>3, <2>4, <2>5
<1>4. CASE ~\E i \in DOMAIN k : at[i] = t
  BY <1>1, <1>2, <1>4
<1> QED
  BY <1>3, <1>4

\* What is added goes behind what is there.
LEMMA ExtendsKeepsOrder ==
  ASSUME NEW m, NEW n, Extends(m, n), NEW t, NEW y, NEW x, Before(m, t, y, x)
  PROVE  Before(n, t, y, x)
<1>1. t \in DOMAIN m
  BY DEF Before
<1>2. /\ t \in DOMAIN n /\ DOMAIN m[t] \subseteq DOMAIN n[t]
      /\ \A i \in DOMAIN m[t] : n[t][i] = m[t][i]
  BY <1>1 DEF Extends
<1>3. PICK i, j \in DOMAIN m[t] : i < j /\ m[t][i] = y /\ m[t][j] = x
  BY DEF Before
<1>4. /\ i \in DOMAIN n[t] /\ j \in DOMAIN n[t]
      /\ n[t][i] = y /\ n[t][j] = x
  BY <1>2, <1>3
<1> QED
  BY <1>2, <1>3, <1>4 DEF Before

\* The entry that is popped is none of the two.
LEMMA PopKeepsOrder ==
  ASSUME NEW n, NEW t, NEW u, NEW y, NEW x, Before(n, t, y, x),
         n[t] \in Seq(Addr), u = t => y # Head(n[t])
  PROVE  Before(PopFront(n, u), t, y, x)
<1>1. t \in DOMAIN n
  BY DEF Before
<1>2. PICK i, j \in DOMAIN n[t] : i < j /\ n[t][i] = y /\ n[t][j] = x
  BY DEF Before
<1>3. CASE u # t
  <2>1. t \in DOMAIN PopFront(n, u) /\ PopFront(n, u)[t] = n[t]
    BY <1>1, <1>3 DEF PopFront
  <2> QED
    BY <1>2, <2>1 DEF Before
<1>4. CASE u = t
  <2>1. /\ DOMAIN n[t] = 1..Len(n[t]) /\ Len(n[t]) \in Nat
        /\ i \in Nat /\ j \in Nat /\ 1 <= i /\ j <= Len(n[t])
    BY <1>2
  <2>2. i # 1
    BY <1>2, <1>4
  <2>3. Len(n[t]) # 1 /\ n[t] # << >>
    BY <1>2, <2>1, <2>2
  <2>4. /\ Tail(n[t]) \in Seq(Addr) /\ Len(Tail(n[t])) = Len(n[t]) - 1
        /\ \A l \in 1..(Len(n[t]) - 1) : Tail(n[t])[l] = n[t][l + 1]
    BY <2>3
  <2>5. /\ t \in DOMAIN PopFront(n, u) /\ PopFront(n, u)[t] = Tail(n[t])
    BY <1>1, <1>4, <2>3 DEF PopFront
  <2>6. /\ i - 1 \in 1..(Len(n[t]) - 1) /\ j - 1 \in 1..(Len(n[t]) - 1)
        /\ i - 1 < j - 1 /\ (i - 1) + 1 = i /\ (j - 1) + 1 = j
    BY <1>2, <2>1, <2>2
  <2>7. Tail(n[t])[i - 1] = y /\ Tail(n[t])[j - 1] = x
    BY <1>2, <2>4, <2>6
  <2>8. DOMAIN Tail(n[t]) = 1..(Len(n[t]) - 1)
    BY <2>1, <2>4
  <2> QED
    BY <2>5, <2>6, <2>7, <2>8 DEF Before
<1> QED
  BY <1>3, <1>4

\* The event that is first in the list of this instant has none before it.
LEMMA NothingBeforeFront ==
  ASSUME NEW m, NEW now, GoodMap(m, now), NEW x, InFront(m, now, x), NEW y
  PROVE  ~Before(m, now, y, x)
<1> SUFFICES ASSUME Before(m, now, y, x) PROVE FALSE
  OBVIOUS
<1>1. PICK i, j \in DOMAIN m[now] : i < j /\ m[now][i] = y /\ m[now][j] = x
  BY DEF Before
<1>2. now \in DOMAIN m /\ m[now] \in Seq(Addr) /\ m[now][1] = x
  BY DEF InFront, GoodMap, IsEventMap
<1>3. 1 \in DOMAIN m[now] /\ j # 1 /\ j \in Nat /\ i \in Nat
  BY <1>1, <1>2
<1> QED
  BY <1>1, <1>2, <1>3 DEF GoodMap, NoDuplicates

\* An event that is due at u comes before one that is added at u.
LEMMA AddedIsLast ==
  ASSUME NEW m, IsEventMap(m, Addr), NEW u, NEW y, IsDueAt(m, y, u), NEW x \in Addr
  PROVE  Before(Enqueue(m, u, x), u, y, x)
<1>1. u \in DOMAIN m /\ m[u] \in Seq(Addr)
  BY DEF IsDueAt, IsEventMap
<1>2. PICK i \in DOMAIN m[u] : m[u][i] = y
  BY DEF IsDueAt
<1>3. u \in DOMAIN Enqueue(m, u, x) /\ Enqueue(m, u, x)[u] = Append(m[u], x)
  BY <1>1 DEF Enqueue, ListAt
<1>4. i < Len(m[u]) + 1 /\ i \in Nat
  BY <1>1, <1>2
<1> QED
  BY <1>1, <1>2, <1>3, <1>4, AppendExtends DEF Before

-----------------------------------------------------------------------------
(* The objects of a new aura.                                                 *)

\* In a list of this instant, two additions and then the entry of x is popped.
LEMMA AddTwiceAndPop ==
  ASSUME NEW m, GoodMap(m, gameTime), gameTime \in Nat,
         NEW x, InFront(m, gameTime, x),
         NEW y \in Addr, y \notin Queued(m), NEW u \in Nat, gameTime <= u,
         NEW z \in Addr, z \notin Queued(m), z # y, NEW v \in Nat, gameTime <= v
  PROVE  LET n == PopFront(Enqueue(Enqueue(m, u, y), v, z), gameTime)
         IN  \A t : /\ IsDueAt(n, y, t) <=> t = u
                    /\ IsDueAt(n, z, t) <=> t = v
<1> DEFINE a == Enqueue(m, u, y)
           b == Enqueue(a, v, z)
           n == PopFront(b, gameTime)
<1>1. /\ GoodMap(a, gameTime) /\ Queued(a) = Queued(m) \cup {y}
      /\ \A e, t : IsDueAt(a, e, t) <=> IsDueAt(m, e, t) \/ (e = y /\ t = u)
      /\ InFront(a, gameTime, x)
  BY AddToMap
<1> HIDE DEF a
<1>2. z \notin Queued(a)
  BY <1>1
<1>3. /\ GoodMap(b, gameTime)
      /\ \A e, t : IsDueAt(b, e, t) <=> IsDueAt(a, e, t) \/ (e = z /\ t = v)
      /\ InFront(b, gameTime, x)
  BY <1>1, <1>2, AddToMap
<1> HIDE DEF b
<1>4. \A e, t : IsDueAt(n, e, t) <=> IsDueAt(b, e, t) /\ e # x
  BY <1>3, PopFromMap
<1> HIDE DEF n
<1>5. \A t : ~IsDueAt(m, y, t) /\ ~IsDueAt(m, z, t)
  BY QueuedIsDue
<1>6. x \in Queued(m)
  BY FrontIsDue
<1>7. \A t : /\ IsDueAt(n, y, t) <=> t = u
             /\ IsDueAt(n, z, t) <=> t = v
  BY <1>1, <1>3, <1>4, <1>5, <1>6
<1> QED
  BY <1>7 DEF n, b, a

LEMMA AddAndPop ==
  ASSUME NEW m, GoodMap(m, gameTime), gameTime \in Nat,
         NEW x, InFront(m, gameTime, x),
         NEW y \in Addr, y \notin Queued(m), NEW u \in Nat, gameTime <= u
  PROVE  LET n == PopFront(Enqueue(m, u, y), gameTime)
         IN  \A t : IsDueAt(n, y, t) <=> t = u
<1> DEFINE a == Enqueue(m, u, y)
           n == PopFront(a, gameTime)
<1>1. /\ GoodMap(a, gameTime)
      /\ \A e, t : IsDueAt(a, e, t) <=> IsDueAt(m, e, t) \/ (e = y /\ t = u)
      /\ InFront(a, gameTime, x)
  BY AddToMap
<1> HIDE DEF a
<1>2. \A e, t : IsDueAt(n, e, t) <=> IsDueAt(a, e, t) /\ e # x
  BY <1>1, PopFromMap
<1> HIDE DEF n
<1>3. \A t : ~IsDueAt(m, y, t)
  BY QueuedIsDue
<1>4. x \in Queued(m)
  BY FrontIsDue
<1>5. \A t : IsDueAt(n, y, t) <=> t = u
  BY <1>1, <1>2, <1>3, <1>4
<1> QED
  BY <1>5 DEF n, a

\* The objects that are new after a step, and what they are due for.
IsNew(y) == y \in DOMAIN heap' /\ y \notin DOMAIN heap

OnlyDueAt(y, u) == \A t : IsDueAt(eventMap', y, t) <=> t = u

\* What QueueAndReturn makes of one event, or of two.
LEMMA QueueOne ==
  ASSUME Inv, NEW x, InFront(eventMap, gameTime, x),
         NEW e, Queueable(e), QueueAndReturn(x, <<e>>)
  PROVE  \E y : /\ DOMAIN heap' = (DOMAIN heap \ {x}) \cup {y} /\ y \notin DOMAIN heap
                /\ heap'[y] = e.event /\ OnlyDueAt(y, e.at)
<1>1. <<e>> # << >> /\ Len(<<e>>) = 1 /\ <<e>>[1] = e
  OBVIOUS
<1>2. PICK y \in Fresh(DOMAIN heap) :
        /\ Return(Enqueue(eventMap, e.at, y))
        /\ heap' = Delete(New(heap, y, e.event), x)
  BY <1>1 DEF QueueAndReturn
<1>3. /\ GoodMap(eventMap, gameTime) /\ GoodHeap(eventMap, heap)
      /\ gameTime \in Nat /\ exitable \in BOOLEAN
      /\ x \in DOMAIN heap
  BY FrontIsDue DEF Inv, SoundNow, Sound, ClockOK, GoodHeap
<1>4. y \in Addr /\ y \notin DOMAIN heap /\ y \notin Queued(eventMap)
  BY <1>3, FreshIsNew
<1> DEFINE u == e.at
           m == Enqueue(eventMap, u, y)
<1>5. u \in Nat /\ gameTime <= u
  BY DEF Queueable
<1>6. Return(m)
  BY <1>2
<1> HIDE DEF u
<1>7. GoodMap(m, gameTime) /\ InFront(m, gameTime, x)
  BY <1>3, <1>4, <1>5, AddToMap
<1> HIDE DEF m
<1>8. eventMap' = PopFront(m, gameTime)
  BY <1>3, <1>6, <1>7, ReturnPops DEF GoodMap, IsEventMap, InFront
<1>9. OnlyDueAt(y, u)
  BY <1>3, <1>4, <1>5, <1>8, AddAndPop DEF OnlyDueAt, m
<1>10. /\ DOMAIN heap' = (DOMAIN heap \ {x}) \cup {y}
       /\ heap'[y] = e.event
  BY <1>2, <1>3, <1>4 DEF New, Delete
<1> QED
  BY <1>4, <1>9, <1>10 DEF u

LEMMA QueueTwo ==
  ASSUME Inv, NEW x, InFront(eventMap, gameTime, x),
         NEW q, Len(q) = 2, Queueable(q[1]), Queueable(q[2]), QueueAndReturn(x, q)
  PROVE  \E y, z :
           /\ DOMAIN heap' = (DOMAIN heap \ {x}) \cup {y, z}
           /\ y \notin DOMAIN heap /\ z \notin DOMAIN heap /\ y # z
           /\ heap'[y] = q[1].event /\ OnlyDueAt(y, q[1].at)
           /\ heap'[z] = q[2].event /\ OnlyDueAt(z, q[2].at)
           /\ q[1].at = q[2].at /\ q[1].at # gameTime =>
                Before(eventMap', q[1].at, y, z)
<1>1. Len(<< >>) = 0
  OBVIOUS
<1>2. PICK y \in Fresh(DOMAIN heap) :
        \E z \in Fresh(DOMAIN heap \cup {y}) :
          /\ Return(Enqueue(Enqueue(eventMap, q[1].at, y), q[2].at, z))
          /\ heap' = Delete(New(New(heap, y, q[1].event), z, q[2].event), x)
  BY <1>1 DEF QueueAndReturn
<1>3. PICK z \in Fresh(DOMAIN heap \cup {y}) :
          /\ Return(Enqueue(Enqueue(eventMap, q[1].at, y), q[2].at, z))
          /\ heap' = Delete(New(New(heap, y, q[1].event), z, q[2].event), x)
  BY <1>2
<1>4. /\ GoodMap(eventMap, gameTime) /\ GoodHeap(eventMap, heap)
      /\ gameTime \in Nat /\ exitable \in BOOLEAN
      /\ x \in DOMAIN heap /\ DOMAIN heap = Queued(eventMap)
  BY FrontIsDue DEF Inv, SoundNow, Sound, ClockOK, GoodHeap
<1>5. y \in Addr /\ y \notin DOMAIN heap
  BY <1>4, FreshIsNew
<1>6. z \in Addr /\ z \notin DOMAIN heap /\ z # y
  <2>1. DOMAIN heap \cup {y} \subseteq Addr
    BY <1>4, <1>5, QueuedIsDue, DueTimes
  <2> QED
    BY <2>1, AddrAssumption
<1> DEFINE u == q[1].at
           v == q[2].at
           a == Enqueue(eventMap, u, y)
           b == Enqueue(a, v, z)
<1>7. u \in Nat /\ gameTime <= u /\ v \in Nat /\ gameTime <= v
  BY DEF Queueable
<1>8. Return(b)
  BY <1>3
<1> HIDE DEF u, v
<1>9. /\ GoodMap(a, gameTime) /\ InFront(a, gameTime, x)
      /\ Queued(a) = Queued(eventMap) \cup {y} /\ IsDueAt(a, y, u)
  BY <1>4, <1>5, <1>7, AddToMap
<1>10. GoodMap(b, gameTime) /\ InFront(b, gameTime, x)
  <2> HIDE DEF a
  <2>1. z \notin Queued(a)
    BY <1>4, <1>6, <1>9
  <2> QED
    BY <1>6, <1>7, <1>9, <2>1, AddToMap
<1> HIDE DEF b
<1>11. eventMap' = PopFront(b, gameTime)
  BY <1>4, <1>8, <1>10, ReturnPops DEF GoodMap, IsEventMap, InFront
<1>12. OnlyDueAt(y, u) /\ OnlyDueAt(z, v)
  <2>1. y \notin Queued(eventMap) /\ z \notin Queued(eventMap)
    BY <1>4, <1>5, <1>6
  <2> DEFINE n == PopFront(Enqueue(Enqueue(eventMap, u, y), v, z), gameTime)
  <2>2. \A t : /\ IsDueAt(n, y, t) <=> t = u
               /\ IsDueAt(n, z, t) <=> t = v
    BY <1>4, <1>5, <1>6, <1>7, <2>1, AddTwiceAndPop
  <2>3. eventMap' = n
    BY <1>11 DEF a, b
  <2> HIDE DEF n
  <2> QED
    BY <2>2, <2>3 DEF OnlyDueAt
<1>13. /\ DOMAIN heap' = (DOMAIN heap \ {x}) \cup {y, z}
       /\ heap'[y] = q[1].event /\ heap'[z] = q[2].event
  BY <1>3, <1>4, <1>5, <1>6 DEF New, Delete
<1>14. u = v /\ u # gameTime => Before(eventMap', u, y, z)
  <2> SUFFICES ASSUME u = v, u # gameTime PROVE Before(eventMap', u, y, z)
    OBVIOUS
  <2> HIDE DEF a
  <2>1. Before(b, u, y, z)
    BY <1>6, <1>9, AddedIsLast DEF b, GoodMap
  <2>2. b[u] \in Seq(Addr)
    BY <1>10, <2>1 DEF Before, GoodMap, IsEventMap
  <2> QED
    BY <1>11, <2>1, <2>2, PopKeepsOrder
<1> QED
  BY <1>5, <1>6, <1>12, <1>13, <1>14 DEF u, v

\* The aura that an application makes.
NewInstance(x, f) ==
  [guid |-> guidCounter + 1, ticks |-> heap[x].stacks,
   fadeTime |-> IF f = 0 THEN 0 ELSE f + gameTime + 1]

\* With f for the time to fade and p for the time between two ticks: one aura,
\* its removal if it fades, its first tick if it has ticks, in this order.
MakesAura(x, f, p) ==
  LET c == heap[x].target
      a == heap[x].aura
      r == FirstRemoval(x, f)
      t == FirstTick(x, p)
  IN  /\ auraMap' = [auraMap EXCEPT ![c] =
           [b \in DOMAIN auraMap[c] \cup {a} |->
              IF b = a THEN NewInstance(x, f) ELSE auraMap[c][b]]]
      /\ \A y : IsNew(y) =>
           \/ f # 0 /\ heap'[y] = r.event /\ OnlyDueAt(y, r.at)
           \/ heap'[y] = t.event /\ OnlyDueAt(y, t.at)
      /\ \A y, z : IsNew(y) /\ IsNew(z) /\ heap'[y] = heap'[z] => y = z
      /\ f # 0 => \E y : IsNew(y) /\ heap'[y] = r.event
      /\ AuraData[a].periodic => \E z : IsNew(z) /\ heap'[z] = t.event
      /\ r.at = t.at =>
           \A y, z : /\ IsNew(y) /\ heap'[y] = r.event
                     /\ IsNew(z) /\ heap'[z] = t.event
                     => Before(eventMap', r.at, y, z)
      /\ x \notin DOMAIN heap'

LEMMA NewAuraMakes ==
  ASSUME Inv, NewAura
  PROVE  /\ \E p \in TickTimes(heap[current].aura) :
              /\ FirstFade(current, p) \in Nat /\ p \in Nat
              /\ MakesAura(current, FirstFade(current, p), p)
         /\ guidCounter' = guidCounter + 1
<1> DEFINE x == current
           c == heap[x].target
           a == heap[x].aura
<1>1. /\ pc = "AuraApplication" /\ ~HasAura(c, a) /\ guidCounter' = guidCounter + 1
  BY DEF NewAura
<1>2. PICK p \in TickTimes(a) :
        LET f == FirstFade(x, p)
        IN  /\ auraMap' = [auraMap EXCEPT ![c] =
                 [b \in DOMAIN auraMap[c] \cup {a} |->
                    IF b = a THEN NewInstance(x, f) ELSE auraMap[c][b]]]
            /\ QueueAndReturn(x, FirstEvents(x, f, p))
  BY DEF NewAura, NewInstance
<1>3. /\ InFront(eventMap, gameTime, x) /\ x \in DOMAIN heap
      /\ heap[x] \in ApplyEvents /\ c \in Creatures /\ a \in Auras
      /\ gameTime \in Nat /\ guidCounter \in Nat
  BY <1>1, ApplicationFacts DEF Inv, OthersOK
<1>4. heap[x].fade \in Nat /\ p \in Nat
  BY <1>3, TickTimesType DEF ApplyEvents
<1> DEFINE f == FirstFade(x, p)
           r == FirstRemoval(x, f)
           t == FirstTick(x, p)
           q == FirstEvents(x, f, p)
           ticks == AuraData[a].periodic
<1>5. f \in Nat
  <2>1. AuraData[a].period \in Nat \ {0}
    BY <1>3, AuraAssumption
  <2>2. heap[x].fade \div AuraData[a].period \in Nat
    BY <1>4, <2>1
  <2> QED
    BY <1>4, <2>2 DEF FirstFade
<1> HIDE DEF f
<1>6. Queueable(r) /\ Queueable(t)
  BY <1>3, <1>4, <1>5, FirstAreQueueable
<1>7. \/ f = 0 /\ ~ticks /\ q = << >>
      \/ f # 0 /\ ~ticks /\ q = <<r>>
      \/ f = 0 /\ ticks /\ q = <<t>>
      \/ f # 0 /\ ticks /\ Len(q) = 2 /\ q[1] = r /\ q[2] = t
  BY FirstEventsAre
<1>8. QueueAndReturn(x, q)
  BY <1>2 DEF f
<1>9. r.event # t.event
  <2>1. r.event.type = "remove" /\ t.event.type = "periodic"
    BY DEF FirstRemoval, FirstTick
  <2> QED
    BY <2>1
<1>10. r.at # gameTime
  BY <1>3, <1>5 DEF FirstRemoval
<1> HIDE DEF q, r, t, ticks
<1> DEFINE Made ==
      /\ \A y : IsNew(y) =>
           \/ f # 0 /\ heap'[y] = r.event /\ OnlyDueAt(y, r.at)
           \/ heap'[y] = t.event /\ OnlyDueAt(y, t.at)
      /\ \A y, z : IsNew(y) /\ IsNew(z) /\ heap'[y] = heap'[z] => y = z
      /\ f # 0 => \E y : IsNew(y) /\ heap'[y] = r.event
      /\ ticks => \E z : IsNew(z) /\ heap'[z] = t.event
      /\ r.at = t.at =>
           \A y, z : /\ IsNew(y) /\ heap'[y] = r.event
                     /\ IsNew(z) /\ heap'[z] = t.event
                     => Before(eventMap', r.at, y, z)
      /\ x \notin DOMAIN heap'
<1> HIDE DEF Made
<1>11. ASSUME f = 0, ~ticks, q = << >>
       PROVE  Made
  <2>1. DOMAIN heap' = DOMAIN heap \ {x}
    BY <1>8, <1>11 DEF QueueAndReturn, ReturnAndDelete, Delete
  <2>2. x \notin DOMAIN heap' /\ \A w : ~IsNew(w)
    BY <2>1 DEF IsNew
  <2> QED
    BY <1>11, <2>2 DEF Made
<1>12. ASSUME f # 0, ~ticks, q = <<r>>
       PROVE  Made
  <2>1. QueueAndReturn(x, <<r>>)
    BY <1>8, <1>12
  <2>2. PICK y : /\ DOMAIN heap' = (DOMAIN heap \ {x}) \cup {y} /\ y \notin DOMAIN heap
                 /\ heap'[y] = r.event /\ OnlyDueAt(y, r.at)
    BY <1>3, <1>6, <2>1, QueueOne
  <2>3. x \notin DOMAIN heap' /\ \A w : IsNew(w) <=> w = y
    BY <1>3, <2>2 DEF IsNew
  <2> QED
    BY <1>9, <1>12, <2>2, <2>3 DEF Made
<1>13. ASSUME f = 0, q = <<t>>
       PROVE  Made
  <2>1. QueueAndReturn(x, <<t>>)
    BY <1>8, <1>13
  <2>2. PICK y : /\ DOMAIN heap' = (DOMAIN heap \ {x}) \cup {y} /\ y \notin DOMAIN heap
                 /\ heap'[y] = t.event /\ OnlyDueAt(y, t.at)
    BY <1>3, <1>6, <2>1, QueueOne
  <2>3. x \notin DOMAIN heap' /\ \A w : IsNew(w) <=> w = y
    BY <1>3, <2>2 DEF IsNew
  <2> QED
    BY <1>9, <1>13, <2>2, <2>3 DEF Made
<1>14. ASSUME f # 0, Len(q) = 2, q[1] = r, q[2] = t
       PROVE  Made
  <2>1. Queueable(q[1]) /\ Queueable(q[2])
    BY <1>6, <1>14
  <2>2. PICK y, z :
           /\ DOMAIN heap' = (DOMAIN heap \ {x}) \cup {y, z}
           /\ y \notin DOMAIN heap /\ z \notin DOMAIN heap /\ y # z
           /\ heap'[y] = q[1].event /\ OnlyDueAt(y, q[1].at)
           /\ heap'[z] = q[2].event /\ OnlyDueAt(z, q[2].at)
           /\ q[1].at = q[2].at /\ q[1].at # gameTime =>
                Before(eventMap', q[1].at, y, z)
    BY <1>3, <1>8, <1>14, <2>1, QueueTwo
  <2>3. /\ heap'[y] = r.event /\ OnlyDueAt(y, r.at)
        /\ heap'[z] = t.event /\ OnlyDueAt(z, t.at)
    BY <1>14, <2>2
  <2>4. \A w : IsNew(w) <=> w = y \/ w = z
    BY <2>2 DEF IsNew
  <2>5. x \notin DOMAIN heap'
    BY <1>3, <2>2
  <2>6. r.at = t.at => Before(eventMap', r.at, y, z)
    BY <1>10, <1>14, <2>2
  <2> QED
    BY <1>9, <1>14, <2>3, <2>4, <2>5, <2>6 DEF Made
<1>15. Made
  BY <1>7, <1>11, <1>12, <1>13, <1>14
<1>16. auraMap' = [auraMap EXCEPT ![c] =
           [b \in DOMAIN auraMap[c] \cup {a} |->
              IF b = a THEN NewInstance(x, f) ELSE auraMap[c][b]]]
  BY <1>2 DEF f
<1>17. MakesAura(x, f, p)
  BY SMTT(40), <1>15, <1>16 DEF MakesAura, Made, r, t, ticks
<1> QED
  BY <1>1, <1>4, <1>5, <1>17 DEF f

\* The forced removal of a spell's aura changes only its time to fade.
LEMMA HitKeepsAuras ==
  ASSUME Inv, NEW x \in DOMAIN heap, QueueSpellAura(x), NEW c \in Creatures
  PROVE  /\ DOMAIN auraMap'[c] = DOMAIN auraMap[c]
         /\ \A b \in DOMAIN auraMap[c] : b # SpellData[heap[x].spell].aura =>
              auraMap'[c][b] = auraMap[c][b]
<1> DEFINE a == SpellData[heap[x].spell].aura
<1>1. CASE UNCHANGED auraMap
  BY <1>1
<1>2. CASE auraMap' = [auraMap EXCEPT ![Player][a].fadeTime = 1] /\ HasAura(Player, a)
  <2>1. DOMAIN auraMap = Creatures
    BY DEF Inv, OthersOK, AurasOK, IsFunctionOn
  <2> DEFINE f == [auraMap[Player] EXCEPT ![a].fadeTime = 1]
  <2>2. auraMap' = [auraMap EXCEPT ![Player] = f]
    BY <1>2
  <2>3. /\ DOMAIN f = DOMAIN auraMap[Player]
        /\ \A b \in DOMAIN f : b # a => f[b] = auraMap[Player][b]
    OBVIOUS
  <2> HIDE DEF f, a
  <2>4. c # Player => auraMap'[c] = auraMap[c]
    BY <2>1, <2>2
  <2>5. c = Player => auraMap'[c] = f
    BY SMTT(40), <2>1, <2>2
  <2> QED
    BY <2>3, <2>4, <2>5 DEF a
<1>3. CASE \E f \in ForcedRemovals(x) :
             f # << >> /\ auraMap' = [auraMap EXCEPT ![Player][a].fadeTime = 1]
  BY <1>2, <1>3 DEF ForcedRemovals
<1> QED
  BY <1>1, <1>3 DEF QueueSpellAura

\* A refresh counts the stacks.
LEMMA RefreshedAuras ==
  ASSUME Inv, RefreshAura, NEW c \in Creatures
  PROVE  LET d == heap[current].target
             a == heap[current].aura
         IN  /\ HasAura(d, a)
             /\ DOMAIN auraMap'[c] = DOMAIN auraMap[c]
             /\ \A b \in DOMAIN auraMap[c] : ~(c = d /\ b = a) =>
                  auraMap'[c][b] = auraMap[c][b]
             /\ c = d => /\ auraMap'[c][a].ticks = auraMap[c][a].ticks + heap[current].stacks
                         /\ auraMap'[c][a].guid = auraMap[c][a].guid
                         /\ auraMap'[c][a].fadeTime \in RefreshedFades(current)
<1> DEFINE d == heap[current].target
           a == heap[current].aura
           n == heap[current].stacks
<1>1. PICK f \in RefreshedFades(current) :
        auraMap' = [auraMap EXCEPT ![d][a].ticks = @ + n, ![d][a].fadeTime = f]
  BY ZenonT(40) DEF RefreshAura
<1>2. d \in Creatures /\ HasAura(d, a) /\ DOMAIN auraMap = Creatures
  BY Zenon, ApplicationFacts DEF RefreshAura, Inv, OthersOK, AurasOK, IsFunctionOn
<1> HIDE DEF d, a, n
<1>3. auraMap[d][a] \in AuraObjects
  BY <1>2 DEF Inv, OthersOK, AurasOK, HasAura
<1> DEFINE i == auraMap[d][a]
           v == [i EXCEPT !.ticks = @ + n, !.fadeTime = f]
           w == [auraMap[d] EXCEPT ![a] = v]
<1>4. v.ticks = i.ticks + n /\ v.guid = i.guid /\ v.fadeTime = f
  BY <1>3 DEF AuraObjects
<1>5. auraMap' = [auraMap EXCEPT ![d] = w]
  BY Zenon, <1>1, <1>2 DEF HasAura
<1> HIDE DEF v
<1>6. /\ DOMAIN w = DOMAIN auraMap[d] /\ w[a] = v
      /\ \A b \in DOMAIN auraMap[d] : b # a => w[b] = auraMap[d][b]
  BY <1>2 DEF HasAura
<1> HIDE DEF w
<1>7. /\ c # d => auraMap'[c] = auraMap[c]
      /\ c = d => auraMap'[c] = w
  BY <1>2, <1>5
<1> QED
  BY SMTT(40), <1>2, <1>4, <1>6, <1>7 DEF d, a, n

LEMMA NewAuras ==
  ASSUME Inv, NewAura, NEW c \in Creatures
  PROVE  LET d == heap[current].target
             a == heap[current].aura
         IN  /\ ~HasAura(d, a)
             /\ DOMAIN auraMap'[c] = DOMAIN auraMap[c] \cup (IF c = d THEN {a} ELSE {})
             /\ \A b \in DOMAIN auraMap[c] : auraMap'[c][b] = auraMap[c][b]
             /\ c = d => auraMap'[c][a].ticks = heap[current].stacks
<1> DEFINE d == heap[current].target
           a == heap[current].aura
<1>1. PICK f : auraMap' = [auraMap EXCEPT ![d] =
                 [b \in DOMAIN @ \cup {a} |->
                    IF b = a THEN [guid |-> guidCounter + 1,
                                   ticks |-> heap[current].stacks,
                                   fadeTime |-> IF f = 0 THEN 0 ELSE f + gameTime + 1]
                    ELSE @[b]]]
  BY DEF NewAura
<1>2. d \in Creatures /\ ~HasAura(d, a) /\ DOMAIN auraMap = Creatures
  BY ApplicationFacts DEF NewAura, Inv, OthersOK, AurasOK, IsFunctionOn
<1> DEFINE v == [guid |-> guidCounter + 1, ticks |-> heap[current].stacks,
                 fadeTime |-> IF f = 0 THEN 0 ELSE f + gameTime + 1]
           w == [b \in DOMAIN auraMap[d] \cup {a} |-> IF b = a THEN v ELSE auraMap[d][b]]
<1>3. v.ticks = heap[current].stacks
  OBVIOUS
<1>4. auraMap' = [auraMap EXCEPT ![d] = w]
  BY <1>1
<1> HIDE DEF v
<1>5. /\ DOMAIN w = DOMAIN auraMap[d] \cup {a} /\ w[a] = v
      /\ \A b \in DOMAIN auraMap[d] : b # a => w[b] = auraMap[d][b]
  OBVIOUS
<1> HIDE DEF w, d, a
<1>6. /\ c # d => auraMap'[c] = auraMap[c]
      /\ c = d => auraMap'[c] = w
  BY <1>2, <1>4
<1> QED
  BY <1>2, <1>3, <1>5, <1>6 DEF d, a, HasAura

LEMMA FadedAuras ==
  ASSUME Inv, FinishFade, NEW c \in Creatures
  PROVE  LET d == heap[current].target
             a == heap[current].aura
         IN  /\ DOMAIN auraMap'[c] = DOMAIN auraMap[c] \ (IF c = d THEN {a} ELSE {})
             /\ \A b \in DOMAIN auraMap'[c] : auraMap'[c][b] = auraMap[c][b]
<1> DEFINE d == heap[current].target
           a == heap[current].aura
           w == [b \in DOMAIN auraMap[d] \ {a} |-> auraMap[d][b]]
<1>1. auraMap' = [auraMap EXCEPT ![d] = w]
  BY DEF FinishFade
<1>2. DOMAIN auraMap = Creatures
  BY DEF Inv, OthersOK, AurasOK, IsFunctionOn
<1>3. DOMAIN w = DOMAIN auraMap[d] \ {a} /\ \A b \in DOMAIN w : w[b] = auraMap[d][b]
  OBVIOUS
<1> HIDE DEF w, d, a
<1>4. /\ c # d => auraMap'[c] = auraMap[c]
      /\ c = d => auraMap'[c] = w
  BY <1>1, <1>2
<1> QED
  BY <1>3, <1>4 DEF d, a

-----------------------------------------------------------------------------
(* Who begins, ends and stops a cast.                                         *)

\* A step does not change what the player waits for.
SamePlayer ==
  /\ UNCHANGED <<castingSpell, globalCooldown>>
  /\ castingSpell # Null => heap'[castingSpell] = heap[castingSpell]

LEMMA CastIsThere ==
  ASSUME Inv, castingSpell # Null
  PROVE  castingSpell \in DOMAIN heap /\ heap[castingSpell].type = "castPost"
BY DEF Inv, SoundNow, Sound, GoodCast

LEMMA DeleteKeepsPlayer ==
  ASSUME Inv', NEW x, heap' = Delete(heap, x), UNCHANGED player
  PROVE  SamePlayer
<1>1. castingSpell # Null => castingSpell' \in DOMAIN heap'
  BY DEF player, Inv, SoundNow, Sound, GoodCast
<1> QED
  BY <1>1 DEF SamePlayer, player, Delete

LEMMA AllStayKeepsPlayer ==
  ASSUME Inv, AllStay, UNCHANGED player
  PROVE  SamePlayer
BY CastIsThere DEF SamePlayer, player, AllStay, Stays

\* Every step but those that begin, end or stop a cast and that sleep.
LEMMA PlayerChangedBy ==
  ASSUME Inv, Inv', Undisturbed, [Next]_vars
  PROVE  \/ SamePlayer
         \/ FinishPreCasting \/ FinishPostCasting
         \/ \E x \in DOMAIN heap : MissCast(x)
         \/ StopCasting \/ \E n \in SleepTimes : PlayerSleep(n)
<1>1. ASSUME NEW x \in DOMAIN heap,
             \/ RejectCast(x) \/ AbandonCast(x) \/ SkipTick(x) \/ MissTick(x)
             \/ DropRemoval(x) \/ DropTick(x)
      PROVE  SamePlayer
  <2>1. heap' = Delete(heap, x) /\ UNCHANGED player
    BY <1>1 DEF RejectCast, AbandonCast, SkipTick, MissTick, DropRemoval, DropTick,
       ReturnAndDelete
  <2> QED
    BY <2>1, DeleteKeepsPlayer
<1>2. CASE FinishPostChannel \/ RefreshAura \/ FinishFade
  <2>1. heap' = Delete(heap, current) /\ UNCHANGED player
    BY ZenonT(60), <1>2 DEF FinishPostChannel, RefreshAura, FinishFade, ReturnAndDelete
  <2> QED
    BY SMTT(40), <2>1, DeleteKeepsPlayer
<1>3. CASE FinishPeriodic
  <2>1. UNCHANGED player
    BY <1>3 DEF FinishPeriodic
  <2>2. heap' = Delete(heap, current) \/ heap' = heap
    BY <1>3 DEF FinishPeriodic, ReturnAndDelete, ReturnAndKeep
  <2> QED
    BY <2>1, <2>2, DeleteKeepsPlayer DEF SamePlayer, player
<1>4. ASSUME NEW x \in DOMAIN heap,
             \/ BeginCast(x) \/ BeginTick(x) \/ HitCast(x) \/ HitTick(x)
             \/ BeginApplication(x) \/ BeginFade(x) \/ BeginPeriodic(x)
      PROVE  SamePlayer
  <2>1. AllStay
    BY <1>4, BeginKeepsInv, HitKeepsInv
  <2>2. UNCHANGED player
    BY <1>4 DEF BeginCast, BeginTick, HitCast, HitTick, BeginApplication, BeginFade,
       BeginPeriodic, player
  <2> QED
    BY <2>1, <2>2, AllStayKeepsPlayer
<1>5. ASSUME NEW x \in DOMAIN heap, PostponeRemoval(x)
      PROVE  SamePlayer
  BY <1>5 DEF PostponeRemoval, ReturnAndKeep, SamePlayer, player
<1>6. CASE \/ Advance \/ BeginLoop \/ StartLoop \/ Stop \/ EndIdle \/ Terminated
           \/ FinalizeCalculation \/ UNCHANGED vars
  BY <1>6 DEF Advance, BeginLoop, StartLoop, Stop, EndIdle, Terminated,
     FinalizeCalculation, vars, SamePlayer, player
<1>7. CASE \/ \E call \in CastCalls : CastSpellByName(call[1], call[2])
           \/ \E call \in ApplyCalls : UnitApplyAura(call)
  <2>1. AllStay
    BY <1>7, CastSpellByNameKeepsInv, UnitApplyAuraKeepsInv
  <2>2. UNCHANGED player
    BY <1>7 DEF CastSpellByName, UnitApplyAura, player
  <2> QED
    BY <2>1, <2>2, AllStayKeepsPlayer
<1>8. CASE FinishPreChannel
  <2>1. /\ pc = "PreSpellChannel" /\ UNCHANGED player
        /\ heap' = [heap EXCEPT ![current].type = "tickPost"]
    BY <1>8 DEF FinishPreChannel
  <2>2. current \in DOMAIN heap /\ heap[current].type = "tickPre"
    BY <2>1, CurrentIsInFront DEF Hooks, HookType
  <2>3. castingSpell # Null => castingSpell # current /\ castingSpell \in DOMAIN heap
    BY <2>2, CastIsThere
  <2> QED
    BY <2>1, <2>3 DEF SamePlayer, player
<1>9. CASE NewAura
  <2>1. pc = "AuraApplication" /\ UNCHANGED player
    BY <1>9 DEF NewAura
  <2>2. InFront(eventMap, gameTime, current) /\ heap[current].type = "apply"
    BY <2>1, CurrentIsInFront DEF Hooks, HookType
  <2>3. castingSpell # Null => castingSpell \in DOMAIN heap /\ castingSpell # current
    BY <2>2, CastIsThere
  <2>4. castingSpell # Null => Stays(castingSpell)
    BY <2>2, <2>3 DEF Undisturbed, Finishes, InFront
  <2> QED
    BY <2>1, <2>4 DEF SamePlayer, player, Stays
<1>10. CASE SpellNext
  BY <1>1, <1>2, <1>4, <1>8, <1>10 DEF SpellNext
<1>11. CASE AuraNext
  BY <1>1, <1>2, <1>3, <1>4, <1>5, <1>9, <1>11 DEF AuraNext
<1> QED
  BY <1>6, <1>7, <1>10, <1>11 DEF Next, Engine, ScriptNext

-----------------------------------------------------------------------------
LEMMA Invariance == Spec => []Inv
BY InvInit, NextKeepsInv, PTL DEF Spec

\* Every variable of the simulator keeps its type, whatever the spells, the
\* auras and the scripts are: no time wraps below zero, no list is empty, and
\* every object that exists is one of the five kinds of events.
THEOREM TypeIsCorrect == Spec => []TypeOK
BY Invariance, InvGivesTypeOK, PTL

\* Every pointer to an event object points to one that exists, and to the one
\* it was set to: the entries of m_eventMap are the events that exist, each of
\* them once; m_CastingSpell is a cast that still has its second run to come; a
\* tick's m_Parent is the cast event of its channel and outlives it, even when
\* the cast was stopped and addresses are given out again (EventSystem.cpp, the
\* deletes of ProcessEvent, and CSpellEvent's m_Parent).
THEOREM PointersStayLive == Spec => []PointersLive
BY Invariance, InvGivesPointersLive, PTL
-----------------------------------------------------------------------------
(* What a step does to the lists: it adds to the ends, and it pops the event  *)
(* in front when it ends its handler.                                         *)

\* The step ends the handler of the event y.
Ends(y) ==
  /\ InFront(eventMap, gameTime, y)
  /\ pc \in Hooks \cup {"batch"} /\ pc' \notin Hooks
  /\ vars' # vars

\* An event is due, and its handler runs, or is to.
Serving == pc \in Hooks \cup {"batch"} /\ gameTime \in DOMAIN eventMap

\* The queue m that the handlers leave, before the entry in front is popped.
LeavesQueue(m) ==
  /\ Extends(eventMap, m)
  /\ eventMap' = m \/ (Serving /\ Return(m))

LEMMA NextServes ==
  ASSUME Inv, NEW x, IsNext(x)
  PROVE  Serving
BY NextIsInFront DEF Serving, InFront, IsNext

LEMMA HookServes ==
  ASSUME Inv, pc \in Hooks
  PROVE  Serving
BY CurrentIsInFront DEF Serving, InFront

LEMMA QueueType ==
  ASSUME Inv
  PROVE  /\ IsEventMap(eventMap, Addr) /\ Extends(eventMap, eventMap)
         /\ DOMAIN heap \subseteq Addr
         /\ \A y \in Fresh(DOMAIN heap) : y \in Addr /\ y \notin DOMAIN heap
<1>1. GoodMap(eventMap, gameTime) /\ GoodHeap(eventMap, heap)
  BY DEF Inv, SoundNow, Sound
<1>2. DOMAIN heap \subseteq Addr
  BY <1>1, QueuedIsDue, DueTimes DEF GoodHeap
<1> QED
  BY <1>1, <1>2, ExtendsItself, FreshIsNew DEF GoodMap

\* The address of a second new object.
LEMMA SecondFresh ==
  ASSUME Inv, NEW y \in Fresh(DOMAIN heap), NEW z \in Fresh(DOMAIN heap \cup {y})
  PROVE  y \in Addr /\ z \in Addr
<1>1. y \in Addr /\ DOMAIN heap \cup {y} \in SUBSET Addr
  BY QueueType
<1> QED
  BY <1>1, AddrAssumption

LEMMA QueuedLeaves ==
  ASSUME Inv, NEW obj, Queue(obj)
  PROVE  \E m : LeavesQueue(m)
<1>1. PICK y \in Fresh(DOMAIN heap) : eventMap' = Enqueue(eventMap, gameTime, y)
  BY SMTT(40) DEF Queue
<1> QED
  BY <1>1, QueueType, EnqueueExtends DEF LeavesQueue

LEMMA SpellLeaves ==
  ASSUME Inv, NEW x, QueueSpellAura(x)
  PROVE  \E m : LeavesQueue(m)
<1>1. CASE UNCHANGED eventMap
  BY <1>1, QueueType DEF LeavesQueue
<1>2. ASSUME NEW y \in Fresh(DOMAIN heap), eventMap' = Enqueue(eventMap, gameTime, y)
      PROVE  \E m : LeavesQueue(m)
  BY <1>2, QueueType, EnqueueExtends DEF LeavesQueue
<1>3. ASSUME NEW z \in Fresh(DOMAIN heap), NEW y \in Fresh(DOMAIN heap \cup {z}),
             eventMap' = Enqueue(Enqueue(eventMap, gameTime, z), gameTime, y)
      PROVE  \E m : LeavesQueue(m)
  <2>1. y \in Addr /\ z \in Addr
    BY SecondFresh
  <2>2. Extends(eventMap, Enqueue(Enqueue(eventMap, gameTime, z), gameTime, y))
    BY <2>1, QueueType, EnqueueExtends
  <2> QED
    BY <1>3, <2>2 DEF LeavesQueue
<1> QED
  BY <1>1, <1>2, <1>3 DEF QueueSpellAura

LEMMA NewAuraLeaves ==
  ASSUME Inv, NewAura
  PROVE  \E m : LeavesQueue(m)
<1>1. Serving
  BY HookServes DEF NewAura, Hooks
<1>2. PICK x, f, p : QueueAndReturn(x, FirstEvents(x, f, p))
  BY DEF NewAura
<1> DEFINE q == FirstEvents(x, f, p)
<1>3. q = << >> \/ Len(q) = 1 \/ Len(q) = 2
  BY FirstEventsAre
<1> HIDE DEF q
<1>4. CASE q = << >>
  <2>1. Return(eventMap)
    BY <1>2, <1>4 DEF QueueAndReturn, ReturnAndDelete, q
  <2> QED
    BY <1>1, <2>1, QueueType DEF LeavesQueue
<1>5. CASE q # << >> /\ Len(q) = 1
  <2>1. PICK y \in Fresh(DOMAIN heap) : Return(Enqueue(eventMap, q[1].at, y))
    BY <1>2, <1>5 DEF QueueAndReturn, q
  <2>2. Extends(eventMap, Enqueue(eventMap, q[1].at, y))
    BY QueueType, EnqueueExtends
  <2> QED
    BY <1>1, <2>1, <2>2 DEF LeavesQueue
<1>6. CASE q # << >> /\ Len(q) = 2
  <2>1. PICK y \in Fresh(DOMAIN heap) : \E z \in Fresh(DOMAIN heap \cup {y}) :
           Return(Enqueue(Enqueue(eventMap, q[1].at, y), q[2].at, z))
    BY <1>2, <1>6 DEF QueueAndReturn, q
  <2>2. PICK z \in Fresh(DOMAIN heap \cup {y}) :
           Return(Enqueue(Enqueue(eventMap, q[1].at, y), q[2].at, z))
    BY <2>1
  <2>3. y \in Addr /\ z \in Addr
    BY SecondFresh
  <2>4. Extends(eventMap, Enqueue(Enqueue(eventMap, q[1].at, y), q[2].at, z))
    BY <2>3, QueueType, EnqueueExtends
  <2> QED
    BY <1>1, <2>2, <2>4 DEF LeavesQueue
<1> QED
  BY <1>3, <1>4, <1>5, <1>6

LEMMA StartChannelLeaves ==
  ASSUME Inv, NEW g, NEW c, StartChannel(g, c)
  PROVE  \E m : LeavesQueue(m)
<1> DEFINE s == heap[current].spell
<1>1. pc \in Hooks
  BY DEF StartChannel, Hooks
<1>2. current \in Addr /\ Serving
  BY <1>1, CurrentIsInFront, HookServes
<1>3. PICK k \in Allocations(SpellData[s].ticks) :
        Return(Enqueue(EnqueueTicks(eventMap, s, c, k), gameTime + c, current))
  BY DEF StartChannel
<1>4. PICK n : k \in [1..n -> Addr]
  BY DEF Allocations
<1>5. Extends(eventMap, EnqueueTicks(eventMap, s, c, k))
  BY <1>4, QueueType, TicksExtend
<1>6. Extends(eventMap, Enqueue(EnqueueTicks(eventMap, s, c, k), gameTime + c, current))
  BY <1>2, <1>5, EnqueueExtends
<1> QED
  BY <1>2, <1>3, <1>6 DEF LeavesQueue

\* Every step leaves a queue that begins as the queue before it.
LEMMA StepLeaves ==
  ASSUME Inv, [Next]_vars
  PROVE  \E m : LeavesQueue(m)
<1>1. CASE UNCHANGED eventMap
  BY <1>1, QueueType DEF LeavesQueue
<1>2. ASSUME Serving, Return(eventMap)
      PROVE  \E m : LeavesQueue(m)
  BY <1>2, QueueType DEF LeavesQueue
<1>3. ASSUME Serving, NEW u, NEW y \in Addr, Return(Enqueue(eventMap, u, y))
      PROVE  \E m : LeavesQueue(m)
  <2>1. Extends(eventMap, Enqueue(eventMap, u, y))
    BY QueueType, EnqueueExtends
  <2> QED
    BY <1>3, <2>1 DEF LeavesQueue
<1>4. ASSUME NEW x \in DOMAIN heap,
             \/ RejectCast(x) \/ AbandonCast(x) \/ MissCast(x) \/ SkipTick(x)
             \/ MissTick(x) \/ DropRemoval(x) \/ DropTick(x)
      PROVE  \E m : LeavesQueue(m)
  <2>1. IsNext(x) /\ ReturnAndDelete(x, eventMap)
    BY <1>4 DEF RejectCast, AbandonCast, MissCast, SkipTick, MissTick, DropRemoval,
       DropTick
  <2> QED
    BY <1>2, <2>1, NextServes DEF ReturnAndDelete
<1>5. ASSUME NEW x \in DOMAIN heap, PostponeRemoval(x)
      PROVE  \E m : LeavesQueue(m)
  <2>1. Serving /\ Return(Enqueue(eventMap, Instance(x).fadeTime, x)) /\ x \in Addr
    BY <1>5, QueueType, NextServes DEF PostponeRemoval, ReturnAndKeep
  <2> QED
    BY <1>3, <2>1
<1>6. CASE \/ FinishPostCasting \/ FinishPostChannel \/ RefreshAura \/ FinishFade
           \/ \E g \in GcdTimes : MissChannel(g)
  <2>1. pc \in Hooks /\ ReturnAndDelete(current, eventMap)
    BY ZenonT(60), <1>6 DEF FinishPostCasting, FinishPostChannel, RefreshAura, FinishFade,
       MissChannel, Hooks
  <2> QED
    BY <1>2, <2>1, HookServes DEF ReturnAndDelete
<1>7. CASE \/ FinishPreChannel \/ FinishPeriodic
           \/ \E g \in GcdTimes : \E c \in CastTimes(heap[current].spell) : StartCast(g, c)
  <2>1. pc \in Hooks
    BY ZenonT(60), <1>7 DEF FinishPreChannel, FinishPeriodic, StartCast, Hooks
  <2>2. current \in Addr
    BY <2>1, CurrentIsInFront
  <2>3. Return(eventMap) \/ \E u : Return(Enqueue(eventMap, u, current))
    BY ZenonT(60), <1>7 DEF FinishPreChannel, FinishPeriodic, StartCast, ReturnAndKeep,
       ReturnAndDelete
  <2> QED
    BY <1>2, <1>3, <2>1, <2>2, <2>3, HookServes
<1>8. ASSUME NEW x \in DOMAIN heap,
             \/ BeginCast(x) \/ BeginTick(x)
             \/ BeginApplication(x) \/ BeginFade(x) \/ BeginPeriodic(x)
      PROVE  UNCHANGED eventMap
  BY <1>8 DEF BeginCast, BeginTick, BeginApplication, BeginFade, BeginPeriodic, eventSystem
<1>9. ASSUME NEW x \in DOMAIN heap, HitCast(x) \/ HitTick(x)
      PROVE  \E m : LeavesQueue(m)
  BY <1>9, SpellLeaves DEF HitCast, HitTick
<1>10. CASE SpellNext
  BY ZenonT(60), <1>1, <1>4, <1>6, <1>7, <1>8, <1>9, <1>10, StartChannelLeaves
     DEF SpellNext, FinishPreCasting
<1>11. CASE AuraNext
  BY ZenonT(60), <1>1, <1>4, <1>5, <1>6, <1>7, <1>8, <1>11, NewAuraLeaves DEF AuraNext
<1>12. CASE ScriptNext
  BY <1>1, <1>12, QueuedLeaves DEF ScriptNext, CastSpellByName, UnitApplyAura, StopCasting,
     PlayerSleep, FinalizeCalculation, eventSystem
<1> QED
  BY <1>1, <1>10, <1>11, <1>12 DEF Next, Engine, Advance, BeginLoop, StartLoop, Stop,
     EndIdle, Terminated, vars, eventSystem

\* Of two events that wait for the same instant, the one before the other stays
\* before it until its handler ends.
LEMMA OrderStays ==
  ASSUME Inv, [Next]_vars, NEW t, NEW y, NEW x, Before(eventMap, t, y, x), ~Ends(y)
  PROVE  Before(eventMap', t, y, x)
<1>1. PICK m : LeavesQueue(m)
  BY StepLeaves
<1>2. Before(m, t, y, x)
  BY <1>1, ExtendsKeepsOrder DEF LeavesQueue
<1>3. CASE UNCHANGED eventMap
  BY <1>3
<1>4. CASE eventMap' = m
  BY <1>2, <1>4
<1>5. CASE Serving /\ Return(m) /\ eventMap' # eventMap
  <2>1. pc' \notin Hooks /\ vars' # vars
    BY <1>5, ReturnLeavesHook DEF vars
  <2>2. ~InFront(eventMap, gameTime, y)
    BY <1>5, <2>1 DEF Ends, Serving
  <2>3. /\ t \in DOMAIN eventMap /\ gameTime \in DOMAIN eventMap
        /\ t = gameTime => y # Head(eventMap[gameTime])
    BY <1>5, <2>2 DEF Before, InFront, Serving
  <2>4. /\ eventMap[t] \in Seq(Addr) /\ eventMap[t] # << >>
        /\ t \in DOMAIN m /\ gameTime \in DOMAIN m /\ m[t] \in Seq(Addr)
        /\ DOMAIN eventMap[t] \subseteq DOMAIN m[t]
        /\ \A i \in DOMAIN eventMap[t] : m[t][i] = eventMap[t][i]
    BY <1>1, <2>3, QueueType DEF LeavesQueue, Extends, IsEventMap
  <2>5. Head(m[t]) = Head(eventMap[t])
    <3>1. 1 \in DOMAIN eventMap[t]
      BY <2>4
    <3>2. m[t] # << >> /\ m[t][1] = eventMap[t][1]
      BY <2>4, <3>1
    <3> QED
      BY <2>4, <3>2
  <2>6. PICK u \in DOMAIN m : IsFirst(m, u) /\ eventMap' = PopFront(m, u)
    BY <1>5 DEF Return
  <2>7. u = t => t = gameTime
    <3>1. /\ t \in Nat /\ gameTime \in Nat /\ gameTime <= t
      BY <2>3 DEF Inv, SoundNow, Sound, GoodMap, IsEventMap
    <3>2. u <= gameTime
      BY <2>4, <2>6 DEF IsFirst
    <3> QED
      BY <3>1, <3>2
  <2> QED
    BY <1>2, <2>3, <2>4, <2>5, <2>6, <2>7, PopKeepsOrder
<1> QED
  BY <1>1, <1>3, <1>4, <1>5 DEF LeavesQueue

-----------------------------------------------------------------------------
(* Which step ends the handler of an event.                                   *)

\* Two events are not both in front.
LEMMA FrontIsOne ==
  ASSUME NEW m, NEW now, NEW x, NEW y, InFront(m, now, x), InFront(m, now, y)
  PROVE  x = y
BY DEF InFront

\* Outside of the batch no step takes an event from the queue.
LEMMA NothingEnds ==
  ASSUME Inv, [Next]_vars, pc \notin Hooks \cup {"batch"}
  PROVE  AllStay
<1>1. CASE UNCHANGED vars
  BY <1>1 DEF AllStay, Stays, vars
<1>2. CASE ScriptNext
  BY <1>2, CastSpellByNameKeepsInv, UnitApplyAuraKeepsInv, OtherCallsKeepsInv DEF ScriptNext
<1>3. CASE BeginLoop \/ StartLoop \/ Stop \/ EndIdle \/ Terminated
  BY <1>3, LoopKeepsInv
<1>4. ~Advance
  BY DEF Advance
<1>5. ~SpellNext
  BY ZenonT(60) DEF SpellNext, RejectCast, BeginCast, AbandonCast, MissCast, HitCast,
     SkipTick, BeginTick, MissTick, HitTick, FinishPreCasting, MissChannel,
     FinishPostCasting, FinishPreChannel, FinishPostChannel, IsNext, Hooks
<1>6. ~AuraNext
  BY ZenonT(60) DEF AuraNext, BeginApplication, DropRemoval, PostponeRemoval, BeginFade,
     DropTick, BeginPeriodic, RefreshAura, NewAura, FinishFade, FinishPeriodic, IsNext, Hooks
<1> QED
  BY <1>1, <1>2, <1>3, <1>4, <1>5, <1>6 DEF Next, Engine

\* An event stays as it is until its handler ends.
LEMMA NotEnding ==
  ASSUME Inv, [Next]_vars, NEW y \in DOMAIN heap, ~Ends(y)
  PROVE  Stays(y)
<1>1. CASE vars' = vars
  BY <1>1 DEF Stays, vars
<1>2. CASE pc \notin Hooks \cup {"batch"}
  BY <1>2, NothingEnds DEF AllStay
<1>3. CASE ~Finishes(y)
  BY <1>3, NextKeepsInv DEF Undisturbed
<1> QED
  BY <1>1, <1>2, <1>3 DEF Ends, Finishes

\* Scripts leave pc where it is.
LEMMA ScriptsStay ==
  ASSUME ScriptNext
  PROVE  UNCHANGED <<pc, current, gameTime, auras>> /\ pc \in Scripts
<1>1. ASSUME NEW call \in CastCalls, CastSpellByName(call[1], call[2])
      PROVE  UNCHANGED <<pc, current, gameTime, auras>> /\ pc \in CastScripts
  BY <1>1 DEF CastSpellByName, Call
<1>2. ASSUME NEW call \in ApplyCalls, UnitApplyAura(call)
      PROVE  UNCHANGED <<pc, current, gameTime, auras>> /\ pc \in AuraScripts
  BY <1>2 DEF UnitApplyAura, Call
<1>3. CASE StopCasting
  BY <1>3, ScriptAssumption DEF StopCasting, Call, eventSystem
<1>4. ASSUME NEW n \in SleepTimes, PlayerSleep(n)
      PROVE  UNCHANGED <<pc, current, gameTime, auras>> /\ pc \in SleepScripts
  BY <1>4 DEF PlayerSleep, Call, eventSystem
<1>5. CASE FinalizeCalculation
  BY <1>5 DEF FinalizeCalculation, Call
<1> QED
  BY <1>1, <1>2, <1>3, <1>4, <1>5, ScriptAssumption DEF ScriptNext

\* The handlers that an event of an aura ends with.
LEMMA EndingAuraEvent ==
  ASSUME Inv, [Next]_vars, NEW y \in DOMAIN heap, heap[y].type \in AuraKinds, Ends(y)
  PROVE  \/ y = current /\ (RefreshAura \/ NewAura \/ FinishFade)
         \/ DropRemoval(y) \/ PostponeRemoval(y)
<1>1. Engine
  <2>1. ~UNCHANGED vars /\ pc \in Hooks \cup {"batch"} /\ pc' \notin Hooks
    BY DEF Ends
  <2>2. ~Terminated
    BY <2>1 DEF Terminated, Hooks
  <2>3. ~ScriptNext
    BY <2>1, ScriptsStay DEF Scripts, Hooks
  <2> QED
    BY <2>1, <2>2, <2>3 DEF Next
<1>2. CASE pc \in Hooks
  <2>1. y = current
    BY <1>2, CurrentIsInFront, FrontIsOne DEF Ends
  <2>2. heap[current].type = HookType[pc]
    BY <1>2, CurrentIsInFront
  <2>3. pc = "AuraApplication" \/ pc = "AuraFade"
    BY <1>2, <2>1, <2>2 DEF Hooks, HookType, AuraKinds
  <2> QED
    BY <1>1, <1>2, <2>1, <2>3, EngineInHook
<1>3. CASE pc = "batch"
  <2>1. pc \notin Hooks /\ pc' \notin Hooks /\ pc # "loop" /\ pc # "idle" /\ pc # "start"
    BY <1>3 DEF Ends, Hooks
  <2>2. ~Advance
    <3>1. gameTime \in DOMAIN eventMap /\ gameTime \in Nat
      BY DEF Ends, InFront, Inv, ClockOK
    <3> QED
      BY <3>1 DEF Advance, HasDue
  <2>3. \A x : IsNext(x) => x = y
    BY NextIsInFront, FrontIsOne DEF Ends
  <2>4. heap[y].type \in {"apply", "remove"}
    BY DEF AuraKinds
  <2>5. ~SpellNext
    BY ZenonT(60), <2>1, <2>3, <2>4 DEF SpellNext, RejectCast, BeginCast, AbandonCast, MissCast,
       HitCast, SkipTick, BeginTick, MissTick, HitTick, FinishPreCasting, MissChannel,
       FinishPostCasting, FinishPreChannel, FinishPostChannel, Hooks
  <2>6. AuraNext
    BY <1>1, <1>3, <2>2, <2>5 DEF Engine, BeginLoop, StartLoop, Stop, EndIdle
  <2>7. \A x \in DOMAIN heap : ~BeginApplication(x) /\ ~BeginFade(x)
    BY <2>1 DEF BeginApplication, BeginFade, CallHook, Hooks
  <2>8. \A x \in DOMAIN heap : ~DropTick(x) /\ ~BeginPeriodic(x)
    BY <2>3, <2>4 DEF DropTick, BeginPeriodic
  <2>9. ~RefreshAura /\ ~NewAura /\ ~FinishFade /\ ~FinishPeriodic
    BY <1>3 DEF RefreshAura, NewAura, FinishFade, FinishPeriodic
  <2>10. PICK x \in DOMAIN heap : DropRemoval(x) \/ PostponeRemoval(x)
    BY ZenonT(60), <2>6, <2>7, <2>8, <2>9 DEF AuraNext
  <2>11. x = y
    BY <2>3, <2>10 DEF DropRemoval, PostponeRemoval
  <2> QED
    BY <2>10, <2>11
<1> QED
  BY <1>2, <1>3 DEF Ends

LEMMA HitLeavesSpell ==
  ASSUME Inv, NEW x \in DOMAIN heap, HitCast(x) \/ HitTick(x)
  PROVE  heap[x].spell \in Spells /\ QueueSpellAura(x)
<1>1. heap[x] \in EventObjects
  BY DEF Inv, SoundNow, Sound, GoodHeap, GoodObject
<1>2. heap[x].type \in {"castPost", "tickPost"}
  BY DEF HitCast, HitTick
<1>3. heap[x] \in CastEvents \cup TickEvents
  BY <1>1, <1>2, KindsOfObjects DEF IsTick
<1> QED
  BY <1>3 DEF CastEvents, TickEvents, HitCast, HitTick
=============================================================================
