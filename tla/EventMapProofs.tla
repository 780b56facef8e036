-------------------------- MODULE EventMapProofs --------------------------
(* What Enqueue and PopFront do to a map of lists of events.                  *)
EXTENDS EventMap, SequenceTheorems, TLAPS

\* The empty map is a map over any set of events.
LEMMA EmptyMapType ==
  ASSUME NEW E
  PROVE  IsEventMap(EmptyMap, E)
BY DEF IsEventMap, EmptyMap

\* Adding an event gives a map that has the old times and the new one.
LEMMA EnqueueType ==
  ASSUME NEW E, NEW m, IsEventMap(m, E), NEW t \in Nat, NEW e \in E
  PROVE  /\ IsEventMap(Enqueue(m, t, e), E)
         /\ DOMAIN Enqueue(m, t, e) = DOMAIN m \cup {t}
<1>1. ListAt(m, t) \in Seq(E)
  BY DEF IsEventMap, ListAt
<1>2. Append(ListAt(m, t), e) \in Seq(E) /\ Append(ListAt(m, t), e) # << >>
  BY <1>1
<1> QED
  BY <1>2 DEF IsEventMap, Enqueue

\* An addition leaves the front entry of every list where it is.
LEMMA EnqueueHead ==
  ASSUME NEW E, NEW m, IsEventMap(m, E), NEW t \in Nat, NEW e \in E,
         NEW u \in DOMAIN m
  PROVE  Head(Enqueue(m, t, e)[u]) = Head(m[u])
<1>1. m[u] \in Seq(E) /\ m[u] # << >>
  BY DEF IsEventMap
<1>2. Enqueue(m, t, e)[u] \in {m[u], Append(m[u], e)}
  BY DEF Enqueue, ListAt
<1>3. Head(Append(m[u], e)) = Head(m[u])
  BY <1>1
<1> QED
  BY <1>2, <1>3

\* Removing a front entry gives a map that has no new time.
LEMMA PopFrontType ==
  ASSUME NEW E, NEW m, IsEventMap(m, E), NEW t \in DOMAIN m
  PROVE  /\ IsEventMap(PopFront(m, t), E)
         /\ DOMAIN PopFront(m, t) \subseteq DOMAIN m
<1>1. m[t] \in Seq(E) /\ m[t] # << >>
  BY DEF IsEventMap
<1>2. CASE Len(m[t]) = 1
  BY <1>2 DEF IsEventMap, PopFront
<1>3. CASE Len(m[t]) # 1
  <2>1. Len(m[t]) \in Nat /\ Len(m[t]) # 0
    BY <1>1
  <2>2. Tail(m[t]) \in Seq(E) /\ Len(Tail(m[t])) = Len(m[t]) - 1
    BY <1>1
  <2>3. Tail(m[t]) # << >>
    BY SMTT(40), <1>3, <2>1, <2>2
  <2> QED
    BY <1>3, <2>2, <2>3 DEF IsEventMap, PopFront
<1> QED
  BY <1>2, <1>3

-----------------------------------------------------------------------------
\* What is queued, by time.
LEMMA QueuedIsDue ==
  ASSUME NEW m, NEW x
  PROVE  x \in Queued(m) <=> \E t : IsDueAt(m, x, t)
BY DEF Queued, IsDueAt

\* An addition queues its event at its time, and nothing else.
LEMMA EnqueueDue ==
  ASSUME NEW E, NEW m, IsEventMap(m, E), NEW t \in Nat, NEW e \in E,
         NEW x, NEW u
  PROVE  IsDueAt(Enqueue(m, t, e), x, u)
           <=> IsDueAt(m, x, u) \/ (x = e /\ u = t)
<1> DEFINE l == ListAt(m, t)
           n == Enqueue(m, t, e)
<1>1. l \in Seq(E)
  BY DEF IsEventMap, ListAt
<1>2. /\ DOMAIN n = DOMAIN m \cup {t}
      /\ n[t] = Append(l, e)
      /\ \A v \in DOMAIN m : v # t => n[v] = m[v]
  BY DEF Enqueue
<1>3. IsDueAt(m, x, t) <=> \E i \in DOMAIN l : l[i] = x
  BY DEF IsDueAt, ListAt
<1> HIDE DEF l, n
<1>4. (\E i \in DOMAIN Append(l, e) : Append(l, e)[i] = x)
        <=> (\E i \in DOMAIN l : l[i] = x) \/ x = e
  <2>1. /\ DOMAIN l = 1..Len(l) /\ Len(l) \in Nat
        /\ DOMAIN Append(l, e) = 1..(Len(l) + 1)
        /\ \A i \in 1..Len(l) : Append(l, e)[i] = l[i]
        /\ Append(l, e)[Len(l) + 1] = e
    BY <1>1
  <2> QED
    BY <2>1
<1>5. CASE u = t
  BY <1>2, <1>3, <1>4, <1>5 DEF IsDueAt, n
<1>6. CASE u # t
  BY <1>2, <1>6 DEF IsDueAt, n
<1> QED
  BY <1>5, <1>6 DEF n

\* An addition (AddEvent) makes its event queued, and no other.
LEMMA EnqueueQueued ==
  ASSUME NEW E, NEW m, IsEventMap(m, E), NEW t \in Nat, NEW e \in E
  PROVE  Queued(Enqueue(m, t, e)) = Queued(m) \cup {e}
<1> DEFINE n == Enqueue(m, t, e)
<1>1. \A x, u : IsDueAt(n, x, u) <=> IsDueAt(m, x, u) \/ (x = e /\ u = t)
  BY EnqueueDue
<1> HIDE DEF n
<1>2. \A x : x \in Queued(n) <=> x \in Queued(m) \/ x = e
  BY <1>1, QueuedIsDue
<1> QED
  BY <1>2 DEF n

\* A new event does not make a duplicate.
LEMMA EnqueueNoDuplicates ==
  ASSUME NEW E, NEW m, IsEventMap(m, E), NEW t \in Nat, NEW e \in E,
         NoDuplicates(m), e \notin Queued(m)
  PROVE  NoDuplicates(Enqueue(m, t, e))
<1> DEFINE l == ListAt(m, t)
           n == Enqueue(m, t, e)
<1>1. l \in Seq(E)
  BY DEF IsEventMap, ListAt
<1>2. /\ DOMAIN n = DOMAIN m \cup {t}
      /\ n[t] = Append(l, e)
      /\ \A v \in DOMAIN m : v # t => n[v] = m[v]
  BY DEF Enqueue
<1>3. \A i \in DOMAIN l : t \in DOMAIN m /\ i \in DOMAIN m[t] /\ l[i] = m[t][i]
  BY DEF ListAt
<1>4. \A v \in DOMAIN m : \A i \in DOMAIN m[v] : m[v][i] # e
  BY DEF Queued
<1> HIDE DEF l, n
<1>5. /\ DOMAIN l = 1..Len(l) /\ Len(l) \in Nat
      /\ DOMAIN Append(l, e) = 1..(Len(l) + 1)
      /\ \A i \in 1..Len(l) : Append(l, e)[i] = l[i]
      /\ Append(l, e)[Len(l) + 1] = e
  BY <1>1
\* An entry of n is an entry of m, or the new one.
<1>6. \A v \in DOMAIN n : \A i \in DOMAIN n[v] :
        \/ v \in DOMAIN m /\ i \in DOMAIN m[v] /\ n[v][i] = m[v][i]
        \/ v = t /\ i = Len(l) + 1 /\ n[v][i] = e
  <2> SUFFICES ASSUME NEW v \in DOMAIN n, NEW i \in DOMAIN n[v]
               PROVE  \/ v \in DOMAIN m /\ i \in DOMAIN m[v] /\ n[v][i] = m[v][i]
                      \/ v = t /\ i = Len(l) + 1 /\ n[v][i] = e
    OBVIOUS
  <2>1. CASE v # t
    BY <1>2, <2>1
  <2>2. CASE v = t
    <3>1. i \in 1..(Len(l) + 1)
      BY <1>2, <1>5, <2>2
    <3>2. CASE i \in 1..Len(l)
      BY <1>2, <1>3, <1>5, <2>2, <3>2
    <3>3. CASE i = Len(l) + 1
      BY <1>2, <1>5, <2>2, <3>3
    <3> QED
      BY <1>5, <3>1, <3>2, <3>3
  <2> QED
    BY <2>1, <2>2
<1>7. NoDuplicates(n)
  BY <1>4, <1>6 DEF NoDuplicates
<1> QED
  BY <1>7 DEF n

-----------------------------------------------------------------------------
\* The entries that are left after the front entry of t has gone.
LEMMA PopFrontDue ==
  ASSUME NEW E, NEW m, IsEventMap(m, E), NoDuplicates(m), NEW t \in DOMAIN m,
         NEW x, NEW u
  PROVE  IsDueAt(PopFront(m, t), x, u)
           <=> IsDueAt(m, x, u) /\ x # Head(m[t])
<1> DEFINE l == m[t]
           n == PopFront(m, t)
<1>1. l \in Seq(E) /\ l # << >>
  BY DEF IsEventMap
<1>2. /\ Len(l) \in Nat /\ Len(l) # 0 /\ DOMAIN l = 1..Len(l)
      /\ Head(l) = l[1]
  BY <1>1
<1>3. \A v \in DOMAIN m : \A i \in DOMAIN m[v] :
        m[v][i] = Head(l) <=> v = t /\ i = 1
  <2>1. 1 \in DOMAIN m[t] /\ m[t][1] = Head(l)
    BY <1>2
  <2> QED
    BY <2>1 DEF NoDuplicates
<1>4. CASE Len(l) = 1
  <2>1. n = [v \in DOMAIN m \ {t} |-> m[v]]
    BY <1>4 DEF PopFront
  <2>2. \A i \in DOMAIN m[t] : i = 1
    BY <1>2, <1>4
  <2> HIDE DEF n
  <2> QED
    BY <1>2, <1>3, <2>1, <2>2 DEF IsDueAt, n
<1>5. CASE Len(l) # 1
  <2>1. n = [m EXCEPT ![t] = Tail(l)]
    BY <1>5 DEF PopFront
  <2>2. /\ DOMAIN Tail(l) = 1..(Len(l) - 1)
        /\ \A i \in 1..(Len(l) - 1) : Tail(l)[i] = l[i + 1]
    BY <1>1, <1>2
  <2>3. CASE u # t
    <3>1. IsDueAt(n, x, u) <=> IsDueAt(m, x, u)
      BY <2>1, <2>3 DEF IsDueAt, IsEventMap
    <3> QED
      BY <1>3, <2>3, <3>1 DEF IsDueAt
  <2>4. CASE u = t
    <3>1. IsDueAt(n, x, t) <=> \E i \in 1..(Len(l) - 1) : l[i + 1] = x
      BY <2>1, <2>2 DEF IsDueAt, IsEventMap
    <3>2. IsDueAt(m, x, t) <=> \E i \in 1..Len(l) : l[i] = x
      BY <1>2 DEF IsDueAt
    <3>3. \A i \in 1..Len(l) : l[i] = Head(l) <=> i = 1
      BY <1>2, <1>3
    <3>4. ASSUME NEW i \in 1..(Len(l) - 1), l[i + 1] = x
          PROVE  (\E j \in 1..Len(l) : l[j] = x) /\ x # Head(l)
      <4>1. i + 1 \in 1..Len(l) /\ i + 1 # 1
        BY <1>2
      <4> QED
        BY <3>3, <3>4, <4>1
    <3>5. ASSUME NEW j \in 1..Len(l), l[j] = x, x # Head(l)
          PROVE  \E i \in 1..(Len(l) - 1) : l[i + 1] = x
      <4>1. j # 1
        BY <1>2, <3>5
      <4>2. j - 1 \in 1..(Len(l) - 1) /\ (j - 1) + 1 = j
        BY <1>2, <4>1
      <4> QED
        BY <3>5, <4>2
    <3> QED
      BY <2>4, <3>1, <3>2, <3>4, <3>5
  <2> QED
    BY <2>3, <2>4
<1> QED
  BY <1>4, <1>5

\* Where no event is queued twice, pop_front takes its event out of the queue.
LEMMA PopFrontQueued ==
  ASSUME NEW E, NEW m, IsEventMap(m, E), NoDuplicates(m), NEW t \in DOMAIN m
  PROVE  Queued(PopFront(m, t)) = Queued(m) \ {Head(m[t])}
<1> DEFINE n == PopFront(m, t)
           e == Head(m[t])
<1>1. \A x, u : IsDueAt(n, x, u) <=> IsDueAt(m, x, u) /\ x # e
  BY PopFrontDue
<1> HIDE DEF n, e
<1>2. \A x : x \in Queued(n) <=> x \in Queued(m) /\ x # e
  BY <1>1, QueuedIsDue
<1>3. Queued(n) = Queued(m) \ {e}
  BY <1>2
<1> QED
  BY <1>3 DEF n, e

\* pop_front does not make a duplicate.
LEMMA PopFrontNoDuplicates ==
  ASSUME NEW E, NEW m, IsEventMap(m, E), NoDuplicates(m), NEW t \in DOMAIN m
  PROVE  NoDuplicates(PopFront(m, t))
<1> DEFINE n == PopFront(m, t)
<1>1. m[t] \in Seq(E) /\ m[t] # << >>
  BY DEF IsEventMap
<1>2. CASE Len(m[t]) = 1
  BY <1>2 DEF PopFront, NoDuplicates
<1>3. CASE Len(m[t]) # 1
  <2>1. n = [m EXCEPT ![t] = Tail(m[t])]
    BY <1>3 DEF PopFront
  <2>2. /\ Len(m[t]) \in Nat /\ DOMAIN m[t] = 1..Len(m[t])
        /\ DOMAIN Tail(m[t]) = 1..(Len(m[t]) - 1)
        /\ \A i \in 1..(Len(m[t]) - 1) : Tail(m[t])[i] = m[t][i + 1]
    BY <1>1
  <2> HIDE DEF n
  \* The entries of n are entries of m, those of t one place further on.
  <2>3. \A v \in DOMAIN n : \A i \in DOMAIN n[v] :
          /\ v \in DOMAIN m
          /\ v # t => i \in DOMAIN m[v] /\ n[v][i] = m[v][i]
          /\ v = t => i \in Nat /\ i + 1 \in DOMAIN m[v] /\ n[v][i] = m[v][i + 1]
    <3> SUFFICES ASSUME NEW v \in DOMAIN n, NEW i \in DOMAIN n[v]
                 PROVE  /\ v \in DOMAIN m
                        /\ v # t => i \in DOMAIN m[v] /\ n[v][i] = m[v][i]
                        /\ v = t => i \in Nat /\ i + 1 \in DOMAIN m[v]
                                      /\ n[v][i] = m[v][i + 1]
      OBVIOUS
    <3>1. v \in DOMAIN m
      BY <2>1
    <3>2. CASE v # t
      BY <2>1, <3>1, <3>2
    <3>3. CASE v = t
      <4>1. n[v] = Tail(m[t])
        BY <2>1, <3>3
      <4>2. i \in 1..(Len(m[t]) - 1)
        BY <2>2, <4>1
      <4>3. i \in Nat /\ i + 1 \in 1..Len(m[t])
        BY <2>2, <4>2
      <4> QED
        BY <2>2, <3>1, <3>3, <4>1, <4>2, <4>3
    <3> QED
      BY <3>2, <3>3
  <2>4. ASSUME NEW v \in DOMAIN n, NEW w \in DOMAIN n,
               NEW i \in DOMAIN n[v], NEW j \in DOMAIN n[w],
               n[v][i] = n[w][j]
        PROVE  v = w /\ i = j
    <3>1. CASE v = t /\ w = t
      <4>1. /\ i \in Nat /\ j \in Nat
            /\ i + 1 \in DOMAIN m[t] /\ j + 1 \in DOMAIN m[t]
            /\ m[t][i + 1] = m[t][j + 1]
        BY <2>3, <2>4, <3>1
      <4>2. i + 1 = j + 1
        BY <4>1 DEF NoDuplicates
      <4> QED
        BY <3>1, <4>1, <4>2
    <3>2. CASE v # t /\ w # t
      BY <2>3, <2>4, <3>2 DEF NoDuplicates
    <3>3. CASE v = t /\ w # t
      BY <2>3, <2>4, <3>3 DEF NoDuplicates
    <3>4. CASE v # t /\ w = t
      BY <2>3, <2>4, <3>4 DEF NoDuplicates
    <3> QED
      BY <3>1, <3>2, <3>3, <3>4
  <2>5. NoDuplicates(n)
    BY <2>4 DEF NoDuplicates
  <2> QED
    BY <2>5 DEF n
<1> QED
  BY <1>2, <1>3

\* A handler adds events before its own entry is popped; the map it leaves is
\* the one that pops the entry first.
LEMMA PopAfterEnqueue ==
  ASSUME NEW E, NEW m, IsEventMap(m, E), NEW t \in DOMAIN m,
         NEW u \in Nat, NEW e \in E
  PROVE  PopFront(Enqueue(m, u, e), t) = Enqueue(PopFront(m, t), u, e)
<1> DEFINE n == Enqueue(m, u, e)
           q == PopFront(m, t)
           a == PopFront(n, t)
           b == Enqueue(q, u, e)
<1>1. m[t] \in Seq(E) /\ m[t] # << >>
  BY DEF IsEventMap
<1>2. /\ Len(m[t]) \in Nat /\ Len(m[t]) # 0
      /\ Append(m[t], e) \in Seq(E)
      /\ Len(Append(m[t], e)) = Len(m[t]) + 1
      /\ Len(Append(m[t], e)) # 1
      /\ Tail(Append(m[t], e)) = Append(Tail(m[t]), e)
  BY <1>1
<1>3. IsEventMap(n, E) /\ DOMAIN n = DOMAIN m \cup {u}
  <2>1. IsEventMap(n, E)
    BY EnqueueType
  <2> QED
    BY <2>1 DEF Enqueue
<1>4. /\ n[u] = Append(ListAt(m, u), e)
      /\ \A v \in DOMAIN m : v # u => n[v] = m[v]
  BY DEF Enqueue
<1>5. IsEventMap(q, E)
  BY PopFrontType
<1>6. IsEventMap(a, E)
  BY <1>3, PopFrontType
<1>7. /\ IsEventMap(b, E) /\ DOMAIN b = DOMAIN q \cup {u}
      /\ b[u] = Append(ListAt(q, u), e)
      /\ \A v \in DOMAIN q : v # u => b[v] = q[v]
  <2>1. IsEventMap(b, E)
    BY <1>5, EnqueueType
  <2> QED
    BY <2>1 DEF Enqueue
<1>8. DOMAIN a = DOMAIN b /\ \A v \in DOMAIN a : a[v] = b[v]
  <2>1. CASE u # t /\ Len(m[t]) = 1
    <3>1. n[t] = m[t]
      BY <1>4, <2>1
    <3>2. a = [v \in DOMAIN n \ {t} |-> n[v]]
      BY <2>1, <3>1 DEF PopFront
    <3>3. q = [v \in DOMAIN m \ {t} |-> m[v]]
      BY <2>1 DEF PopFront
    <3>4. ListAt(q, u) = ListAt(m, u)
      BY <2>1, <3>3 DEF ListAt
    <3> HIDE DEF a, b, n, q
    <3> QED
      BY <1>3, <1>4, <1>7, <2>1, <3>2, <3>3, <3>4
  <2>2. CASE u # t /\ Len(m[t]) # 1
    <3>1. n[t] = m[t]
      BY <1>4, <2>2
    <3>2. a = [n EXCEPT ![t] = Tail(m[t])]
      BY <2>2, <3>1 DEF PopFront
    <3>3. q = [m EXCEPT ![t] = Tail(m[t])]
      BY <2>2 DEF PopFront
    <3>4. ListAt(q, u) = ListAt(m, u)
      BY <2>2, <3>3 DEF ListAt
    <3> HIDE DEF a, b, n, q
    <3> QED
      BY <1>3, <1>4, <1>7, <2>2, <3>2, <3>3, <3>4
  <2>3. CASE u = t /\ Len(m[t]) = 1
    <3>1. n[t] = Append(m[t], e)
      BY <1>4, <2>3 DEF ListAt
    <3>2. a = [n EXCEPT ![t] = Append(Tail(m[t]), e)]
      BY <1>2, <2>3, <3>1 DEF PopFront
    <3>3. q = [v \in DOMAIN m \ {t} |-> m[v]]
      BY <2>3 DEF PopFront
    <3>4. ListAt(q, u) = Tail(m[t])
      <4>1. Tail(m[t]) \in Seq(E) /\ Len(Tail(m[t])) = Len(m[t]) - 1
        BY <1>1
      <4>2. Tail(m[t]) = << >>
        <5>1. Len(Tail(m[t])) = 0
          BY <2>3, <4>1
        <5> QED
          BY <4>1, <5>1, EmptySeq
      <4>3. u \notin DOMAIN q
        BY <2>3, <3>3
      <4> QED
        BY <4>2, <4>3 DEF ListAt
    <3> HIDE DEF a, b, n, q
    <3> QED
      BY <1>3, <1>4, <1>7, <2>3, <3>2, <3>3, <3>4
  <2>4. CASE u = t /\ Len(m[t]) # 1
    <3>1. n[t] = Append(m[t], e)
      BY <1>4, <2>4 DEF ListAt
    <3>2. a = [n EXCEPT ![t] = Append(Tail(m[t]), e)]
      BY <1>2, <2>4, <3>1 DEF PopFront
    <3>3. q = [m EXCEPT ![t] = Tail(m[t])]
      BY <2>4 DEF PopFront
    <3>4. ListAt(q, u) = Tail(m[t])
      BY <2>4, <3>3 DEF ListAt
    <3> HIDE DEF a, b, n, q
    <3> QED
      BY <1>3, <1>4, <1>7, <2>4, <3>2, <3>3, <3>4
  <2> QED
    BY <2>1, <2>2, <2>3, <2>4
<1>9. a = b
  <2> HIDE DEF a, b
  <2> QED
    BY <1>6, <1>7, <1>8 DEF IsEventMap
<1> QED
  BY <1>9
-----------------------------------------------------------------------------
(* Where an event is in the map.                                              *)

\* x is in the list at time t, at place i.
IsEntry(m, x, t, i) == t \in DOMAIN m /\ i \in DOMAIN m[t] /\ m[t][i] = x

\* The time an event is queued for is that of its entry.
LEMMA EntryIsDue ==
  ASSUME NEW m, NEW x, NEW t
  PROVE  IsDueAt(m, x, t) <=> \E i : IsEntry(m, x, t, i)
BY DEF IsDueAt, IsEntry

\* Times and places are numbers.
LEMMA EntryTypes ==
  ASSUME NEW E, NEW m, IsEventMap(m, E), NEW x, NEW t, NEW i, IsEntry(m, x, t, i)
  PROVE  /\ t \in Nat /\ i \in Nat \ {0} /\ i <= Len(m[t])
         /\ m[t] \in Seq(E) /\ x \in Queued(m)
<1>1. m[t] \in Seq(E) /\ t \in Nat
  BY DEF IsEntry, IsEventMap
<1>2. i \in 1..Len(m[t]) /\ Len(m[t]) \in Nat
  BY <1>1 DEF IsEntry
<1> QED
  BY <1>1, <1>2 DEF IsEntry, Queued

\* An addition makes one entry, at the end of its list, and moves none.
LEMMA EnqueueEntry ==
  ASSUME NEW E, NEW m, IsEventMap(m, E), NEW t \in Nat, NEW e \in E,
         NEW x, NEW u, NEW i
  PROVE  IsEntry(Enqueue(m, t, e), x, u, i)
           <=> IsEntry(m, x, u, i) \/ (x = e /\ u = t /\ i = Len(ListAt(m, t)) + 1)
<1> DEFINE l == ListAt(m, t)
           n == Enqueue(m, t, e)
<1>1. l \in Seq(E)
  BY DEF IsEventMap, ListAt
<1>2. /\ DOMAIN n = DOMAIN m \cup {t}
      /\ n[t] = Append(l, e)
      /\ \A v \in DOMAIN m : v # t => n[v] = m[v]
  BY DEF Enqueue
<1>3. IsEntry(m, x, t, i) <=> i \in DOMAIN l /\ l[i] = x
  BY DEF IsEntry, ListAt
<1> HIDE DEF l, n
<1>4. /\ DOMAIN l = 1..Len(l) /\ Len(l) \in Nat
      /\ DOMAIN Append(l, e) = 1..(Len(l) + 1)
      /\ \A k \in 1..Len(l) : Append(l, e)[k] = l[k]
      /\ Append(l, e)[Len(l) + 1] = e
  BY <1>1
<1>5. CASE u = t
  BY <1>2, <1>3, <1>4, <1>5 DEF IsEntry, n, l
<1>6. CASE u # t
  BY <1>2, <1>6 DEF IsEntry, n
<1> QED
  BY <1>5, <1>6 DEF n, l

\* pop_front moves the entries of its list one place to the front.
LEMMA PopFrontEntry ==
  ASSUME NEW E, NEW m, IsEventMap(m, E), NEW t \in DOMAIN m, NEW x, NEW u, NEW i
  PROVE  IsEntry(PopFront(m, t), x, u, i)
           <=> IF u = t THEN i \in Nat \ {0} /\ IsEntry(m, x, u, i + 1)
                        ELSE IsEntry(m, x, u, i)
<1> DEFINE l == m[t]
           n == PopFront(m, t)
<1>1. l \in Seq(E) /\ l # << >>
  BY DEF IsEventMap
<1>2. IsEntry(m, x, t, i + 1) <=> i + 1 \in DOMAIN l /\ l[i + 1] = x
  BY DEF IsEntry
<1> HIDE DEF l
<1>3. /\ DOMAIN l = 1..Len(l) /\ Len(l) \in Nat \ {0}
      /\ Tail(l) \in Seq(E)
      /\ DOMAIN Tail(l) = 1..(Len(l) - 1)
      /\ \A k \in 1..(Len(l) - 1) : Tail(l)[k] = l[k + 1]
  BY <1>1
<1>4. CASE Len(l) = 1
  <2>1. DOMAIN n = DOMAIN m \ {t} /\ \A v \in DOMAIN n : n[v] = m[v]
    BY <1>4 DEF PopFront, l
  <2> HIDE DEF n
  <2>2. ~(i \in Nat \ {0} /\ i + 1 \in DOMAIN l)
    BY <1>3, <1>4
  <2>3. IsEntry(n, x, u, i)
           <=> IF u = t THEN i \in Nat \ {0} /\ IsEntry(m, x, u, i + 1)
                        ELSE IsEntry(m, x, u, i)
    BY <1>2, <2>1, <2>2 DEF IsEntry
  <2> QED
    BY <2>3 DEF n
<1>5. CASE Len(l) # 1
  <2>1. DOMAIN n = DOMAIN m /\ n[t] = Tail(l) /\ \A v \in DOMAIN n : v # t => n[v] = m[v]
    BY <1>5 DEF PopFront, l, IsEventMap
  <2> HIDE DEF n
  <2>2. i \in DOMAIN Tail(l) /\ Tail(l)[i] = x
          <=> i \in Nat \ {0} /\ i + 1 \in DOMAIN l /\ l[i + 1] = x
    BY <1>3
  <2>3. IsEntry(n, x, u, i)
           <=> IF u = t THEN i \in Nat \ {0} /\ IsEntry(m, x, u, i + 1)
                        ELSE IsEntry(m, x, u, i)
    BY <1>2, <2>1, <2>2 DEF IsEntry
  <2> QED
    BY <2>3 DEF n
<1> QED
  BY <1>4, <1>5
=============================================================================
