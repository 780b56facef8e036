------------------------------ MODULE EventMap ------------------------------
(* The m_eventMap of CEventSystem: std::map<uint32, std::list<CEvent*>>, a     *)
(* list of events for every time at which something is scheduled.  A map is   *)
(* a function from the times that have a list to their lists; the code erases *)
(* a list the moment it becomes empty, so no list is ever empty.              *)
EXTENDS Naturals, Sequences

EmptyMap == [t \in {} |-> << >>]

\* m is a map over a set E of events.
IsEventMap(m, E) ==
  /\ m = [t \in DOMAIN m |-> m[t]]
  /\ DOMAIN m \subseteq Nat
  /\ \A t \in DOMAIN m : m[t] \in Seq(E) /\ m[t] # << >>

\* The list at time t; the empty list where the map has none.
ListAt(m, t) == IF t \in DOMAIN m THEN m[t] ELSE << >>

\* Slip: push_front.
Enqueue_InFront(m, t, e) ==
  [u \in DOMAIN m \cup {t} |->
     IF u = t THEN <<e>> \o ListAt(m, t) ELSE m[u]]

\* AddEvent's push_back, or the insertion of a one-element list.
Enqueue(m, t, e) ==
  [u \in DOMAIN m \cup {t} |->
     IF u = t THEN Append(ListAt(m, t), e) ELSE m[u]]

\* Slip: the empty list stays in the map.
PopFront_KeepsList(m, t) == [m EXCEPT ![t] = Tail(@)]

\* pop_front, and the erase of the list when that empties it.
PopFront(m, t) ==
  IF Len(m[t]) = 1
    THEN [u \in DOMAIN m \ {t} |-> m[u]]
    ELSE [m EXCEPT ![t] = Tail(@)]

\* t is the key of m_eventMap.begin().
IsFirst(m, t) == /\ t \in DOMAIN m
                 /\ \A u \in DOMAIN m : t <= u

\* begin() != end() and its key is not in the future.
HasDue(m, now) == \E t \in DOMAIN m : t <= now

-----------------------------------------------------------------------------
\* e is queued for time t.
IsDueAt(m, e, t) == t \in DOMAIN m /\ \E i \in DOMAIN m[t] : m[t][i] = e

Queued(m) == UNION {{m[t][i] : i \in DOMAIN m[t]} : t \in DOMAIN m}

\* No event is queued at two places.
NoDuplicates(m) ==
  \A t, u \in DOMAIN m : \A i \in DOMAIN m[t], j \in DOMAIN m[u] :
    m[t][i] = m[u][j] => t = u /\ i = j
=============================================================================
