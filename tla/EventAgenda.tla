----------------------------- MODULE EventAgenda -----------------------------
(* The event system as an agenda: how the map of lists reads as the order in  *)
(* which events will run.                                                     *)
EXTENDS EventSystem

\* The time e is queued for.
DueIn(m, e) == CHOOSE t \in DOMAIN m : IsDueAt(m, e, t)

\* The map is read from its first list to its last, each from its front.
Precedes(m, e, f) ==
  \E t, u \in DOMAIN m : \E i \in DOMAIN m[t], j \in DOMAIN m[u] :
    /\ m[t][i] = e /\ m[u][j] = f
    /\ t < u \/ (t = u /\ i < j)

\* The entry of the running event stays in its list until the handler returns;
\* the agenda has already handed it out.
Waiting ==
  IF pc = "handling" THEN PopFront(eventMap, gameTime) ELSE eventMap

Promise == INSTANCE Agenda WITH
  due <- [e \in Queued(Waiting) |-> DueIn(Waiting, e)],
  ahead <- [e \in Queued(Waiting) |->
              {f \in Queued(Waiting) : Precedes(Waiting, f, e)}],
  clock <- gameTime,
  serving <- current

\* The event system, whatever its handlers do, is a first-in-first-out agenda.
ImplementsAgenda == Promise!Spec
=============================================================================
