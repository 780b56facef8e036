----------------------------- MODULE AuraEvents -----------------------------
(* CAuraEvent: applying an aura, removing it, and its periodic ticks.  Nothing *)
(* cancels an event: removals and ticks carry the GUID of the aura they were  *)
(* made for and drop themselves when they find another aura, or none.         *)
EXTENDS SimState

\* CAuraEvent::GetCastTime of the aura: the time between two ticks.
TickTimes(a) == IF AuraData[a].hasteEnabled
                  THEN HastedTimes(AuraData[a].period)
                  ELSE {AuraData[a].period}

Instance(x) == auraMap[heap[x].target][heap[x].aura]

\* Slip: any aura of that kind will do.
FindsItsAura_NoGuid(x) == HasAura(heap[x].target, heap[x].aura)

\* The aura the removal or the tick was made for is still there.
FindsItsAura(x) ==
  /\ HasAura(heap[x].target, heap[x].aura)
  /\ Instance(x).guid = heap[x].guid

-----------------------------------------------------------------------------
(* Application.                                                               *)

BeginApplication(x) ==
  /\ IsNext(x) /\ heap[x].type = "apply"
  /\ CallHook(x, "AuraApplication")
  /\ UNCHANGED <<eventSystem, heap, player, auras, budget>>

\* The fade times a refresh can set: 0 stays "never fades".
RefreshedFades(x) ==
  IF ~heap[x].setFade THEN {Instance(x).fadeTime}
  ELSE LET F == IF AuraData[heap[x].aura].hasteEnabled
                  THEN HastedTimes(heap[x].fade) ELSE {heap[x].fade}
       IN  {IF f = 0 THEN 0 ELSE f + gameTime + 1 : f \in F}

\* Slip: the life of the aura is not hasted.
FirstFade_NotHasted(x, p) == heap[x].fade

\* The life of a new aura: with haste, as many hasted periods as it had periods.
FirstFade(x, p) ==
  LET a == heap[x].aura
  IN  IF AuraData[a].hasteEnabled /\ heap[x].fade # 0
        THEN p * (heap[x].fade \div AuraData[a].period)
        ELSE heap[x].fade

\* The events a new aura is given, removal first.
FirstEvents(x, f, p) ==
  LET c == heap[x].target
      a == heap[x].aura
      g == guidCounter + 1
      removal == [at |-> gameTime + f + 1,
                  event |-> [type |-> "remove", aura |-> a, target |-> c,
                             guid |-> g]]
      tick == [at |-> gameTime + p,
               event |-> [type |-> "periodic", aura |-> a, target |-> c,
                          guid |-> g, period |-> p]]
  IN  (IF f = 0 THEN << >> ELSE <<removal>>) \o
      (IF AuraData[a].periodic THEN <<tick>> ELSE << >>)

\* The events of q, at most two, become objects and are queued; x is deleted.
QueueAndReturn(x, q) ==
  CASE q = << >> -> ReturnAndDelete(x, eventMap)
    [] Len(q) = 1 ->
         \E y \in Fresh(DOMAIN heap) :
           /\ Return(Enqueue(eventMap, q[1].at, y))
           /\ heap' = Delete(New(heap, y, q[1].event), x)
    [] Len(q) = 2 ->
         \E y \in Fresh(DOMAIN heap) : \E z \in Fresh(DOMAIN heap \cup {y}) :
           /\ Return(Enqueue(Enqueue(eventMap, q[1].at, y), q[2].at, z))
           /\ heap' = Delete(New(New(heap, y, q[1].event), z, q[2].event), x)

\* Slip: a refresh starts a chain of ticks, too.
RefreshAura_AddsTick ==
  LET x == current
      c == heap[x].target
      a == heap[x].aura
      t == [type |-> "periodic", aura |-> a, target |-> c,
            guid |-> Instance(x).guid, period |-> AuraData[a].period]
  IN  /\ pc = "AuraApplication"
      /\ HasAura(c, a)
      /\ \E f \in RefreshedFades(x) :
           auraMap' = [auraMap EXCEPT ![c][a].fadeTime = f]
      /\ UNCHANGED <<player, guidCounter, budget>>
      /\ QueueAndReturn(x, IF AuraData[a].periodic
                             THEN <<[at |-> gameTime + t.period, event |-> t]>>
                             ELSE << >>)

\* The aura is there already: no object and no event is created.
RefreshAura ==
  LET x == current
      c == heap[x].target
      a == heap[x].aura
  IN  /\ pc = "AuraApplication"
      /\ HasAura(c, a)
      /\ \E f \in RefreshedFades(x) :
           auraMap' = [auraMap EXCEPT
             ![c][a].ticks = @ + heap[x].stacks,
             ![c][a].fadeTime = f]
      /\ UNCHANGED <<player, guidCounter, budget>>
      /\ ReturnAndDelete(x, eventMap)

NewAura ==
  LET x == current
      c == heap[x].target
      a == heap[x].aura
  IN  /\ pc = "AuraApplication"
      /\ ~HasAura(c, a)
      /\ guidCounter' = guidCounter + 1
      /\ UNCHANGED <<player, budget>>
      /\ \E p \in TickTimes(a) :
           LET f == FirstFade(x, p)
           IN  /\ auraMap' = [auraMap EXCEPT ![c] =
                    [b \in DOMAIN @ \cup {a} |->
                       IF b = a
                         THEN [guid |-> guidCounter + 1,
                               ticks |-> heap[x].stacks,
                               fadeTime |-> IF f = 0 THEN 0
                                            ELSE f + gameTime + 1]
                         ELSE @[b]]]
               /\ QueueAndReturn(x, FirstEvents(x, f, p))

-----------------------------------------------------------------------------
(* Removal.                                                                   *)

\* Slip: a removal without its aura returns 0.
DropRemoval_Leaks(x) ==
  /\ IsNext(x) /\ heap[x].type = "remove"
  /\ ~FindsItsAura(x)
  /\ UNCHANGED <<player, auras, budget>>
  /\ ReturnAndKeep(eventMap)

DropRemoval(x) ==
  /\ IsNext(x) /\ heap[x].type = "remove"
  /\ ~FindsItsAura(x)
  /\ UNCHANGED <<player, auras, budget>>
  /\ ReturnAndDelete(x, eventMap)

\* Slip: the removal is dropped, not moved.
PostponeRemoval_Drops(x) ==
  /\ IsNext(x) /\ heap[x].type = "remove"
  /\ FindsItsAura(x)
  /\ Instance(x).fadeTime > gameTime
  /\ UNCHANGED <<player, auras, budget>>
  /\ ReturnAndDelete(x, eventMap)

\* Slip: ">=" for ">".
PostponeRemoval_AtItsTime(x) ==
  /\ IsNext(x) /\ heap[x].type = "remove"
  /\ FindsItsAura(x)
  /\ Instance(x).fadeTime >= gameTime
  /\ UNCHANGED <<player, auras, budget>>
  /\ ReturnAndKeep(Enqueue(eventMap, Instance(x).fadeTime, x))

\* A refresh has moved the fade time: the removal follows it.
PostponeRemoval(x) ==
  /\ IsNext(x) /\ heap[x].type = "remove"
  /\ FindsItsAura(x)
  /\ Instance(x).fadeTime > gameTime
  /\ UNCHANGED <<player, auras, budget>>
  /\ ReturnAndKeep(Enqueue(eventMap, Instance(x).fadeTime, x))

BeginFade(x) ==
  /\ IsNext(x) /\ heap[x].type = "remove"
  /\ FindsItsAura(x)
  /\ Instance(x).fadeTime <= gameTime
  /\ CallHook(x, "AuraFade")
  /\ UNCHANGED <<eventSystem, heap, player, auras, budget>>

FinishFade ==
  LET x == current
  IN  /\ pc = "AuraFade"
      /\ auraMap' = [auraMap EXCEPT ![heap[x].target] =
                       [b \in DOMAIN @ \ {heap[x].aura} |-> @[b]]]
      /\ UNCHANGED <<player, guidCounter, budget>>
      /\ ReturnAndDelete(x, eventMap)

-----------------------------------------------------------------------------
(* Ticks.  PrePeriodicEventRoutine and PostPeriodicEventRoutine have only the *)
(* damage roll between them and are one hook here.                            *)

DropTick(x) ==
  /\ IsNext(x) /\ heap[x].type = "periodic"
  /\ ~FindsItsAura(x)
  /\ UNCHANGED <<player, auras, budget>>
  /\ ReturnAndDelete(x, eventMap)

BeginPeriodic(x) ==
  /\ IsNext(x) /\ heap[x].type = "periodic"
  /\ FindsItsAura(x)
  /\ CallHook(x, "PeriodicEvent")
  /\ UNCHANGED <<eventSystem, heap, player, auras, budget>>

\* The chain goes on while the next tick is not after the fade time.
FinishPeriodic ==
  LET x == current
      next == gameTime + heap[x].period
  IN  /\ pc = "PeriodicEvent"
      /\ UNCHANGED <<player, auras, budget>>
      /\ IF next <= Instance(x).fadeTime
           THEN ReturnAndKeep(Enqueue(eventMap, next, x))
           ELSE ReturnAndDelete(x, eventMap)

AuraNext ==
  \/ \E x \in DOMAIN heap :
       \/ BeginApplication(x)
       \/ DropRemoval(x) \/ PostponeRemoval(x) \/ BeginFade(x)
       \/ DropTick(x) \/ BeginPeriodic(x)
  \/ RefreshAura \/ NewAura \/ FinishFade \/ FinishPeriodic
=============================================================================
