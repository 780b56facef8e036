---------------------------- MODULE EventSystem ----------------------------
(* CEventSystem and the loop of Perform that drives it, for handlers and      *)
(* scripts that do anything they may do to the event system: add events, ask  *)
(* for the end of the run and decide whether an event object lives on.        *)
(*                                                                            *)
(* One iteration of the loop is                                               *)
(*   loop      the while test of Perform                                      *)
(*   batch     ProcessEvent's own loop, while something is due                *)
(*   handling  inside pEvent->operator()                                      *)
(*   idle      ProcessEvent has returned; PlayerIdleRoutine may run           *)
(* and "start" is everything before the loop (main.toc, OnTestStartRoutine).  *)
EXTENDS EventMap

CONSTANTS
  Events,      \* the event objects
  Delays,      \* the delays that AddEvent is given
  WaitTimes,   \* what Player->Get_SpellCooldown(0) may answer
  TimeLimit,   \* the 2000000000 of Perform's loop
  MaxDelay,    \* a bound on Delays and WaitTimes
  Word         \* 2^32: m_iGameTime and the keys of the map are uint32

ASSUME DelaysAssumption ==
  /\ MaxDelay \in Nat
  /\ Delays \subseteq 0..MaxDelay
  /\ WaitTimes \subseteq 0..MaxDelay

\* No sum of a time the loop can reach and two delays leaves the word.
ASSUME WordAssumption ==
  /\ TimeLimit \in Nat \ {0}
  /\ Word \in Nat
  /\ TimeLimit + 2 * MaxDelay <= Word

VARIABLES
  eventMap,    \* m_eventMap
  gameTime,    \* m_iGameTime
  exitable,    \* m_bExitable
  pc,          \* where the thread is
  current      \* pCurrentEvent: << >>, or the event being handled

vars == <<eventMap, gameTime, exitable, pc, current>>

Control == {"start", "loop", "batch", "handling", "idle", "done"}

Init ==
  /\ eventMap = EmptyMap
  /\ gameTime = 0
  /\ exitable = FALSE
  /\ pc = "start"
  /\ current = << >>

-----------------------------------------------------------------------------
\* Code of a handler or of a script runs here.
InScript == pc \in {"start", "handling", "idle"}

\* An object that is not queued, or the running event re-adding itself: its
\* entry leaves the list right after the handler returns.
MayAdd(e) ==
  \/ e \notin Queued(eventMap)
  \/ /\ current = <<e>>
     /\ \E t \in DOMAIN eventMap :
          /\ IsFirst(eventMap, t)
          /\ e \notin Queued(PopFront(eventMap, t))

AddEvent(e, d) ==
  /\ InScript
  /\ MayAdd(e)
  /\ eventMap' = Enqueue(eventMap, (gameTime + d) % Word, e)
  /\ UNCHANGED <<gameTime, exitable, pc, current>>

ReadyExit ==
  /\ InScript
  /\ ~exitable
  /\ exitable' = TRUE
  /\ UNCHANGED <<eventMap, gameTime, pc, current>>

\* OnTestStartRoutine has returned.
BeginLoop ==
  /\ pc = "start"
  /\ pc' = "loop"
  /\ UNCHANGED <<eventMap, gameTime, exitable, current>>

\* Slip: the loop has no time limit.
StartLoop_NoLimit ==
  /\ pc = "loop"
  /\ ~exitable
  /\ pc' = "batch"
  /\ UNCHANGED <<eventMap, gameTime, exitable, current>>

\* The while test of Perform, up to the first test inside ProcessEvent.
StartLoop ==
  /\ pc = "loop"
  /\ ~exitable
  /\ gameTime < TimeLimit
  /\ pc' = "batch"
  /\ UNCHANGED <<eventMap, gameTime, exitable, current>>

Stop ==
  /\ pc = "loop"
  /\ exitable \/ gameTime >= TimeLimit
  /\ pc' = "done"
  /\ UNCHANGED <<eventMap, gameTime, exitable, current>>

\* Slip: the list is served from its end.
Dispatch_Last ==
  /\ pc = "batch"
  /\ \E t \in DOMAIN eventMap :
       /\ IsFirst(eventMap, t)
       /\ t <= gameTime
       /\ current' = <<eventMap[t][Len(eventMap[t])]>>
  /\ pc' = "handling"
  /\ UNCHANGED <<eventMap, gameTime, exitable>>

Dispatch ==
  /\ pc = "batch"
  /\ \E t \in DOMAIN eventMap :
       /\ IsFirst(eventMap, t)
       /\ t <= gameTime
       /\ current' = <<Head(eventMap[t])>>
  /\ pc' = "handling"
  /\ UNCHANGED <<eventMap, gameTime, exitable>>

\* The handler has returned (and the object is deleted unless it returned 0):
\* the front entry goes, and ProcessEvent returns when nothing is due.
Finish ==
  /\ pc = "handling"
  /\ \E t \in DOMAIN eventMap :
       /\ IsFirst(eventMap, t)
       /\ eventMap' = PopFront(eventMap, t)
  /\ current' = << >>
  /\ pc' = IF HasDue(eventMap', gameTime) THEN "batch" ELSE "idle"
  /\ UNCHANGED <<gameTime, exitable>>

\* Slip: the player's wait is served whatever is queued.
Advance_IgnoresQueue(w) ==
  /\ pc = "batch"
  /\ ~HasDue(eventMap, gameTime)
  /\ gameTime' = gameTime + w
  /\ pc' = "idle"
  /\ UNCHANGED <<eventMap, exitable, current>>

\* Slip: the minimum is taken for a wait of zero, too.
Advance_NoZeroTest(w) ==
  /\ pc = "batch"
  /\ ~HasDue(eventMap, gameTime)
  /\ \/ eventMap = EmptyMap /\ gameTime' = gameTime + w
     \/ \E t \in DOMAIN eventMap :
          /\ IsFirst(eventMap, t)
          /\ gameTime' = IF gameTime + w < t THEN gameTime + w ELSE t
  /\ pc' = "idle"
  /\ UNCHANGED <<eventMap, exitable, current>>

\* Nothing was due when ProcessEvent began: the clock moves, no event runs.
Advance(w) ==
  /\ pc = "batch"
  /\ ~HasDue(eventMap, gameTime)
  /\ \/ /\ eventMap = EmptyMap
        /\ gameTime' = (gameTime + w) % Word
     \/ \E t \in DOMAIN eventMap :
          /\ IsFirst(eventMap, t)
          /\ gameTime' = IF w # 0 /\ (gameTime + w) % Word < t
                           THEN (gameTime + w) % Word ELSE t
  /\ pc' = "idle"
  /\ UNCHANGED <<eventMap, exitable, current>>

\* PlayerIdleRoutine has returned, or the player was not idle.
EndIdle ==
  /\ pc = "idle"
  /\ pc' = "loop"
  /\ UNCHANGED <<eventMap, gameTime, exitable, current>>

Terminated == pc = "done" /\ UNCHANGED vars

Loop == \/ BeginLoop \/ StartLoop \/ Stop \/ Dispatch \/ Finish \/ EndIdle
        \/ \E w \in WaitTimes : Advance(w)

Script == \/ \E e \in Events, d \in Delays : AddEvent(e, d)
          \/ ReadyExit

Next == Loop \/ Script \/ Terminated

Spec == Init /\ [][Next]_vars

\* One thread runs the loop and nothing blocks it: it does not stop between
\* two steps, and every handler and script returns.
FairSpec == Spec /\ WF_vars(Loop)

-----------------------------------------------------------------------------
TypeOK ==
  /\ IsEventMap(eventMap, Events)
  /\ gameTime \in Nat
  /\ exitable \in BOOLEAN
  /\ pc \in Control
  /\ current \in {<< >>} \cup {<<e>> : e \in Events}

\* The running event is the front entry of the first list while its handler
\* runs: pop_front removes it and no other, whatever the handler added.
FrontIsCurrent ==
  pc = "handling" =>
    \E t \in DOMAIN eventMap :
      /\ IsFirst(eventMap, t)
      /\ t = gameTime
      /\ current = <<Head(eventMap[t])>>

\* Every event is handled at the very time it was queued for: nothing queued is
\* ever in the past, so the clock cannot have jumped over an event and no
\* AddEvent wrapped around the word.
NothingInThePast == \A t \in DOMAIN eventMap : gameTime <= t

\* The clock never runs backwards, and moves only when ProcessEvent finds
\* nothing due; it never moves past an event that is waiting.
ClockStep ==
  /\ gameTime <= gameTime'
  /\ gameTime # gameTime' =>
       /\ pc = "batch"
       /\ ~HasDue(eventMap, gameTime)
       /\ \A t \in DOMAIN eventMap : gameTime' <= t

ClockOK == [][ClockStep]_vars

\* Handlers that re-add events without a delay cannot keep an event that is
\* already due from running: one instant is served first in, first out.
DueEventsRun ==
  \A e \in Events :
    (pc = "batch" /\ IsDueAt(eventMap, e, gameTime)) ~> (current = <<e>>)

\* As long as every instant ends, which handlers and idle scripts that add events
\* for the time it is can prevent, each queued event runs, or the run stops,
\* whatever the player waits for.
QueuedEventsRun ==
  []<>(pc = "done" \/ (pc = "batch" /\ ~HasDue(eventMap, gameTime))) =>
    \A e \in Events :
      (e \in Queued(eventMap)) ~> (current = <<e>> \/ pc = "done")

\* Every event that is queued runs: in time when it is due, and at all while
\* instants end.
EveryEventRuns == DueEventsRun /\ QueuedEventsRun
=============================================================================
