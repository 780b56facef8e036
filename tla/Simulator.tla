------------------------------ MODULE Simulator ------------------------------
(* Perform: the main loop, the Lua scripts it and the handlers call, and the  *)
(* event system with the two kinds of events.                                 *)
EXTENDS SpellEvents, AuraEvents

CONSTANTS
  Budget,          \* API calls the scripts make in a run
  CastScripts,     \* the scripts that call CastSpellByName, ...
  StopScripts,     \* ... StopCasting, ...
  SleepScripts,    \* ... PlayerSleep, ...
  AuraScripts,     \* ... UnitApplyAura
  CastCalls,       \* <<spell, target>> of the CastSpellByName calls
  SleepTimes,      \* the argument of PlayerSleep
  ApplyCalls       \* the arguments of UnitApplyAura, as aura events

ASSUME ScriptAssumption ==
  /\ Budget \in Nat
  /\ CastScripts \cup StopScripts \cup SleepScripts \cup AuraScripts
       \subseteq Scripts
  /\ CastCalls \subseteq Spells \X Creatures
  /\ SleepTimes \subseteq Nat
  /\ \A call \in ApplyCalls : call \in ApplyEvents

\* The time to fade that haste makes of one an application can carry is a uint32.
ASSUME FadeAssumption ==
  /\ \A s \in Spells : HastedTimes(SpellData[s].fade) \subseteq Nat
  /\ \A call \in ApplyCalls : HastedTimes(call.fade) \subseteq Nat

Init ==
  /\ eventMap = EmptyMap
  /\ gameTime = 0
  /\ exitable = FALSE
  /\ pc = "start"
  /\ current = Null
  /\ heap = [x \in {} |-> Null]
  /\ castingSpell = Null
  /\ globalCooldown = 0
  /\ spellCooldown = [s \in Spells |-> 0]
  /\ auraMap = [c \in Creatures |-> [a \in {} |-> Null]]
  /\ guidCounter = 0
  /\ budget = Budget

-----------------------------------------------------------------------------
(* The API, called from any script that uses it.                              *)

Call(scripts) ==
  /\ pc \in scripts
  /\ budget > 0
  /\ budget' = budget - 1

Queue(obj) ==
  \E x \in Fresh(DOMAIN heap) :
    /\ eventMap' = Enqueue(eventMap, gameTime, x)
    /\ heap' = New(heap, x, obj)

\* It queues a cast event, and only for an idle player; it asks neither whether
\* the spell is on cooldown nor whether another cast is queued.
CastSpellByName(s, c) ==
  /\ Call(CastScripts)
  /\ IsIdle
  /\ Queue([type |-> "castPre", spell |-> s, target |-> c, gcdRecovery |-> 0])
  /\ UNCHANGED <<gameTime, exitable, pc, current, player, auras>>

UnitApplyAura(call) ==
  /\ Call(AuraScripts)
  /\ Queue(call)
  /\ UNCHANGED <<gameTime, exitable, pc, current, player, auras>>

StopCasting ==
  /\ Call(StopScripts)
  /\ castingSpell # Null
  /\ castingSpell' = Null
  /\ UNCHANGED <<eventSystem, pc, current, heap, globalCooldown, spellCooldown,
                 auras>>

PlayerSleep(n) ==
  /\ Call(SleepScripts)
  /\ IsIdle
  /\ globalCooldown' = gameTime + n
  /\ UNCHANGED <<eventSystem, pc, current, heap, castingSpell, spellCooldown,
                 auras>>

FinalizeCalculation ==
  /\ Call(Scripts)
  /\ ~exitable
  /\ exitable' = TRUE
  /\ UNCHANGED <<eventMap, gameTime, pc, current, heap, player, auras>>

ScriptNext ==
  \/ \E call \in CastCalls : CastSpellByName(call[1], call[2])
  \/ \E call \in ApplyCalls : UnitApplyAura(call)
  \/ StopCasting
  \/ \E n \in SleepTimes : PlayerSleep(n)
  \/ FinalizeCalculation

-----------------------------------------------------------------------------
(* The loop of Perform and the rest of ProcessEvent.                          *)

BeginLoop ==
  /\ pc = "start"
  /\ pc' = "loop"
  /\ UNCHANGED <<eventSystem, current, heap, player, auras, budget>>

\* Slip: the loop does not ask IsExitable.
StartLoop_IgnoresExit ==
  /\ pc = "loop"
  /\ gameTime < TimeLimit
  /\ pc' = "batch"
  /\ UNCHANGED <<eventSystem, current, heap, player, auras, budget>>

StartLoop ==
  /\ pc = "loop"
  /\ ~exitable
  /\ gameTime < TimeLimit
  /\ pc' = "batch"
  /\ UNCHANGED <<eventSystem, current, heap, player, auras, budget>>

Stop ==
  /\ pc = "loop"
  /\ exitable \/ gameTime >= TimeLimit
  /\ pc' = "done"
  /\ UNCHANGED <<eventSystem, current, heap, player, auras, budget>>

\* Nothing is due: the clock goes to the first event, or to the end of the
\* global cooldown if that is sooner.
Advance ==
  /\ pc = "batch"
  /\ ~HasDue(eventMap, gameTime)
  /\ \/ /\ eventMap = EmptyMap
        /\ gameTime' = gameTime + Wait
     \/ \E t \in DOMAIN eventMap :
          /\ IsFirst(eventMap, t)
          /\ gameTime' = IF Wait # 0 /\ gameTime + Wait < t
                           THEN gameTime + Wait ELSE t
  /\ UNCHANGED <<eventMap, exitable, current, heap, player, auras, budget>>
  /\ pc' = AfterProcessEvent

EndIdle ==
  /\ pc = "idle"
  /\ pc' = "loop"
  /\ UNCHANGED <<eventSystem, current, heap, player, auras, budget>>

Terminated == pc = "done" /\ UNCHANGED vars

Engine == \/ BeginLoop \/ StartLoop \/ Stop \/ Advance \/ EndIdle
          \/ SpellNext \/ AuraNext

Next == Engine \/ ScriptNext \/ Terminated

Spec == Init /\ [][Next]_vars

\* One thread: it does not stop between two steps, and every script returns.
-----------------------------------------------------------------------------
IsFunctionOn(f, S) == f = [x \in S |-> f[x]]

TypeOK ==
  /\ IsEventMap(eventMap, Addr)
  /\ gameTime \in Nat
  /\ exitable \in BOOLEAN
  /\ pc \in Control
  /\ current \in IF pc \in Hooks THEN Addr ELSE {Null}
  /\ IsFunctionOn(heap, DOMAIN heap)
  /\ DOMAIN heap \subseteq Addr
  /\ \A x \in DOMAIN heap : heap[x] \in EventObjects
  /\ castingSpell \in Addr \cup {Null}
  /\ globalCooldown \in Nat
  /\ spellCooldown \in [Spells -> Nat]
  /\ IsFunctionOn(auraMap, Creatures)
  /\ \A c \in Creatures :
       /\ IsFunctionOn(auraMap[c], DOMAIN auraMap[c])
       /\ DOMAIN auraMap[c] \subseteq Auras
       /\ \A a \in DOMAIN auraMap[c] : auraMap[c][a] \in AuraObjects
  /\ guidCounter \in Nat
  /\ budget \in 0..Budget

-----------------------------------------------------------------------------
(* The event objects (pointers in the list, in CPlayer and in m_Parent).      *)

\* The events that exist are the events that are queued, each of them once:
\* none is deleted while queued, none is deleted twice, none is forgotten.
HeapIsQueue ==
  /\ DOMAIN heap = Queued(eventMap)
  /\ NoDuplicates(eventMap)

\* m_CastingSpell is the address of an existing cast event that still has its
\* second run to come, even though nothing clears it when an event is deleted.
CastingSpellLives ==
  castingSpell # Null =>
    /\ castingSpell \in DOMAIN heap
    /\ heap[castingSpell].type = "castPost"
    /\ \A t \in DOMAIN eventMap : IsDueAt(eventMap, castingSpell, t) => gameTime <= t

\* A tick's m_Parent is read after the parent may have been stopped: it is
\* still the cast event of that channel, queued for later than the tick, so its
\* address cannot belong to a newer cast.
TickParentLives ==
  \A x \in DOMAIN heap : heap[x].type \in {"tickPre", "tickPost"} =>
    /\ heap[x].parent \in DOMAIN heap
    /\ heap[heap[x].parent].type = "castPost"
    /\ heap[heap[x].parent].spell = heap[x].spell
    /\ \A t, u \in DOMAIN eventMap :
         IsDueAt(eventMap, x, t) /\ IsDueAt(eventMap, heap[x].parent, u) => t < u

\* Every pointer to an event object, of the queue, of the player and of a tick,
\* points to one that exists, and to the one it was set to.
PointersLive == HeapIsQueue /\ CastingSpellLives /\ TickParentLives


-----------------------------------------------------------------------------
(* Auras.                                                                     *)

\* An aura that has a time to fade has a removal event that carries its GUID,
\* queued no later than that time: it cannot stay for good.
TimedAuraHasRemoval ==
  \A c \in Creatures : \A a \in DOMAIN auraMap[c] :
    auraMap[c][a].fadeTime # 0 =>
      \E x \in DOMAIN heap :
        /\ heap[x].type = "remove"
        /\ heap[x].target = c /\ heap[x].aura = a
        /\ heap[x].guid = auraMap[c][a].guid

\* UnitAuraApplied subtracts the clock from the fade time in uint32: an aura is
\* never found after its time.  Left out are the auras that a spell forces to
\* fade, whose time becomes 1, and those that haste shortens: a refresh may then
\* set a time before the removal that is already queued.
RemainingNotNegative ==
  \A c \in Creatures : \A a \in DOMAIN auraMap[c] :
    auraMap[c][a].fadeTime \notin {0, 1} /\ ~AuraData[a].hasteEnabled
      => auraMap[c][a].fadeTime >= gameTime

\* An aura with a time to fade goes in time: its removal is coming, and while it
\* is there it has time left.
AurasFadeInTime == TimedAuraHasRemoval /\ RemainingNotNegative

\* One aura has one chain of ticks, however often it was refreshed.
OneTickChain ==
  \A x, y \in DOMAIN heap :
    /\ heap[x].type = "periodic" /\ heap[y].type = "periodic"
    /\ heap[x].target = heap[y].target /\ heap[x].aura = heap[y].aura
    /\ FindsItsAura(x) /\ FindsItsAura(y)
    => x = y

-----------------------------------------------------------------------------
\* One instant ends: ProcessEvent does not go round for ever on events that
\* re-add themselves for the time it already is.
InstantEnds == (pc = "batch") ~> (pc \in {"loop", "idle"})

\* A script that asks for the end gets it, whatever is still queued.
EndIsReached == exitable ~> (pc = "done")
=============================================================================
