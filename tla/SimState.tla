------------------------------ MODULE SimState ------------------------------
(* The state that spell events, aura events, scripts and the main loop share: *)
(* the event system, the event objects on the heap, the player and the auras  *)
(* of the creatures.                                                          *)
(*                                                                            *)
(* Every handler (CSpellEvent and CAuraEvent::operator()) is cut where it     *)
(* calls a Lua routine: one action runs it up to the call and leaves pc at    *)
(* the routine, scripts then call the API, another action runs the rest.      *)
EXTENDS EventMap

CONSTANTS
  Addr,            \* the addresses operator new can return
  Null,            \* NULL
  Fresh(_),        \* the addresses it may return, given the ones in use
  Creatures, Player,
  Spells, SpellData,
  Auras, AuraData,
  HastedTimes(_),  \* what GetCastTimeWithHaste can make of a time
  GcdTimes,        \* what Get_GlobalCooldownTime can return
  TimeLimit        \* the 2000000000 of Perform's loop

ASSUME AddrAssumption ==
  /\ Null \notin Addr
  /\ \A used \in SUBSET Addr : Fresh(used) \subseteq Addr \ used

ASSUME PlayerAssumption == Player \in Creatures

\* A spell with ticks > 0 is a channel; one with aura = Null applies none.
ASSUME SpellAssumption ==
  /\ SpellData \in [Spells -> [castTime : Nat, ticks : Nat, cooldown : Nat,
                               aura : Auras \cup {Null}, fade : Nat]]
  /\ Null \notin Auras
  /\ GcdTimes \subseteq Nat
  /\ TimeLimit \in Nat

\* A hasted channel lasts at least one unit of time for each tick.  The code
\* does not test it: below that, the "- 1" of the tick delay would wrap.
ASSUME ChannelAssumption ==
  \A s \in Spells : \A c \in HastedTimes(SpellData[s].castTime) :
    c \in Nat /\ c >= SpellData[s].ticks

\* period is the time between two ticks; it counts when periodic is set.
ASSUME AuraAssumption ==
  /\ AuraData \in [Auras -> [periodic : BOOLEAN, hasteEnabled : BOOLEAN,
                             period : Nat \ {0}]]
  /\ \A a \in Auras : HastedTimes(AuraData[a].period) \subseteq Nat \ {0}

VARIABLES
  eventMap,        \* CEventSystem::m_eventMap
  gameTime,        \* CEventSystem::m_iGameTime
  exitable,        \* CEventSystem::m_bExitable
  pc,              \* where the thread is
  current,         \* pCurrentEvent
  heap,            \* the CEvent objects that exist, by address
  castingSpell,    \* CPlayer::m_CastingSpell
  globalCooldown,  \* CPlayer::m_iGlabalCooldownRecovery
  spellCooldown,   \* CPlayer::m_CooldownMap; 0 where it has no entry
  auraMap,         \* CCreature::m_auraMap of every creature
  guidCounter,     \* CAura::m_iGUIDCounter
  budget           \* API calls left to the scripts

eventSystem == <<eventMap, gameTime, exitable>>
player == <<castingSpell, globalCooldown, spellCooldown>>
auras == <<auraMap, guidCounter>>
vars == <<eventMap, gameTime, exitable, pc, current, heap, castingSpell,
          globalCooldown, spellCooldown, auraMap, guidCounter, budget>>

-----------------------------------------------------------------------------
\* The routines of main.toc that the handlers and the loop call.
Hooks == {"PreCastingSpell", "PostCastingSpell", "PreSpellChannel",
          "PostSpellChannel", "AuraApplication", "AuraFade", "PeriodicEvent"}

Scripts == Hooks \cup {"start", "idle"}

Control == Scripts \cup {"loop", "batch", "done"}

\* The two classes of events.  The code keeps one m_EventType; PRE and POST of
\* the same object are two types here.
CastEvents ==
  [type : {"castPre", "castPost"}, spell : Spells, target : Creatures,
   gcdRecovery : Nat]
TickEvents ==
  [type : {"tickPre", "tickPost"}, spell : Spells, target : Creatures,
   parent : Addr]
ApplyEvents ==
  [type : {"apply"}, aura : Auras, target : Creatures, stacks : Nat,
   fade : Nat, setFade : BOOLEAN]
RemoveEvents ==
  [type : {"remove"}, aura : Auras, target : Creatures, guid : Nat]
PeriodicEvents ==
  [type : {"periodic"}, aura : Auras, target : Creatures, guid : Nat,
   period : Nat]

EventObjects == CastEvents \cup TickEvents \cup ApplyEvents \cup RemoveEvents
                \cup PeriodicEvents

AuraObjects == [guid : Nat, ticks : Nat, fadeTime : Nat]

-----------------------------------------------------------------------------
IsChannel(s) == SpellData[s].ticks > 0

\* CPlayer::IsIdle and the driver's use of CPlayer::Get_SpellCooldown(0): spell
\* identifiers begin at 1, so only the global cooldown is left.
IsIdle == castingSpell = Null /\ globalCooldown <= gameTime

Wait == IF globalCooldown > gameTime THEN globalCooldown - gameTime ELSE 0

HasAura(c, a) == a \in DOMAIN auraMap[c]

\* The heap after new and after delete.
New(h, x, obj) == [y \in DOMAIN h \cup {x} |-> IF y = x THEN obj ELSE h[y]]
Delete(h, x) == [y \in DOMAIN h \ {x} |-> h[y]]

\* x is the event ProcessEvent is about to run.
IsNext(x) ==
  /\ pc = "batch"
  /\ \E t \in DOMAIN eventMap : /\ IsFirst(eventMap, t)
                                /\ t <= gameTime
                                /\ x = Head(eventMap[t])

\* The handler of x has reached its Lua call.
CallHook(x, hook) ==
  /\ pc' = hook
  /\ current' = x

\* ProcessEvent has returned: Perform asks whether the player is idle.
AfterProcessEvent ==
  IF castingSpell' = Null /\ globalCooldown' <= gameTime' THEN "idle" ELSE "loop"

\* Slip: no SetCurrentEvent(NULL).
Return_KeepsCurrent(m) ==
  /\ \E t \in DOMAIN m : IsFirst(m, t) /\ eventMap' = PopFront(m, t)
  /\ UNCHANGED <<gameTime, exitable, current>>
  /\ pc' = IF HasDue(eventMap', gameTime) THEN "batch" ELSE AfterProcessEvent

\* The handler has returned and m is the map it leaves: its entry is popped, and
\* ProcessEvent goes on while something is due.
Return(m) ==
  /\ \E t \in DOMAIN m : IsFirst(m, t) /\ eventMap' = PopFront(m, t)
  /\ UNCHANGED <<gameTime, exitable>>
  /\ current' = Null
  /\ pc' = IF HasDue(eventMap', gameTime) THEN "batch" ELSE AfterProcessEvent

\* The handler of x has returned nonzero, or zero.
ReturnAndDelete(x, m) == Return(m) /\ heap' = Delete(heap, x)
ReturnAndKeep(m) == Return(m) /\ UNCHANGED heap
=============================================================================
