----------------------------- MODULE SpellEvents -----------------------------
(* CSpellEvent: a cast event runs twice, before and after its cast time, and  *)
(* a channelled spell has a tick event for every tick, which also runs twice. *)
EXTENDS SimState

\* GetCastTime(); the additional cast time a script may give is part of the set.
CastTimes(s) == HastedTimes(SpellData[s].castTime)

\* Slip: the last tick at the end of the channel.
TickDelay_AtTheEnd(s, c, i) == (c * i) \div SpellData[s].ticks

\* The delay of tick i of a channel that lasts c (rounded down, then less one:
\* the last tick runs before the cast event that ends the channel).
TickDelay(s, c, i) == (c * i) \div SpellData[s].ticks - 1

\* The tick events of a channel, added in order.  They are at different times
\* (ChannelAssumption), so each goes to the end of a list of its own.
EnqueueTicks(m, s, c, k) ==
  LET at == [i \in DOMAIN k |-> gameTime + TickDelay(s, c, i)]
  IN  [u \in DOMAIN m \cup {at[i] : i \in DOMAIN k} |->
         IF \E i \in DOMAIN k : at[i] = u
           THEN Append(ListAt(m, u), k[CHOOSE i \in DOMAIN k : at[i] = u])
           ELSE m[u]]

\* The addresses of n new objects.
Allocations(n) ==
  {k \in [1..n -> Addr] :
     \A i \in 1..n : k[i] \in Fresh(DOMAIN heap \cup {k[j] : j \in 1..(i - 1)})}

TickEvent(s, c, p) ==
  [type |-> "tickPre", spell |-> s, target |-> c, parent |-> p]

-----------------------------------------------------------------------------
(* The cast event, first run.                                                 *)

RejectCast(x) ==
  /\ IsNext(x) /\ heap[x].type = "castPre"
  /\ ~IsIdle
  /\ UNCHANGED <<player, auras, budget>>
  /\ ReturnAndDelete(x, eventMap)

\* The player is still idle in PreCastingSpellRoutine.
BeginCast(x) ==
  /\ IsNext(x) /\ heap[x].type = "castPre"
  /\ IsIdle
  /\ CallHook(x, "PreCastingSpell")
  /\ UNCHANGED <<eventSystem, heap, player, auras, budget>>

\* The object becomes a POST event and is queued for the end of the cast.
StartCast(g, c) ==
  LET x == current
      s == heap[x].spell
  IN  /\ pc = "PreCastingSpell"
      /\ ~IsChannel(s)
      /\ castingSpell' = x
      /\ UNCHANGED <<globalCooldown, spellCooldown, auras, budget>>
      /\ Return(Enqueue(eventMap, gameTime + c, x))
      /\ heap' = [heap EXCEPT ![x].type = "castPost",
                              ![x].gcdRecovery = gameTime + g]

\* A channel rolls its hit first; a miss costs the global cooldown.
MissChannel(g) ==
  /\ pc = "PreCastingSpell"
  /\ IsChannel(heap[current].spell)
  /\ globalCooldown' = gameTime + g
  /\ castingSpell' = Null
  /\ UNCHANGED <<spellCooldown, auras, budget>>
  /\ ReturnAndDelete(current, eventMap)

StartChannel(g, c) ==
  LET x == current
      s == heap[x].spell
  IN  /\ pc = "PreCastingSpell"
      /\ IsChannel(s)
      /\ castingSpell' = x
      /\ UNCHANGED <<globalCooldown, spellCooldown, auras, budget>>
      /\ \E k \in Allocations(SpellData[s].ticks) :
           /\ Return(Enqueue(EnqueueTicks(eventMap, s, c, k), gameTime + c, x))
           /\ heap' = [y \in DOMAIN heap \cup {k[i] : i \in DOMAIN k} |->
                         IF y = x
                           THEN [heap[x] EXCEPT !.type = "castPost",
                                                !.gcdRecovery = gameTime + g]
                         ELSE IF y \in DOMAIN heap THEN heap[y]
                         ELSE TickEvent(s, heap[x].target, x)]

FinishPreCasting ==
  \E g \in GcdTimes :
    \/ MissChannel(g)
    \/ /\ pc = "PreCastingSpell"
       /\ \E c \in CastTimes(heap[current].spell) :
            StartCast(g, c) \/ StartChannel(g, c)

-----------------------------------------------------------------------------
(* The aura a spell leaves: PostAction, before the Lua call, for a cast and   *)
(* for every tick of a channel.                                               *)

\* The forced removal of an aura that the PLAYER has, whoever the target is.
\* Its m_AuraGUID is never set: any value a GUID has had, or none of them.
ForcedRemovals(x) ==
  LET a == SpellData[heap[x].spell].aura
  IN  IF ~HasAura(Player, a) THEN {<< >>}
      ELSE {<<[type |-> "remove", aura |-> a, target |-> heap[x].target,
               guid |-> g]>> : g \in 0..guidCounter}

Application(x) ==
  [type |-> "apply", aura |-> SpellData[heap[x].spell].aura,
   target |-> heap[x].target, stacks |-> 1,
   fade |-> SpellData[heap[x].spell].fade, setFade |-> TRUE]

QueueSpellAura(x) ==
  LET a == SpellData[heap[x].spell].aura
  IN  IF a = Null
        THEN UNCHANGED <<eventMap, heap, auraMap>>
        ELSE \E f \in ForcedRemovals(x) :
               IF f = << >>
                 THEN \E y \in Fresh(DOMAIN heap) :
                        /\ eventMap' = Enqueue(eventMap, gameTime, y)
                        /\ heap' = New(heap, y, Application(x))
                        /\ UNCHANGED auraMap
                 ELSE \E z \in Fresh(DOMAIN heap) :
                      \E y \in Fresh(DOMAIN heap \cup {z}) :
                        /\ eventMap' = Enqueue(Enqueue(eventMap, gameTime, z),
                                               gameTime, y)
                        /\ heap' = New(New(heap, z, f[1]), y, Application(x))
                        /\ auraMap' = [auraMap EXCEPT
                                         ![Player][a].fadeTime = 1]

-----------------------------------------------------------------------------
(* The cast event, second run.                                                *)

\* The cast was stopped: m_CastingSpell is not this event any more.
AbandonCast(x) ==
  /\ IsNext(x) /\ heap[x].type = "castPost"
  /\ castingSpell # x
  /\ UNCHANGED <<player, auras, budget>>
  /\ ReturnAndDelete(x, eventMap)

\* Slip: a miss costs no global cooldown.
MissCast_NoCooldown(x) ==
  /\ IsNext(x) /\ heap[x].type = "castPost"
  /\ castingSpell = x
  /\ castingSpell' = Null
  /\ UNCHANGED <<globalCooldown, spellCooldown, auras, budget>>
  /\ ReturnAndDelete(x, eventMap)

MissCast(x) ==
  /\ IsNext(x) /\ heap[x].type = "castPost"
  /\ castingSpell = x
  /\ globalCooldown' = heap[x].gcdRecovery
  /\ castingSpell' = Null
  /\ UNCHANGED <<spellCooldown, auras, budget>>
  /\ ReturnAndDelete(x, eventMap)

HitCast(x) ==
  /\ IsNext(x) /\ heap[x].type = "castPost"
  /\ castingSpell = x
  /\ QueueSpellAura(x)
  /\ CallHook(x, "PostCastingSpell")
  /\ UNCHANGED <<gameTime, exitable, player, guidCounter, budget>>

\* Cooldown, global cooldown, and the player is free again.
FinishPostCasting ==
  LET x == current
      s == heap[x].spell
  IN  /\ pc = "PostCastingSpell"
      /\ spellCooldown' =
           IF SpellData[s].cooldown = 0 THEN spellCooldown
           ELSE [spellCooldown EXCEPT ![s] = gameTime + SpellData[s].cooldown]
      /\ globalCooldown' = heap[x].gcdRecovery
      /\ castingSpell' = Null
      /\ UNCHANGED <<auras, budget>>
      /\ ReturnAndDelete(x, eventMap)

-----------------------------------------------------------------------------
(* The tick event, both runs: it lives only while its channel is being cast.  *)

SkipTick(x) ==
  /\ IsNext(x) /\ heap[x].type \in {"tickPre", "tickPost"}
  /\ castingSpell # heap[x].parent
  /\ UNCHANGED <<player, auras, budget>>
  /\ ReturnAndDelete(x, eventMap)

BeginTick(x) ==
  /\ IsNext(x) /\ heap[x].type = "tickPre"
  /\ castingSpell = heap[x].parent
  /\ CallHook(x, "PreSpellChannel")
  /\ UNCHANGED <<eventSystem, heap, player, auras, budget>>

FinishPreChannel ==
  /\ pc = "PreSpellChannel"
  /\ UNCHANGED <<player, auras, budget>>
  /\ Return(Enqueue(eventMap, gameTime, current))
  /\ heap' = [heap EXCEPT ![current].type = "tickPost"]

MissTick(x) ==
  /\ IsNext(x) /\ heap[x].type = "tickPost"
  /\ castingSpell = heap[x].parent
  /\ UNCHANGED <<player, auras, budget>>
  /\ ReturnAndDelete(x, eventMap)

HitTick(x) ==
  /\ IsNext(x) /\ heap[x].type = "tickPost"
  /\ castingSpell = heap[x].parent
  /\ QueueSpellAura(x)
  /\ CallHook(x, "PostSpellChannel")
  /\ UNCHANGED <<gameTime, exitable, player, guidCounter, budget>>

FinishPostChannel ==
  /\ pc = "PostSpellChannel"
  /\ UNCHANGED <<player, auras, budget>>
  /\ ReturnAndDelete(current, eventMap)

SpellNext ==
  \/ \E x \in DOMAIN heap :
       \/ RejectCast(x) \/ BeginCast(x)
       \/ AbandonCast(x) \/ MissCast(x) \/ HitCast(x)
       \/ SkipTick(x) \/ BeginTick(x) \/ MissTick(x) \/ HitTick(x)
  \/ FinishPreCasting \/ FinishPostCasting
  \/ FinishPreChannel \/ FinishPostChannel
=============================================================================
