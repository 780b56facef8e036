------------------------------- MODULE Effects -------------------------------
(* The effects of items: script objects that wrap the routines of the         *)
(* simulator.  An effect is triggered in one routine, adds to a stat in a     *)
(* second and takes it back in a third; the event system is all that connects *)
(* the three.                                                                 *)
EXTENDS Simulator

CONSTANTS Effects, EffectData

\* cooldown: EffectWithCooldownProto; stackable: EffectStackableProto; chain:
\* DislodgedObject, whose aura applies itself again until it has been there max
\* times.
Kinds == {"cooldown", "stackable", "chain"}

ProcHooks == {"PostCastingSpell", "PostSpellChannel", "PeriodicEvent"}

\* Every effect adds an aura of its own (AuraAdd gives it a new identifier), which
\* no spell leaves and no other script applies.  An effect that its routines
\* trigger is not ready again before its aura fades (stackable ones may be); one
\* that a player uses may have any cooldown (SetParam divides it).
ASSUME EffectAssumption ==
  /\ EffectData \in [Effects -> [kind : Kinds, aura : Auras, useable : BOOLEAN,
                                 cooldown : Nat, fade : Nat \ {0}, max : Nat \ {0},
                                 procs : SUBSET ProcHooks,
                                 needs : Effects \cup {Null}]]
  /\ Null \notin Effects /\ Null \notin Nat
  /\ \A e, f \in Effects : EffectData[e].aura = EffectData[f].aura => e = f
  /\ \A e \in Effects :
       LET d == EffectData[e]
       IN  /\ ~AuraData[d.aura].hasteEnabled /\ ~AuraData[d.aura].periodic
           /\ HastedTimes(d.fade) \subseteq Nat
           /\ \A s \in Spells : SpellData[s].aura # d.aura
           /\ \A call \in ApplyCalls : call.aura # d.aura
           /\ d.useable => d.kind = "cooldown" /\ d.procs = {}
           /\ d.procs # {} /\ d.kind = "cooldown" => d.cooldown >= d.fade
           /\ d.kind = "chain" => d.cooldown >= d.max * (d.fade + 1)

VARIABLES
  lastTime,   \* LastTime (LastTickTime), or Null
  stacks,     \* stacks (Stacks); of a cooldown effect 1 while "applied" is set
  bonus,      \* what the calls of PlayerAddStats add up to, in units of one call
  ran         \* the effect has had its part of the routine that pc is at

ledger == <<lastTime, stacks, bonus>>
evars == <<vars, ledger, ran>>

EInit ==
  /\ Init
  /\ lastTime = [e \in Effects |-> Null]
  /\ stacks = [e \in Effects |-> 0]
  /\ bonus = [e \in Effects |-> 0]
  /\ ran = FALSE

-----------------------------------------------------------------------------
(* Being triggered.                                                           *)

IsCooldown(e) ==
  lastTime[e] # Null => gameTime - lastTime[e] > EffectData[e].cooldown

\* conditionFunc: another effect's applyFunc has set its flag.
Condition(e) ==
  EffectData[e].needs # Null => stacks[EffectData[e].needs] > 0

QueueAura(e, n) ==
  /\ Queue([type |-> "apply", aura |-> EffectData[e].aura, target |-> Player,
            stacks |-> n, fade |-> EffectData[e].fade, setFade |-> TRUE])
  /\ UNCHANGED <<gameTime, exitable, pc, current, player, auras, budget>>

\* The routine is wrapped, the die falls, and the cooldown starts.
Trigger(e) ==
  /\ pc \in EffectData[e].procs
  /\ Condition(e)
  /\ IsCooldown(e)
  /\ lastTime' = [lastTime EXCEPT ![e] = gameTime]

ProcCooldown(e) ==
  /\ EffectData[e].kind = "cooldown"
  /\ Trigger(e)
  /\ QueueAura(e, 1)
  /\ UNCHANGED <<stacks, bonus, ran>>

\* Slip: the aura is always given a stack.
ProcStackable_Always(e) ==
  /\ EffectData[e].kind = "stackable"
  /\ Trigger(e)
  /\ QueueAura(e, 1)
  /\ UNCHANGED <<stacks, bonus, ran>>

ProcStackable(e) ==
  /\ EffectData[e].kind = "stackable"
  /\ Trigger(e)
  /\ QueueAura(e, IF stacks[e] < EffectData[e].max THEN 1 ELSE 0)
  /\ UNCHANGED <<stacks, bonus, ran>>

\* The chain adds to the stat before its aura is there.
ProcChain(e) ==
  /\ EffectData[e].kind = "chain"
  /\ Trigger(e)
  /\ QueueAura(e, 1)
  /\ bonus' = [bonus EXCEPT ![e] = @ + 1]
  /\ UNCHANGED <<stacks, ran>>

\* Slip: IsReady does not ask whether the effect is applied.
Use_Again(e) ==
  /\ pc = "idle"
  /\ EffectData[e].useable
  /\ IsCooldown(e)
  /\ lastTime' = [lastTime EXCEPT ![e] = gameTime]
  /\ QueueAura(e, 1)
  /\ UNCHANGED <<stacks, bonus, ran>>

Use(e) ==
  /\ pc = "idle"
  /\ EffectData[e].useable
  /\ stacks[e] = 0
  /\ IsCooldown(e)
  /\ lastTime' = [lastTime EXCEPT ![e] = gameTime]
  /\ QueueAura(e, 1)
  /\ UNCHANGED <<stacks, bonus, ran>>

\* An idle player uses what is ready, in any order.
UseAllUseable == \E e \in Effects : Use(e)

-----------------------------------------------------------------------------
(* The aura is applied, or fades.                                             *)

\* The part of effect e in routine hook is due.
IsAt(e, hook) ==
  /\ pc = hook
  /\ heap[current].aura = EffectData[e].aura
  /\ ~ran

\* Every application adds, a refresh, too.
ApplyCooldown(e) ==
  /\ EffectData[e].kind = "cooldown"
  /\ IsAt(e, "AuraApplication")
  /\ bonus' = [bonus EXCEPT ![e] = @ + 1]
  /\ stacks' = [stacks EXCEPT ![e] = 1]
  /\ ran' = TRUE
  /\ UNCHANGED <<vars, lastTime>>

ApplyStackable(e) ==
  /\ EffectData[e].kind = "stackable"
  /\ IsAt(e, "AuraApplication")
  /\ IF stacks[e] < EffectData[e].max
       THEN /\ bonus' = [bonus EXCEPT ![e] = @ + 1]
            /\ stacks' = [stacks EXCEPT ![e] = @ + 1]
       ELSE UNCHANGED <<bonus, stacks>>
  /\ ran' = TRUE
  /\ UNCHANGED <<vars, lastTime>>

FadeCooldown(e) ==
  /\ EffectData[e].kind = "cooldown"
  /\ IsAt(e, "AuraFade")
  /\ bonus' = [bonus EXCEPT ![e] = @ - 1]
  /\ stacks' = [stacks EXCEPT ![e] = 0]
  /\ ran' = TRUE
  /\ UNCHANGED <<vars, lastTime>>

\* fadeFunc runs once for every stack.
FadeStackable(e) ==
  /\ EffectData[e].kind = "stackable"
  /\ IsAt(e, "AuraFade")
  /\ bonus' = [bonus EXCEPT ![e] = @ - stacks[e]]
  /\ stacks' = [stacks EXCEPT ![e] = 0]
  /\ ran' = TRUE
  /\ UNCHANGED <<vars, lastTime>>

\* Slip: one more link.
FadeChain_OneMore(e) ==
  /\ EffectData[e].kind = "chain"
  /\ IsAt(e, "AuraFade")
  /\ IF stacks[e] + 1 <= EffectData[e].max
       THEN /\ QueueAura(e, 1)
            /\ bonus' = [bonus EXCEPT ![e] = @ + 1]
            /\ stacks' = [stacks EXCEPT ![e] = @ + 1]
       ELSE /\ bonus' = [bonus EXCEPT ![e] = @ - EffectData[e].max]
            /\ stacks' = [stacks EXCEPT ![e] = 0]
            /\ UNCHANGED vars
  /\ ran' = TRUE
  /\ UNCHANGED lastTime

\* The next link, or everything is taken back.
FadeChain(e) ==
  /\ EffectData[e].kind = "chain"
  /\ IsAt(e, "AuraFade")
  /\ IF stacks[e] + 1 < EffectData[e].max
       THEN /\ QueueAura(e, 1)
            /\ bonus' = [bonus EXCEPT ![e] = @ + 1]
            /\ stacks' = [stacks EXCEPT ![e] = @ + 1]
       ELSE /\ bonus' = [bonus EXCEPT ![e] = @ - EffectData[e].max]
            /\ stacks' = [stacks EXCEPT ![e] = 0]
            /\ UNCHANGED vars
  /\ ran' = TRUE
  /\ UNCHANGED lastTime

EffectNext ==
  \/ \E e \in Effects :
       \/ ProcCooldown(e) \/ ProcStackable(e) \/ ProcChain(e)
       \/ ApplyCooldown(e) \/ ApplyStackable(e)
       \/ FadeCooldown(e) \/ FadeStackable(e) \/ FadeChain(e)
  \/ UseAllUseable

-----------------------------------------------------------------------------
\* The routine of an aura is not left before its effect has had its part; a
\* chain does not wrap AuraApplicationRoutine.
HookHasRun ==
  \A e \in Effects :
    /\ ~IsAt(e, "AuraFade")
    /\ EffectData[e].kind # "chain" => ~IsAt(e, "AuraApplication")

EngineStep == Engine /\ HookHasRun /\ ran' = FALSE /\ UNCHANGED ledger

OtherStep == (ScriptNext \/ Terminated) /\ UNCHANGED <<ledger, ran>>

ENext == EngineStep \/ OtherStep \/ EffectNext

ESpec == EInit /\ [][ENext]_evars

-----------------------------------------------------------------------------
HasEffectAura(e) == HasAura(Player, EffectData[e].aura)

IsQueued(e) ==
  \E x \in DOMAIN heap :
    heap[x].type = "apply" /\ heap[x].aura = EffectData[e].aura

\* The routines of auras are not running.
Settled == pc \notin {"AuraApplication", "AuraFade"}

\* What an effect has added and not taken back is what its aura stands for: one
\* unit, or its stacks, while the aura is on the player and nothing without it.
\* It is two different events, each of which other events can precede, that add
\* and take back.
LedgerBalanced ==
  Settled => \A e \in Effects :
    CASE EffectData[e].kind = "cooldown" ->
           bonus[e] = IF HasEffectAura(e) THEN 1 ELSE 0
      [] EffectData[e].kind = "stackable" ->
           /\ bonus[e] = stacks[e]
           /\ bonus[e] \in IF HasEffectAura(e) THEN 1..EffectData[e].max ELSE {0}
      [] EffectData[e].kind = "chain" ->
           bonus[e] = IF HasEffectAura(e) \/ IsQueued(e) THEN stacks[e] + 1 ELSE 0

\* A bonus does not outlive its trigger by more than the life of its aura, or of
\* the links of a chain: no refresh is without a new trigger, and no removal is
\* lost.
BonusExpires ==
  \A e \in Effects : bonus[e] # 0 =>
    LET links == IF EffectData[e].kind = "chain" THEN EffectData[e].max ELSE 1
    IN  gameTime <= lastTime[e] + links * (EffectData[e].fade + 1)

\* The stacks the event system shows are those the script counts, or one less:
\* the stack that is not given at the maximum is lost when the aura fades before
\* the application.
StacksAgree ==
  Settled => \A e \in Effects :
    EffectData[e].kind = "stackable" /\ HasEffectAura(e) =>
      auraMap[Player][EffectData[e].aura].ticks \in {stacks[e] - 1, stacks[e]}
=============================================================================
