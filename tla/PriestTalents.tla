---------------------------- MODULE PriestTalents ----------------------------
(* The talents and the glyph of the priest: what the routines of Talent.lua,  *)
(* and of Glyph.lua, which wraps them, do to auras and to the player's stats. *)
(* Talents that only change the numbers of the event in progress are left     *)
(* out.                                                                       *)
EXTENDS Simulator

CONSTANTS
  Talents,                           \* the talents that are enabled
  ShadowSpells, MindBlast, MindFlay,
  Weave, Misery, Tap, Insight, Pain, \* the auras
  FadeOf,                            \* their fadetime arguments
  MaxWeaves,                         \* 5
  Spirit, TappedSpirit               \* the spirit without and with the tap

ASSUME TalentAssumption ==
  /\ ShadowSpells \subseteq Spells
  /\ {Weave, Misery, Tap, Insight, Pain} \subseteq Auras
  /\ \A a \in {Weave, Misery, Tap, Insight} :
       ~AuraData[a].periodic /\ ~AuraData[a].hasteEnabled
  /\ Weave \notin {Misery, Tap, Insight, Pain} /\ Tap # Insight
  /\ FadeOf \in [{Weave, Misery, Tap, Insight, Pain} -> Nat \ {0}]
  /\ \A a \in DOMAIN FadeOf : HastedTimes(FadeOf[a]) \subseteq Nat
  /\ MaxWeaves \in Nat \ {0}
  /\ Spirit \in Nat \ {0} /\ TappedSpirit \in Nat \ {0}

\* Only its talent applies Shadow Weaving; the global cooldown is a second or
\* more; the calls of StopCasting in the routines are commented out.
ASSUME WeaveAssumption ==
  /\ \A s \in Spells : SpellData[s].aura # Weave
  /\ \A call \in ApplyCalls : call.aura # Weave
  /\ 0 \notin GcdTimes
  /\ StopScripts \cap Hooks = {}

VARIABLES
  tapApplied,   \* SpiritTapApplied
  twisted,      \* TwistedFaithAddSP, in tenths
  insight,      \* SpiritAddDamage, in tenths
  spellPower,   \* PS_SPELL_POWER, in tenths
  ran           \* the routine that pc is at has run

stats == <<tapApplied, twisted, insight, spellPower>>
pvars == <<vars, stats, ran>>

\* PlayerGetStats(PS_SPIRIT), given the tap.
SpiritOf(tapped) == IF tapped THEN TappedSpirit ELSE Spirit

\* The preset sets the spirit when the talents are enabled.
StartTwisted == IF "TwistedFaith" \in Talents THEN 2 * Spirit ELSE 0

PInit ==
  /\ Init
  /\ tapApplied = FALSE
  /\ twisted = StartTwisted
  /\ insight = 0
  /\ spellPower = StartTwisted
  /\ ran = FALSE

-----------------------------------------------------------------------------
(* The routines of casts and channels queue applications.                     *)

Applied(a, c, n) ==
  <<[type |-> "apply", aura |-> a, target |-> c, stacks |-> n,
     fade |-> FadeOf[a], setFade |-> TRUE]>>

\* The aura is given its one stack, or refreshed without one.
ApplyOrRefresh(a, c) == Applied(a, c, IF HasAura(c, a) THEN 0 ELSE 1)

When(condition, q) == IF condition THEN q ELSE << >>

\* The objects of q, queued in their order for the time it is.
QueueAll(q) ==
  IF q = << >> THEN UNCHANGED <<eventMap, heap>>
  ELSE \E k \in Allocations(Len(q)) :
         /\ eventMap' = [u \in DOMAIN eventMap \cup {gameTime} |->
                           IF u = gameTime THEN ListAt(eventMap, u) \o k
                           ELSE eventMap[u]]
         /\ heap' = [y \in DOMAIN heap \cup {k[i] : i \in DOMAIN k} |->
                       IF y \in DOMAIN heap THEN heap[y]
                       ELSE q[CHOOSE i \in DOMAIN k : k[i] = y]]

RunQueueing(hook, q) ==
  /\ pc = hook
  /\ ~ran
  /\ ran' = TRUE
  /\ QueueAll(q)
  /\ UNCHANGED <<gameTime, exitable, pc, current, player, auras, budget, stats>>

\* Slip: "<=" for "<".
WeaveStacks_OneMore ==
  IF HasAura(Player, Weave) /\ auraMap[Player][Weave].ticks > MaxWeaves THEN 0 ELSE 1

\* The stack Shadow Weaving adds, as UnitAuraApplied shows it now.
WeaveStacks ==
  IF HasAura(Player, Weave) /\ auraMap[Player][Weave].ticks >= MaxWeaves THEN 0 ELSE 1

PreCastingSpellRoutine ==
  LET e == heap[current]
      shadow == e.spell \in ShadowSpells
  IN  RunQueueing("PreCastingSpell",
        When(shadow /\ "ShadowWeaving" \in Talents, Applied(Weave, Player, WeaveStacks))
        \o When(shadow /\ "Misery" \in Talents, ApplyOrRefresh(Misery, e.target)))

\* Pain and Suffering: the channel refreshes the pain that is on the target.
PreSpellChannelRoutine ==
  LET e == heap[current]
  IN  RunQueueing("PreSpellChannel",
        When(/\ e.spell = MindFlay
             /\ HasAura(e.target, Pain)
             /\ "PainAndSuffering" \in Talents,
             Applied(Pain, e.target, 0)))

\* The spell was a critical strike, or not.
PostCastingSpellRoutine ==
  \E crit \in BOOLEAN :
    LET e == heap[current]
    IN  RunQueueing("PostCastingSpell",
          When(crit /\ e.spell = MindBlast /\ "ImprovedSpiritTap" \in Talents,
               ApplyOrRefresh(Tap, e.target))
          \o When(crit /\ "Glyph" \in Talents, ApplyOrRefresh(Insight, e.target)))

\* The tap falls to a die, too.
PostSpellChannelRoutine ==
  \E crit, luck \in BOOLEAN :
    LET e == heap[current]
    IN  RunQueueing("PostSpellChannel",
          When(crit /\ luck /\ e.spell = MindFlay /\ "ImprovedSpiritTap" \in Talents,
               ApplyOrRefresh(Tap, e.target))
          \o When(crit /\ "Glyph" \in Talents, ApplyOrRefresh(Insight, e.target)))

-----------------------------------------------------------------------------
(* The routines of auras change the player's stats.                           *)

\* PlayerAddStatsMultiplier(PS_SPIRIT, ...), as Talent.lua redefines it: Twisted
\* Faith's share of the spell power follows the spirit.
SetTap(tapped) ==
  LET share == IF "TwistedFaith" \in Talents THEN 2 * SpiritOf(tapped) ELSE twisted
  IN  /\ tapApplied' = tapped
      /\ twisted' = share
      /\ spellPower' = spellPower - twisted + share

\* Slip: the share of a refreshed insight is not taken back.
SetInsight_AddsUp(share) ==
  /\ insight' = share
  /\ spellPower' = IF share = 0 THEN spellPower - insight ELSE spellPower + share

SetInsight(share) ==
  /\ insight' = share
  /\ spellPower' = spellPower - insight + share

AuraApplicationRoutine ==
  LET a == heap[current].aura
  IN  /\ pc = "AuraApplication"
      /\ ~ran
      /\ ran' = TRUE
      /\ UNCHANGED vars
      /\ \/ /\ a = Tap /\ ~tapApplied
            /\ SetTap(TRUE)
            /\ UNCHANGED insight
         \/ /\ a = Insight
            /\ SetInsight(3 * SpiritOf(tapApplied))
            /\ UNCHANGED <<tapApplied, twisted>>
         \/ /\ ~(a = Tap /\ ~tapApplied) /\ a # Insight
            /\ UNCHANGED stats

AuraFadeRoutine ==
  LET a == heap[current].aura
  IN  /\ pc = "AuraFade"
      /\ ~ran
      /\ ran' = TRUE
      /\ UNCHANGED vars
      /\ \/ /\ a = Tap /\ tapApplied
            /\ SetTap(FALSE)
            /\ UNCHANGED insight
         \/ /\ a = Insight
            /\ SetInsight(0)
            /\ UNCHANGED <<tapApplied, twisted>>
         \/ /\ ~(a = Tap /\ tapApplied) /\ a # Insight
            /\ UNCHANGED stats

-----------------------------------------------------------------------------
Routines ==
  \/ PreCastingSpellRoutine \/ PreSpellChannelRoutine
  \/ PostCastingSpellRoutine \/ PostSpellChannelRoutine
  \/ AuraApplicationRoutine \/ AuraFadeRoutine

\* No routine is left before it has run; the periodic ones queue nothing.
EngineStep ==
  /\ Engine
  /\ pc \in Hooks \ {"PeriodicEvent"} => ran
  /\ ran' = FALSE
  /\ UNCHANGED stats

OtherStep == (ScriptNext \/ Terminated) /\ UNCHANGED <<stats, ran>>

PNext == EngineStep \/ OtherStep \/ Routines

PSpec == PInit /\ [][PNext]_pvars

-----------------------------------------------------------------------------
OnSomebody(a) == \E c \in Creatures : HasAura(c, a)

\* The routines of auras are not running.
Settled == pc \notin {"AuraApplication", "AuraFade"}

\* Shadow Weaving never shows more than its five stacks, although the stack is
\* decided before the cast and added by a later event.
WeavesBounded ==
  HasAura(Player, Weave) => auraMap[Player][Weave].ticks <= MaxWeaves

\* Without the auras the stats are what they were: each of the two bonuses is
\* one number for every target that can carry its aura, and is computed from the
\* spirit that the other one changes.
StatsComeBack ==
  Settled =>
    /\ ~OnSomebody(Tap) => ~tapApplied
    /\ ~OnSomebody(Tap) /\ ~OnSomebody(Insight) => spellPower = StartTwisted
=============================================================================
