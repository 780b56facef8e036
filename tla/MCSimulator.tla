----------------------------- MODULE MCSimulator -----------------------------
(* Small instances of the simulator.                                          *)
EXTENDS Simulator, TLC

CONSTANTS self, foe, bolt, flay, touch, dot, mark

\* The allocator that gives a freed address out again at once: the one that
\* makes a dangling pointer hardest to notice.
LowestFree(used) ==
  {x \in Addr \ used : \A y \in Addr \ used : x <= y}

\* Hasted times: as they are, or haste by half.
Plain(t) == {t}
Halved(t) == {t, t \div 2}

Spell(castTime, ticks, cooldown, aura, fade) ==
  [castTime |-> castTime, ticks |-> ticks, cooldown |-> cooldown,
   aura |-> aura, fade |-> fade]

\* A spell with a cast time and a cooldown, and a channel of two ticks.
BoltAndFlay == (bolt :> Spell(3, 0, 4, Null, 0)) @@ (flay :> Spell(4, 2, 0, Null, 0))
CastBoltOrFlay == {<<bolt, foe>>, <<flay, foe>>}

NoData == [s \in {} |-> Null]

Aura(periodic, hasteEnabled, period) ==
  [periodic |-> periodic, hasteEnabled |-> hasteEnabled, period |-> period]

Apply(a, c, stacks, fade) ==
  [type |-> "apply", aura |-> a, target |-> c, stacks |-> stacks,
   fade |-> fade, setFade |-> TRUE]

\* A damage-over-time aura on the foe that haste changes, and a stacking aura
\* on the player; applied by scripts, anew or as a refresh without a stack.
HasteDotAndMark == (dot :> Aura(TRUE, TRUE, 2)) @@ (mark :> Aura(FALSE, FALSE, 2))
Dot == (dot :> Aura(TRUE, FALSE, 2))
ApplyDotAndMark == {Apply(dot, foe, 1, 4), Apply(dot, foe, 0, 5),
                    Apply(mark, self, 1, 3), Apply(mark, self, 0, 3)}

\* An instant that leaves the dot, and a channel that leaves nothing.
TouchOnly == touch :> Spell(0, 0, 0, dot, 4)
TouchOrFlay == TouchOnly @@ (flay :> Spell(4, 2, 0, Null, 0))
CastTouchOnFoe == {<<touch, foe>>}
CastTouchFlay == {<<touch, self>>, <<touch, foe>>, <<flay, foe>>}
=============================================================================
