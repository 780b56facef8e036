------------------------------ MODULE MCEffects ------------------------------
(* Small instances of the effects.                                            *)
EXTENDS Effects, MCSimulator

CONSTANTS rune, spyglass, dislodged, power

Effect(kind, aura, cooldown, fade, max, procs) ==
  [kind |-> kind, aura |-> aura, useable |-> FALSE, cooldown |-> cooldown,
   fade |-> fade, max |-> max, procs |-> procs, needs |-> Null]

\* The auras of effects have the names of the effects.
EffectAuras ==
  Dot @@ (rune :> Aura(FALSE, FALSE, 1)) @@ (spyglass :> Aura(FALSE, FALSE, 1))
      @@ (dislodged :> Aura(FALSE, FALSE, 1)) @@ (power :> Aura(FALSE, FALSE, 1))

\* The shortest cooldowns the assumption allows; power is used by the player,
\* and spyglass gains stacks only meanwhile.
SomeEffects ==
  (rune :> Effect("cooldown", rune, 2, 2, 1, {"PeriodicEvent"}))
  @@ (spyglass :> [Effect("stackable", spyglass, 0, 2, 2,
                          {"PostCastingSpell", "PeriodicEvent"})
                     EXCEPT !.needs = power])
  @@ (dislodged :> Effect("chain", dislodged, 4, 1, 2, {"PostCastingSpell"}))
  @@ (power :> [Effect("cooldown", power, 1, 3, 1, {}) EXCEPT !.useable = TRUE])
=============================================================================
