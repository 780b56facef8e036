--------------------------- MODULE MCPriestTalents ---------------------------
(* A priest with two targets.                                                 *)
EXTENDS PriestTalents, MCSimulator

CONSTANTS other, weave, misery, tap, insightAura, pain

\* Mind Blast, Mind Flay, and Shadow Word: Pain.
PriestSpells == (bolt :> Spell(1, 0, 0, Null, 0)) @@ (flay :> Spell(2, 2, 0, Null, 0))
                @@ (touch :> Spell(0, 0, 0, pain, 3))

PriestAuras == [a \in {weave, misery, tap, insightAura} |-> Aura(FALSE, FALSE, 1)]
               @@ (pain :> Aura(TRUE, FALSE, 2))

PriestFades == (weave :> 4) @@ (misery :> 4) @@ (tap :> 2) @@ (insightAura :> 2)
               @@ (pain :> 3)

CastAny == {<<bolt, foe>>, <<bolt, other>>, <<flay, foe>>, <<touch, foe>>}
=============================================================================
