----------------------------- MODULE CastHistory -----------------------------
(* The simulator with a record of when the player may next begin a spell, as  *)
(* the rules of the game have it: the shortest global cooldown after the      *)
(* beginning of the last spell, and not before the end of a PlayerSleep.      *)
EXTENDS Simulator

VARIABLE notBefore

HInit == Init /\ notBefore = 0

\* PreCastingSpellRoutine has returned: the spell begins, hit or miss.
Begins == pc = "PreCastingSpell" /\ pc' # pc

\* A script has called the API, and its routine goes on.
Calls == pc \in Scripts /\ pc' = pc

ShortestGcd == CHOOSE g \in GcdTimes : \A h \in GcdTimes : g <= h

\* A stopped cast leaves no global cooldown: the code sets it when a cast ends,
\* and this one does not.
Record ==
  notBefore' =
    IF Begins THEN gameTime + ShortestGcd
    ELSE IF Calls /\ castingSpell # Null /\ castingSpell' = Null THEN gameTime
    ELSE IF Calls /\ globalCooldown' # globalCooldown THEN globalCooldown'
    ELSE notBefore

HNext == Next /\ Record

HSpec == HInit /\ [][HNext]_<<vars, notBefore>>

\* Two spells that begin are a global cooldown apart, and none begins in a
\* sleep, although the code stores the cooldown in the event and hands it to
\* the player only when the cast has ended (GCDRecovery).
SpellsAreSpaced == [][Begins => gameTime >= notBefore]_<<vars, notBefore>>
=============================================================================
