----------------------------- MODULE AuraHistory -----------------------------
(* The simulator with a count of the ticks of every aura.                     *)
EXTENDS Simulator

VARIABLE tally   \* of every aura on every creature: its ticks so far, the ticks
                 \* it was applied for, its last tick, whether it was refreshed

Tally == [done : Nat, due : Nat, last : Nat, refreshed : BOOLEAN]

NoTally == [done |-> 0, due |-> 0, last |-> 0, refreshed |-> FALSE]

HInit == Init /\ tally = [c \in Creatures |-> [a \in Auras |-> NoTally]]

RecordApplication ==
  LET e == heap[current]
  IN  tally' = [tally EXCEPT ![e.target][e.aura] =
        IF HasAura(e.target, e.aura)
          THEN [@ EXCEPT !.refreshed = TRUE]
          ELSE [done |-> 0, due |-> e.fade \div AuraData[e.aura].period,
                last |-> gameTime, refreshed |-> FALSE]]

RecordTick ==
  LET e == heap[current]
  IN  tally' = [tally EXCEPT ![e.target][e.aura].done = @ + 1,
                             ![e.target][e.aura].last = gameTime]

\* The event's handler has gone past its script.
Record ==
  IF pc = "AuraApplication" /\ pc' # pc THEN RecordApplication
  ELSE IF pc = "PeriodicEvent" /\ pc' # pc THEN RecordTick
  ELSE UNCHANGED tally

HNext == Next /\ Record

HSpec == HInit /\ [][HNext]_<<vars, tally>>

\* The engine goes on; scripts need not do anything.
HFairSpec == HSpec /\ WF_vars(Engine)

TallyOf(x) == tally[heap[x].target][heap[x].aura]

\* An aura that was applied for a time (a fade time of 0 is for ever), that
\* nothing refreshed, and that no spell forced to fade (which sets its fade time
\* to 1), has ticked, when it fades, as often as its period fits into the time it
\* was applied for, whatever the haste was.
TicksAreComplete ==
  pc = "AuraFade" /\ AuraData[heap[current].aura].periodic
    /\ ~TallyOf(current).refreshed
    /\ Instance(current).fadeTime \notin {0, 1}
    => TallyOf(current).done = TallyOf(current).due

\* Two ticks of one aura on one creature, or its application and its first tick,
\* are a period apart, however it was refreshed, removed and applied again.
TicksAreSpaced ==
  pc = "PeriodicEvent" =>
    gameTime >= TallyOf(current).last + heap[current].period
=============================================================================
