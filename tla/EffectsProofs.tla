---------------------------- MODULE EffectsProofs ----------------------------
(* The effects of items take back what they add, in time, for every set of    *)
(* effects, spells, auras and scripts.                                        *)
EXTENDS Effects, SimulatorProofs

-----------------------------------------------------------------------------
(* The events of an aura that no spell leaves and no script applies.          *)

\* y applies or removes the aura a.
Concerns(y, a) == y \in DOMAIN heap /\ heap[y].type \in AuraKinds /\ heap[y].aura = a

\* The handler of an application or of a removal of the aura a ends.
EndsAuraEvent(a) ==
  \/ (RefreshAura \/ NewAura \/ FinishFade) /\ heap[current].aura = a
  \/ \E x \in DOMAIN heap :
       (PostponeRemoval(x) \/ DropRemoval(x)) /\ heap[x].aura = a

\* No spell leaves the aura a and no script applies it.
IsPrivate(a) ==
  /\ \A s \in Spells : SpellData[s].aura # a
  /\ \A call \in ApplyCalls : call.aura # a

\* Its events stay in their order, and there are no others, unless one ends.
LEMMA AuraEventsOfStay ==
  ASSUME Inv, [Next]_vars, NEW a, ~EndsAuraEvent(a), NEW y, Concerns(y, a)
  PROVE  ~Ends(y) /\ Stays(y)
<1>1. ~Ends(y)
  BY EndingAuraEvent DEF Concerns, EndsAuraEvent
<1> QED
  BY <1>1, NotEnding DEF Concerns

LEMMA AuraEventsOfCome ==
  ASSUME Inv, [Next]_vars, NEW a, IsPrivate(a), NEW y, Concerns(y, a)'
  PROVE  \/ Concerns(y, a)
         \/ NewAura /\ heap[current].aura = a /\ IsNew(y)
<1> USE DEF Concerns
<1>1. CASE AuraEventsStay
  BY <1>1 DEF AuraEventsStay, Stays
<1>2. CASE NewAura
  <2>1. PICK f, p : MakesAura(current, f, p)
    BY <1>2, NewAuraMakes
  <2>2. CASE IsNew(y)
    <3>1. heap'[y] = FirstRemoval(current, f).event \/ heap'[y] = FirstTick(current, p).event
      BY <2>1, <2>2 DEF MakesAura
    <3> QED
      BY <1>2, <2>2, <3>1 DEF FirstRemoval, FirstTick
  <2>3. CASE ~IsNew(y)
    <3>1. y \in DOMAIN heap /\ y # current
      BY <2>1, <2>3 DEF IsNew, MakesAura
    <3>2. InFront(eventMap, gameTime, current)
      BY <1>2, ApplicationFacts DEF NewAura
    <3>3. Stays(y)
      BY <3>1, <3>2, FrontIsOne, NextKeepsInv DEF Undisturbed, Finishes
    <3> QED
      BY <3>1, <3>3 DEF Stays
  <2> QED
    BY <2>2, <2>3
<1>3. ASSUME NEW x \in DOMAIN heap, PostponeRemoval(x)
      PROVE  Concerns(y, a)
  BY <1>3 DEF PostponeRemoval, ReturnAndKeep
<1>4. ASSUME AllStay, NEW x \in DOMAIN heap, HitCast(x) \/ HitTick(x),
             \A z \in DOMAIN heap' : z \notin DOMAIN heap =>
               heap'[z].aura = SpellData[heap[x].spell].aura
      PROVE  Concerns(y, a)
  <2>1. SpellData[heap[x].spell].aura # a
    BY <1>4, HitLeavesSpell DEF IsPrivate
  <2> QED
    BY <1>4, <2>1 DEF AllStay, Stays
<1>5. ASSUME AllStay, NEW call \in ApplyCalls,
             \A z \in DOMAIN heap' : z \notin DOMAIN heap => heap'[z] = call
      PROVE  Concerns(y, a)
  BY <1>5 DEF AllStay, Stays, IsPrivate
<1> QED
  BY <1>1, <1>2, <1>3, <1>4, <1>5, AuraEventsCome

\* The player keeps the aura as it is.
LEMMA AuraStays ==
  ASSUME Inv, [Next]_vars, NEW a, IsPrivate(a), ~EndsAuraEvent(a)
  PROVE  /\ HasAura(Player, a)' <=> HasAura(Player, a)
         /\ HasAura(Player, a) => auraMap'[Player][a] = auraMap[Player][a]
<1> USE DEF HasAura
<1>1. CASE UNCHANGED auraMap
  BY <1>1
<1>2. ASSUME NEW x \in DOMAIN heap, HitCast(x) \/ HitTick(x)
      PROVE  /\ a \in DOMAIN auraMap'[Player] <=> a \in DOMAIN auraMap[Player]
             /\ a \in DOMAIN auraMap[Player] => auraMap'[Player][a] = auraMap[Player][a]
  <2>1. SpellData[heap[x].spell].aura # a
    BY <1>2, HitLeavesSpell DEF IsPrivate
  <2> QED
    BY <1>2, <2>1, HitLeavesSpell, HitKeepsAuras, PlayerAssumption
<1>3. CASE RefreshAura
  <2>1. heap[current].aura # a
    BY <1>3 DEF EndsAuraEvent
  <2> QED
    BY <1>3, <2>1, RefreshedAuras, PlayerAssumption
<1>4. CASE NewAura
  <2>1. heap[current].aura # a
    BY <1>4 DEF EndsAuraEvent
  <2> QED
    BY <1>4, <2>1, NewAuras, PlayerAssumption
<1>5. CASE FinishFade
  <2>1. heap[current].aura # a
    BY <1>5 DEF EndsAuraEvent
  <2> QED
    BY <1>5, <2>1, FadedAuras, PlayerAssumption
<1> QED
  BY <1>1, <1>2, <1>3, <1>4, <1>5, AurasChangedBy

-----------------------------------------------------------------------------
(* The inductive invariant: what holds of every effect on its own.            *)

AuraOf(e) == EffectData[e].aura
Kind(e) == EffectData[e].kind
PlayersAura(e) == auraMap[Player][AuraOf(e)]

\* x gives, or takes, the aura of e.
IsGiven(e, x) == x \in DOMAIN heap /\ heap[x].type = "apply" /\ heap[x].aura = AuraOf(e)
Removes(e, x) == x \in DOMAIN heap /\ heap[x].type = "remove" /\ heap[x].aura = AuraOf(e)

\* The effect has had its part of the routine, and the handler has not ended: its
\* aura is as good as there, or as gone.
Arriving(e) == pc = "AuraApplication" /\ ran /\ heap[current].aura = AuraOf(e)
Fading(e) == pc = "AuraFade" /\ ran /\ heap[current].aura = AuraOf(e)
Holds(e) == HasEffectAura(e) /\ ~Fading(e)

\* The life of n auras, one after the other.
Span(e, n) == n * (EffectData[e].fade + 1)

TimeOK(e) ==
  /\ lastTime[e] \in Nat \cup {Null}
  /\ lastTime[e] # Null => lastTime[e] <= gameTime

\* The aura is given in the instant the effect is triggered (of a chain: in the
\* instant the link before it fades), and not twice.
GivenEvent(e, x) ==
  /\ heap[x].target = Player /\ heap[x].fade = EffectData[e].fade /\ heap[x].setFade
  /\ heap[x].stacks \in {0, 1}
  /\ IsDueAt(eventMap, x, gameTime)
GivenInTime(e) ==
  /\ lastTime[e] # Null
  /\ gameTime <= lastTime[e] + Span(e, IF Kind(e) = "chain" THEN stacks[e] ELSE 0)
GivenOK(e) ==
  /\ \A x : IsGiven(e, x) => GivenEvent(e, x) /\ GivenInTime(e)
  /\ \A x, y : IsGiven(e, x) /\ IsGiven(e, y) => x = y

\* The aura has one removal, which finds it; only a refresh can make it early.
RemovalEvent(e, x) ==
  /\ heap[x].target = Player /\ HasEffectAura(e)
  /\ heap[x].guid = PlayersAura(e).guid
  /\ \A t : IsDueAt(eventMap, x, t) =>
       /\ t <= PlayersAura(e).fadeTime
       /\ Kind(e) # "stackable" => t = PlayersAura(e).fadeTime
RemovalOK(e) ==
  /\ \A x : Removes(e, x) => RemovalEvent(e, x)
  /\ \A x, y : Removes(e, x) /\ Removes(e, y) => x = y
  /\ HasEffectAura(e) => \E x : Removes(e, x)

\* An aura that is given while it is there is stackable, or fades first.
OrderOK(e) ==
  \A x, y : IsGiven(e, x) /\ Removes(e, y) =>
    /\ Kind(e) = "cooldown" => Before(eventMap, gameTime, y, x)
    /\ Kind(e) = "chain" => Fading(e)

AgeOK(e) ==
  Holds(e) =>
    /\ lastTime[e] # Null
    /\ PlayersAura(e).fadeTime
         <= lastTime[e] + Span(e, IF Kind(e) = "chain" THEN stacks[e] + 1 ELSE 1)

\* What has been added and not taken back.
LedgerOK(e) ==
  /\ stacks[e] \in Nat
  /\ Kind(e) = "cooldown" =>
       stacks[e] = (IF Arriving(e) \/ Holds(e) THEN 1 ELSE 0) /\ bonus[e] = stacks[e]
  /\ Kind(e) = "stackable" =>
       /\ bonus[e] = stacks[e]
       /\ stacks[e] <= EffectData[e].max
       /\ stacks[e] > 0 <=> Arriving(e) \/ Holds(e)
  /\ Kind(e) = "chain" =>
       /\ stacks[e] < EffectData[e].max
       /\ bonus[e] = IF Holds(e) \/ IsQueued(e) THEN stacks[e] + 1 ELSE 0
       /\ ~Holds(e) /\ ~IsQueued(e) => stacks[e] = 0

\* Now the stacks that the aura shows, or will show.
StacksOK(e) ==
  Kind(e) = "stackable" =>
    /\ Holds(e) /\ ~Arriving(e) => PlayersAura(e).ticks \in {stacks[e] - 1, stacks[e]}
    /\ \A x : IsGiven(e, x) =>
         /\ Holds(e) /\ ~Arriving(e) =>
              heap[x].stacks = IF stacks[e] < EffectData[e].max THEN 1 ELSE 0
         /\ Arriving(e) =>
              (IF HasEffectAura(e) THEN PlayersAura(e).ticks ELSE 0) + heap[x].stacks
                \in {stacks[e] - 1, stacks[e]}

EffectOK(e) == /\ TimeOK(e) /\ GivenOK(e) /\ RemovalOK(e) /\ OrderOK(e) /\ AgeOK(e)
               /\ LedgerOK(e) /\ StacksOK(e)

LedgerType ==
  /\ IsFunctionOn(lastTime, Effects) /\ IsFunctionOn(stacks, Effects)
  /\ IsFunctionOn(bonus, Effects) /\ ran \in BOOLEAN

EffectInv == Inv /\ LedgerType /\ \A e \in Effects : EffectOK(e)

-----------------------------------------------------------------------------
(* Steps that leave an effect alone.                                          *)

\* The events of the aura of e are the ones there were.
EventsSame(e) ==
  /\ \A y : Concerns(y, AuraOf(e)) => Stays(y)
  /\ \A y : Concerns(y, AuraOf(e))' => Concerns(y, AuraOf(e))
  /\ \A x, y : /\ Concerns(x, AuraOf(e)) /\ Concerns(y, AuraOf(e))
               /\ Before(eventMap, gameTime, y, x)
               => Before(eventMap', gameTime, y, x)
  /\ \A x : Concerns(x, AuraOf(e)) /\ IsDueAt(eventMap, x, gameTime)
              => gameTime' = gameTime

AuraSame(e) ==
  /\ HasEffectAura(e)' <=> HasEffectAura(e)
  /\ HasEffectAura(e) => PlayersAura(e)' = PlayersAura(e)

FlagsSame(e) == (Arriving(e)' <=> Arriving(e)) /\ (Fading(e)' <=> Fading(e))

LedgerSame(e) ==
  lastTime'[e] = lastTime[e] /\ stacks'[e] = stacks[e] /\ bonus'[e] = bonus[e]

LEMMA EventsOfEffect ==
  ASSUME NEW e, NEW x
  PROVE  /\ IsGiven(e, x) => Concerns(x, AuraOf(e)) /\ heap[x].type = "apply"
         /\ Removes(e, x) => Concerns(x, AuraOf(e)) /\ heap[x].type = "remove"
         /\ Concerns(x, AuraOf(e)) => IsGiven(e, x) \/ Removes(e, x)
BY DEF IsGiven, Removes, Concerns, AuraKinds

LEMMA SameEvents ==
  ASSUME NEW e, EventsSame(e)
  PROVE  /\ \A x : (IsGiven(e, x)' <=> IsGiven(e, x)) /\ (Removes(e, x)' <=> Removes(e, x))
         /\ \A x : IsGiven(e, x) \/ Removes(e, x) =>
              /\ heap'[x] = heap[x]
              /\ \A t : IsDueAt(eventMap', x, t) <=> IsDueAt(eventMap, x, t)
         /\ IsQueued(e)' <=> IsQueued(e)
<1>1. \A x : IsGiven(e, x)' <=> IsGiven(e, x)
  BY DEF EventsSame, IsGiven, Concerns, AuraKinds, Stays, AuraOf
<1>2. \A x : Removes(e, x)' <=> Removes(e, x)
  BY DEF EventsSame, Removes, Concerns, AuraKinds, Stays, AuraOf
<1>3. \A x : IsGiven(e, x) \/ Removes(e, x) =>
        /\ heap'[x] = heap[x]
        /\ \A t : IsDueAt(eventMap', x, t) <=> IsDueAt(eventMap, x, t)
  BY EventsOfEffect DEF EventsSame, Stays
<1>4. IsQueued(e) <=> \E x : IsGiven(e, x)
  BY DEF IsQueued, IsGiven, AuraOf
<1>5. IsQueued(e)' <=> \E x : IsGiven(e, x)'
  BY DEF IsQueued, IsGiven, AuraOf
<1> QED
  BY <1>1, <1>2, <1>3, <1>4, <1>5

LEMMA GivenStays ==
  ASSUME NEW e, GivenOK(e), EventsSame(e), lastTime'[e] = lastTime[e],
         Kind(e) = "chain" => stacks'[e] = stacks[e]
  PROVE  GivenOK(e)'
<1>1. \A x : IsGiven(e, x)' => IsGiven(e, x)
  BY SameEvents
<1>2. \A x, y : IsGiven(e, x)' /\ IsGiven(e, y)' => x = y
  BY <1>1 DEF GivenOK
<1>3. ASSUME NEW x, IsGiven(e, x)'
      PROVE  GivenEvent(e, x)' /\ GivenInTime(e)'
  <2>1. IsGiven(e, x) /\ GivenEvent(e, x) /\ GivenInTime(e)
    BY <1>1, <1>3 DEF GivenOK
  <2>2. heap'[x] = heap[x] /\ \A t : IsDueAt(eventMap', x, t) <=> IsDueAt(eventMap, x, t)
    BY <2>1, SameEvents
  <2>3. gameTime' = gameTime
    BY <2>1, EventsOfEffect DEF EventsSame, GivenEvent
  <2>4. GivenEvent(e, x)'
    BY <2>1, <2>2, <2>3 DEF GivenEvent
  <2>5. GivenInTime(e)'
    BY <2>1, <2>3 DEF GivenInTime, Span, Kind
  <2> QED
    BY <2>4, <2>5
<1> QED
  BY <1>2, <1>3 DEF GivenOK

LEMMA RemovalStays ==
  ASSUME NEW e, RemovalOK(e), EventsSame(e), AuraSame(e)
  PROVE  RemovalOK(e)'
<1>1. \A x : Removes(e, x)' <=> Removes(e, x)
  BY SameEvents
<1>2. ASSUME NEW x, Removes(e, x)'
      PROVE  RemovalEvent(e, x)'
  <2>1. Removes(e, x) /\ RemovalEvent(e, x)
    BY <1>1, <1>2 DEF RemovalOK
  <2>2. heap'[x] = heap[x] /\ \A t : IsDueAt(eventMap', x, t) <=> IsDueAt(eventMap, x, t)
    BY <2>1, SameEvents
  <2> QED
    BY <2>1, <2>2 DEF RemovalEvent, AuraSame, Kind
<1> QED
  BY <1>1, <1>2 DEF RemovalOK, AuraSame

LEMMA OrderOKStays ==
  ASSUME NEW e, GivenOK(e), OrderOK(e), EventsSame(e), Fading(e) => Fading(e)'
  PROVE  OrderOK(e)'
<1> SUFFICES ASSUME NEW x, NEW y, IsGiven(e, x)', Removes(e, y)'
             PROVE  /\ Kind(e) = "cooldown" => Before(eventMap', gameTime', y, x)
                    /\ Kind(e) = "chain" => Fading(e)'
  BY DEF OrderOK, Kind
<1>1. IsGiven(e, x) /\ Removes(e, y)
  BY SameEvents
<1>2. gameTime' = gameTime
  BY <1>1, EventsOfEffect DEF EventsSame, GivenOK, GivenEvent
<1> QED
  BY <1>1, <1>2, EventsOfEffect DEF OrderOK, EventsSame

LEMMA AgeStays ==
  ASSUME NEW e, AgeOK(e), AuraSame(e), Holds(e)' => Holds(e), lastTime'[e] = lastTime[e],
         Kind(e) = "chain" => stacks'[e] = stacks[e]
  PROVE  AgeOK(e)'
<1> SUFFICES ASSUME Holds(e)'
             PROVE  (/\ lastTime[e] # Null
                     /\ PlayersAura(e).fadeTime <= lastTime[e]
                          + Span(e, IF Kind(e) = "chain" THEN stacks[e] + 1 ELSE 1))'
  BY DEF AgeOK
<1>1. Holds(e) /\ PlayersAura(e)' = PlayersAura(e)
  BY DEF AuraSame, Holds
<1>2. Kind(e)' = Kind(e)
  BY DEF Kind
<1> QED
  BY <1>1, <1>2 DEF AgeOK, Span, Kind

LEMMA HoldsStays ==
  ASSUME NEW e, AuraSame(e), FlagsSame(e)
  PROVE  (Holds(e)' <=> Holds(e)) /\ (Arriving(e)' <=> Arriving(e))
BY DEF AuraSame, FlagsSame, Holds

LEMMA LedgerStays ==
  ASSUME NEW e, LedgerOK(e), LedgerSame(e), Holds(e)' <=> Holds(e),
         Kind(e) # "chain" => (Arriving(e)' <=> Arriving(e)),
         Kind(e) = "chain" => (IsQueued(e)' <=> IsQueued(e))
  PROVE  LedgerOK(e)'
BY DEF LedgerOK, LedgerSame, Kind

LEMMA StacksStay ==
  ASSUME NEW e, StacksOK(e), EventsSame(e), AuraSame(e), FlagsSame(e), stacks'[e] = stacks[e]
  PROVE  StacksOK(e)'
<1>1. (Holds(e)' <=> Holds(e)) /\ (Arriving(e)' <=> Arriving(e))
  BY HoldsStays
<1>2. \A x : IsGiven(e, x)' => IsGiven(e, x) /\ heap'[x] = heap[x]
  BY SameEvents
<1>3. /\ HasEffectAura(e)' <=> HasEffectAura(e)
      /\ HasEffectAura(e) => PlayersAura(e)' = PlayersAura(e)
  BY DEF AuraSame
<1>4. Holds(e) => HasEffectAura(e)
  BY DEF Holds
<1> QED
  BY <1>1, <1>2, <1>3, <1>4 DEF StacksOK, Kind

\* A step that leaves the events, the aura and the ledger of e as they are.
LEMMA QuietStep ==
  ASSUME NEW e, EffectOK(e), TimeOK(e)', EventsSame(e), AuraSame(e), FlagsSame(e),
         LedgerSame(e)
  PROVE  EffectOK(e)'
<1>1. GivenOK(e)'
  BY GivenStays DEF EffectOK, LedgerSame
<1>2. RemovalOK(e)'
  BY RemovalStays DEF EffectOK
<1>3. OrderOK(e)'
  BY OrderOKStays DEF EffectOK, FlagsSame
<1>4. AgeOK(e)'
  BY AgeStays, HoldsStays DEF EffectOK, LedgerSame
<1>5. LedgerOK(e)'
  BY LedgerStays, HoldsStays, SameEvents DEF EffectOK
<1>6. StacksOK(e)'
  BY StacksStay DEF EffectOK, LedgerSame
<1> QED
  BY <1>1, <1>2, <1>3, <1>4, <1>5, <1>6 DEF EffectOK

\* What is assumed of an effect.
LEMMA EffectType ==
  ASSUME NEW e \in Effects
  PROVE  /\ AuraOf(e) \in Auras /\ EffectData[e].fade \in Nat /\ EffectData[e].fade # 0
         /\ EffectData[e].max \in Nat /\ EffectData[e].max # 0
         /\ EffectData[e].cooldown \in Nat /\ Kind(e) \in Kinds
         /\ EffectData[e].procs \subseteq ProcHooks
         /\ IsPrivate(AuraOf(e))
         /\ ~AuraData[AuraOf(e)].hasteEnabled
         /\ HastedTimes(EffectData[e].fade) \subseteq Nat
         /\ \A f \in Effects : AuraOf(f) = AuraOf(e) => f = e
BY EffectAssumption DEF AuraOf, Kind, IsPrivate

LEMMA SpanFacts ==
  ASSUME NEW e \in Effects, NEW n \in Nat
  PROVE  /\ Span(e, n) \in Nat /\ Span(e, n + 1) = Span(e, n) + EffectData[e].fade + 1
         /\ Span(e, 0) = 0 /\ Span(e, 1) = EffectData[e].fade + 1
         /\ \A m \in Nat : m <= n => Span(e, m) <= Span(e, n)
<1> DEFINE f == EffectData[e].fade + 1
<1>1. f \in Nat /\ EffectData[e].fade \in Nat
  BY EffectType
<1> HIDE DEF f
<1>2. n * f \in Nat /\ (n + 1) * f = n * f + f /\ 0 * f = 0 /\ 1 * f = f
  BY SMTT(40), <1>1
<1>3. \A m \in Nat : m <= n => m * f <= n * f
  <2> TAKE m \in Nat
  <2> HAVE m <= n
  <2>1. PICK k \in Nat : n = m + k
    <3>1. n - m \in Nat /\ n = m + (n - m)
      OBVIOUS
    <3> QED
      BY <3>1
  <2>2. m * f \in Nat /\ k * f \in Nat /\ n * f = m * f + k * f
    BY SMTT(40), <1>1, <2>1
  <2> QED
    BY <2>2
<1> QED
  BY <1>1, <1>2, <1>3 DEF Span, f

LEMMA TimeStays ==
  ASSUME Inv, [Next]_vars, NEW e, TimeOK(e), lastTime'[e] = lastTime[e]
  PROVE  TimeOK(e)'
<1>1. gameTime \in Nat /\ gameTime' \in Nat /\ gameTime <= gameTime'
  BY ClockGoesOn
<1>2. CASE lastTime[e] = Null
  BY <1>2 DEF TimeOK
<1>3. CASE lastTime[e] # Null
  <2>1. lastTime[e] \in Nat /\ lastTime[e] <= gameTime
    BY <1>3 DEF TimeOK
  <2>2. lastTime[e] <= gameTime'
    BY <1>1, <2>1
  <2> QED
    BY <2>1, <2>2 DEF TimeOK
<1> QED
  BY <1>2, <1>3

LEMMA NextLeavesEffect ==
  ASSUME Inv, [Next]_vars, NEW e \in Effects, ~EndsAuraEvent(AuraOf(e))
  PROVE  EventsSame(e) /\ AuraSame(e)
<1>1. IsPrivate(AuraOf(e))
  BY EffectType
<1>2. \A y : Concerns(y, AuraOf(e)) => ~Ends(y) /\ Stays(y)
  BY AuraEventsOfStay
<1>3. \A y : Concerns(y, AuraOf(e))' => Concerns(y, AuraOf(e))
  <2> SUFFICES ASSUME NEW y, Concerns(y, AuraOf(e))' PROVE Concerns(y, AuraOf(e))
    OBVIOUS
  <2> DEFINE a == AuraOf(e)
  <2>1. Concerns(y, a)'
    BY DEF Concerns, AuraOf
  <2> HIDE DEF a
  <2>2. IsPrivate(a) /\ ~EndsAuraEvent(a)
    BY <1>1 DEF a
  <2>3. Concerns(y, a)
    <3>1. a' = a
      BY DEF a, AuraOf
    <3>2. \/ Concerns(y, a)
          \/ NewAura /\ heap[current].aura = a /\ IsNew(y)
      BY <2>1, <2>2, <3>1, AuraEventsOfCome DEF Concerns
    <3> QED
      BY <2>2, <3>2 DEF EndsAuraEvent
  <2> QED
    BY <2>3 DEF a
<1>4. ASSUME NEW x, NEW y, Concerns(x, AuraOf(e)), Concerns(y, AuraOf(e)),
             Before(eventMap, gameTime, y, x)
      PROVE  Before(eventMap', gameTime, y, x)
  BY <1>2, <1>4, OrderStays
<1>5. ASSUME NEW x, IsDueAt(eventMap, x, gameTime)
      PROVE  gameTime' = gameTime
  BY <1>5, InstantGoesOn
<1>6. EventsSame(e)
  BY <1>2, <1>3, <1>4, <1>5 DEF EventsSame
<1>7. AuraSame(e)
  <2>1. /\ HasAura(Player, AuraOf(e))' <=> HasAura(Player, AuraOf(e))
        /\ HasAura(Player, AuraOf(e)) =>
             auraMap'[Player][AuraOf(e)] = auraMap[Player][AuraOf(e)]
    <3> DEFINE a == AuraOf(e)
    <3>1. IsPrivate(a) /\ ~EndsAuraEvent(a)
      BY <1>1
    <3> HIDE DEF a
    <3>2. /\ HasAura(Player, a)' <=> HasAura(Player, a)
          /\ HasAura(Player, a) => auraMap'[Player][a] = auraMap[Player][a]
      <4>1. a' = a
        BY DEF a, AuraOf
      <4> QED
        BY <3>1, <4>1, AuraStays DEF HasAura
    <3> QED
      BY <3>2 DEF a, AuraOf, HasAura
  <2> QED
    BY <2>1 DEF AuraSame, HasEffectAura, PlayersAura, AuraOf, HasAura
<1> QED
  BY <1>6, <1>7

\* Scripts end no handler.
LEMMA ScriptsEndNothing ==
  ASSUME Inv, ScriptNext \/ Terminated, NEW a
  PROVE  ~EndsAuraEvent(a) /\ UNCHANGED <<pc, current>>
<1>1. UNCHANGED <<pc, current>> /\ pc # "batch"
  BY ScriptsStay DEF Terminated, vars, Scripts, Hooks
<1>2. ~RefreshAura /\ ~NewAura /\ ~FinishFade
  <2>1. CASE RefreshAura \/ NewAura \/ FinishFade
    <3>1. pc \in Hooks /\ pc' \notin Hooks
      BY ZenonT(60), <2>1, ReturnLeavesHook, NewAuraLeavesHook
         DEF RefreshAura, NewAura, FinishFade, ReturnAndDelete, Hooks
    <3> QED
      BY ZenonT(60), <1>1, <3>1
  <2> QED
    BY <2>1
<1>3. \A x : ~PostponeRemoval(x) /\ ~DropRemoval(x)
  BY <1>1 DEF PostponeRemoval, DropRemoval, IsNext
<1> QED
  BY <1>1, <1>2, <1>3 DEF EndsAuraEvent

LEMMA OtherStepKeeps ==
  ASSUME Inv, OtherStep, NEW e \in Effects, EffectOK(e)
  PROVE  EffectOK(e)'
<1>1. [Next]_vars /\ (ScriptNext \/ Terminated) /\ UNCHANGED <<ledger, ran>>
  BY DEF OtherStep, Next
<1>2. EventsSame(e) /\ AuraSame(e)
  BY <1>1, ScriptsEndNothing, NextLeavesEffect
<1>3. UNCHANGED <<pc, current, ran>>
  BY <1>1, ScriptsEndNothing
<1>4. pc \in Hooks => heap'[current] = heap[current]
  <2> HAVE pc \in Hooks
  <2>1. current \in DOMAIN heap
    BY CurrentIsInFront
  <2>2. ~Ends(current)
    BY <1>3 DEF Ends
  <2> QED
    BY <1>1, <2>1, <2>2, NotEnding DEF Stays
<1>5. FlagsSame(e)
  <2>1. pc = "AuraApplication" \/ pc = "AuraFade" => heap'[current] = heap[current]
    BY <1>4 DEF Hooks
  <2> QED
    BY <1>3, <2>1 DEF FlagsSame, Arriving, Fading, AuraOf
<1>6. LedgerSame(e) /\ lastTime'[e] = lastTime[e]
  BY <1>1 DEF LedgerSame, ledger
<1>7. TimeOK(e)'
  BY <1>1, <1>6, TimeStays DEF EffectOK
<1> QED
  BY <1>2, <1>5, <1>6, <1>7, QuietStep

\* So does the engine, but for the end of an event of the aura.
LEMMA EngineElsewhereKeeps ==
  ASSUME Inv, EngineStep, NEW e \in Effects, EffectOK(e), ~EndsAuraEvent(AuraOf(e))
  PROVE  EffectOK(e)'
<1>1. [Next]_vars /\ Engine /\ ran' = FALSE /\ UNCHANGED ledger
  BY DEF EngineStep, Next
<1>2. EventsSame(e) /\ AuraSame(e)
  BY <1>1, NextLeavesEffect
<1>3. ~Arriving(e)' /\ ~Fading(e)'
  BY <1>1 DEF Arriving, Fading
<1>4. ~Arriving(e)
  <2>1. CASE Arriving(e)
    <3>1. pc = "AuraApplication" /\ pc \in Hooks /\ heap[current].aura = AuraOf(e)
      BY <2>1 DEF Arriving, Hooks
    <3> QED
      BY <1>1, <3>1, EngineInHook DEF EndsAuraEvent
  <2> QED
    BY <2>1
<1>5. ~Fading(e)
  <2>1. CASE Fading(e)
    <3>1. pc = "AuraFade" /\ pc \in Hooks /\ heap[current].aura = AuraOf(e)
      BY <2>1 DEF Fading, Hooks
    <3> QED
      BY <1>1, <3>1, EngineInHook DEF EndsAuraEvent
  <2> QED
    BY <2>1
<1>6. FlagsSame(e) /\ LedgerSame(e) /\ lastTime'[e] = lastTime[e]
  BY <1>1, <1>3, <1>4, <1>5 DEF FlagsSame, LedgerSame, ledger
<1>7. TimeOK(e)'
  BY <1>1, <1>6, TimeStays DEF EffectOK
<1> QED
  BY <1>2, <1>6, <1>7, QuietStep

LEMMA NothingMoves ==
  ASSUME UNCHANGED vars, NEW e
  PROVE  EventsSame(e) /\ AuraSame(e)
BY DEF EventsSame, AuraSame, Concerns, Stays, HasEffectAura, HasAura, PlayersAura, AuraOf, vars

\* What an effect adds to the queue.
Given(e, n) ==
  [type |-> "apply", aura |-> AuraOf(e), target |-> Player, stacks |-> n,
   fade |-> EffectData[e].fade, setFade |-> TRUE]

\* y is given the aura of e, with n stacks, behind everything of this instant.
Gives(e, n, y) ==
  /\ y \notin DOMAIN heap /\ DOMAIN heap' = DOMAIN heap \cup {y}
  /\ heap'[y] = Given(e, n)
  /\ OnlyDueAt(y, gameTime)
  /\ \A x : IsDueAt(eventMap, x, gameTime) => Before(eventMap', gameTime, x, y)
  /\ \A x, z : Before(eventMap, gameTime, x, z) => Before(eventMap', gameTime, x, z)

LEMMA QueueAuraGives ==
  ASSUME Inv, NEW e \in Effects, NEW n \in Nat, QueueAura(e, n)
  PROVE  /\ Inv' /\ AllStay /\ \E y : Gives(e, n, y)
         /\ UNCHANGED <<gameTime, pc, current, auras>>
<1> DEFINE obj == Given(e, n)
<1>1. Queue(obj) /\ UNCHANGED <<gameTime, exitable, pc, current, player, auras, budget>>
  BY DEF QueueAura, Given, AuraOf
<1>2. GoodObject(obj) /\ ~IsTick(obj)
  <2>1. obj \in ApplyEvents
    BY EffectType, PlayerAssumption DEF Given, ApplyEvents
  <2>2. obj.type = "apply" /\ HastedTimes(obj.fade) \subseteq Nat
    BY EffectType DEF Given
  <2> QED
    BY <2>1, <2>2 DEF GoodObject, EventObjects, IsTick
<1> HIDE DEF obj
<1>3. PICK y \in Fresh(DOMAIN heap) :
        eventMap' = Enqueue(eventMap, gameTime, y) /\ heap' = New(heap, y, obj)
  BY <1>1 DEF Queue
<1>4. gameTime \in Nat /\ gameTime <= gameTime /\ gameTime' = gameTime
      /\ castingSpell' = castingSpell
  BY <1>1 DEF Inv, ClockOK, player
<1>5. /\ SoundNow' /\ AllStay
      /\ \A x : InFront(eventMap, gameTime, x) =>
           InFront(eventMap', gameTime, x) /\ heap'[x] = heap[x]
  BY <1>2, <1>3, <1>4, AddStep
<1>6. OthersOK'
  BY <1>1, OthersStay DEF player, auras
<1>7. Inv'
  <2>1. exitable' \in BOOLEAN
    BY <1>1 DEF Inv, ClockOK
  <2> QED
    BY <1>1, <1>5, <1>6, <2>1, ScriptStep
<1>8. y \in Addr /\ y \notin DOMAIN heap /\ y \notin Queued(eventMap)
  BY FreshIsNew DEF Inv, SoundNow, Sound
<1>9. GoodMap(eventMap, gameTime) /\ IsEventMap(eventMap, Addr)
  BY DEF Inv, SoundNow, Sound, GoodMap
<1>10. DOMAIN heap' = DOMAIN heap \cup {y} /\ heap'[y] = obj
  BY <1>3 DEF New
<1>11. OnlyDueAt(y, gameTime)
  <2>1. \A t : ~IsDueAt(eventMap, y, t)
    BY <1>8, <1>9, DueTimes
  <2>2. \A t : IsDueAt(eventMap', y, t) <=> IsDueAt(eventMap, y, t) \/ t = gameTime
    BY <1>3, <1>4, <1>8, <1>9, AddToMap
  <2> QED
    BY <2>1, <2>2 DEF OnlyDueAt
<1>12. ASSUME NEW x, IsDueAt(eventMap, x, gameTime)
       PROVE  Before(eventMap', gameTime, x, y)
  BY <1>3, <1>8, <1>9, <1>12, AddedIsLast
<1>13. ASSUME NEW x, NEW z, Before(eventMap, gameTime, x, z)
       PROVE  Before(eventMap', gameTime, x, z)
  <2>1. Extends(eventMap, eventMap')
    BY <1>3, <1>8, <1>9, ExtendsItself, EnqueueExtends
  <2> QED
    BY <1>13, <2>1, ExtendsKeepsOrder
<1> QED
  BY <1>1, <1>5, <1>7, <1>8, <1>10, <1>11, <1>12, <1>13 DEF Gives, obj

\* The steps of one effect.
StepOf(e) ==
  \/ ProcCooldown(e) \/ ProcStackable(e) \/ ProcChain(e) \/ Use(e)
  \/ ApplyCooldown(e) \/ ApplyStackable(e)
  \/ FadeCooldown(e) \/ FadeStackable(e) \/ FadeChain(e)

LEMMA StepOfEffect ==
  ASSUME LedgerType, NEW f \in Effects, StepOf(f)
  PROVE  /\ UNCHANGED vars \/ \E n \in Nat : QueueAura(f, n)
         /\ ran' = ran \/ (pc \in Hooks /\ heap[current].aura = AuraOf(f))
         /\ \A e \in Effects : e # f => LedgerSame(e)
         /\ LedgerType'
<1> USE DEF LedgerType, IsFunctionOn, LedgerSame
<1>1. CASE ProcCooldown(f)
  BY <1>1 DEF ProcCooldown, Trigger
<1>2. CASE ProcStackable(f)
  <2>1. QueueAura(f, 0) \/ QueueAura(f, 1)
    BY <1>2 DEF ProcStackable
  <2> QED
    BY <1>2, <2>1 DEF ProcStackable, Trigger
<1>3. CASE ProcChain(f)
  BY <1>3 DEF ProcChain, Trigger
<1>4. CASE Use(f)
  BY <1>4 DEF Use
<1>5. CASE ApplyCooldown(f)
  BY <1>5 DEF ApplyCooldown, IsAt, Hooks, AuraOf
<1>6. CASE ApplyStackable(f)
  BY <1>6 DEF ApplyStackable, IsAt, Hooks, AuraOf
<1>7. CASE FadeCooldown(f)
  BY <1>7 DEF FadeCooldown, IsAt, Hooks, AuraOf
<1>8. CASE FadeStackable(f)
  BY <1>8 DEF FadeStackable, IsAt, Hooks, AuraOf
<1>9. CASE FadeChain(f)
  <2>1. UNCHANGED vars \/ QueueAura(f, 1)
    BY <1>9 DEF FadeChain
  <2>2. \A e \in Effects : e # f => LedgerSame(e)
    BY <1>9 DEF FadeChain
  <2>3. LedgerType'
    BY <1>9 DEF FadeChain
  <2>4. pc \in Hooks /\ heap[current].aura = AuraOf(f)
    BY <1>9 DEF FadeChain, IsAt, Hooks, AuraOf
  <2> QED
    BY <2>1, <2>2, <2>3, <2>4
<1> QED
  BY <1>1, <1>2, <1>3, <1>4, <1>5, <1>6, <1>7, <1>8, <1>9 DEF StepOf

\* An effect that queues its aura leaves the events of the others.
LEMMA QueueAuraLeaves ==
  ASSUME Inv, NEW f \in Effects, NEW n \in Nat, QueueAura(f, n),
         NEW e \in Effects, f # e
  PROVE  EventsSame(e) /\ AuraSame(e)
<1>1. PICK y : Gives(f, n, y)
  BY QueueAuraGives
<1>2. AllStay /\ UNCHANGED <<gameTime, auras>>
  BY QueueAuraGives
<1>3. heap'[y].aura # AuraOf(e)
  BY <1>1, EffectType DEF Gives, Given
<1>4. \A z : Concerns(z, AuraOf(e)) => Stays(z)
  BY <1>2 DEF AllStay, Concerns
<1>5. \A z : Concerns(z, AuraOf(e))' => Concerns(z, AuraOf(e))
  BY <1>1, <1>2, <1>3 DEF AllStay, Stays, Concerns, Gives, AuraOf
<1>6. EventsSame(e)
  BY <1>1, <1>2, <1>4, <1>5 DEF EventsSame, Gives
<1>7. AuraSame(e)
  BY <1>2 DEF AuraSame, HasEffectAura, HasAura, PlayersAura, AuraOf, auras
<1> QED
  BY <1>6, <1>7

LEMMA OtherEffectKeeps ==
  ASSUME Inv, LedgerType, NEW f \in Effects, StepOf(f),
         NEW e \in Effects, f # e, EffectOK(e)
  PROVE  EffectOK(e)'
<1>1. UNCHANGED vars \/ \E n \in Nat : QueueAura(f, n)
  BY StepOfEffect
<1>2. EventsSame(e) /\ AuraSame(e)
  BY <1>1, NothingMoves, QueueAuraLeaves
<1>3. LedgerSame(e)
  BY StepOfEffect
<1>4. UNCHANGED <<gameTime, pc, current>>
  BY <1>1, QueueAuraGives DEF vars
<1>5. TimeOK(e)'
  BY <1>3, <1>4 DEF EffectOK, TimeOK, LedgerSame
<1>6. pc \in Hooks => heap'[current] = heap[current]
  BY <1>1, CurrentIsInFront, QueueAuraGives DEF AllStay, Stays, vars
<1>7. FlagsSame(e)
  <2>1. CASE pc \notin Hooks
    BY <1>4, <2>1 DEF FlagsSame, Arriving, Fading, Hooks
  <2>2. CASE pc \in Hooks /\ ran' = ran
    BY <1>4, <1>6, <2>2 DEF FlagsSame, Arriving, Fading, AuraOf
  <2>3. CASE pc \in Hooks /\ heap[current].aura = AuraOf(f)
    <3>1. heap[current].aura # AuraOf(e) /\ heap'[current].aura # AuraOf(e)
      BY <1>6, <2>3, EffectType
    <3> QED
      BY <1>4, <3>1 DEF FlagsSame, Arriving, Fading, AuraOf
  <2> QED
    BY <2>1, <2>2, <2>3, StepOfEffect
<1> QED
  BY <1>2, <1>3, <1>5, <1>7, QuietStep

-----------------------------------------------------------------------------
(* An effect is triggered.                                                    *)

LEMMA EventsAreDue ==
  ASSUME Inv, NEW x \in DOMAIN heap
  PROVE  \E t \in Nat : IsDueAt(eventMap, x, t) /\ gameTime <= t
<1>1. GoodMap(eventMap, gameTime) /\ x \in Queued(eventMap)
  BY DEF Inv, SoundNow, Sound, GoodHeap
<1>2. PICK t : IsDueAt(eventMap, x, t)
  BY <1>1, QueuedIsDue
<1> QED
  BY <1>1, <1>2, DueTimes

\* The aura of the player is an aura object.
LEMMA AuraType ==
  ASSUME Inv, NEW e, HasEffectAura(e)
  PROVE  /\ PlayersAura(e).fadeTime \in Nat /\ PlayersAura(e).ticks \in Nat
         /\ PlayersAura(e).guid \in Nat
<1>1. PlayersAura(e) \in AuraObjects
  BY PlayerAssumption DEF Inv, OthersOK, AurasOK, HasEffectAura, HasAura, PlayersAura, AuraOf
<1> QED
  BY <1>1 DEF AuraObjects

\* The aura has not faded: its removal is still to come.
LEMMA AuraHasTime ==
  ASSUME Inv, NEW e, RemovalOK(e), HasEffectAura(e)
  PROVE  gameTime <= PlayersAura(e).fadeTime
<1>1. PICK x : Removes(e, x) /\ RemovalEvent(e, x)
  BY DEF RemovalOK
<1>2. PICK t \in Nat : IsDueAt(eventMap, x, t) /\ gameTime <= t
  BY <1>1, EventsAreDue DEF Removes
<1>3. t <= PlayersAura(e).fadeTime
  BY <1>1, <1>2 DEF RemovalEvent
<1> QED
  BY <1>2, <1>3, AuraType DEF Inv, ClockOK

\* What giving the aura does, when none is under way.
LEMMA GivingKeeps ==
  ASSUME Inv, NEW e \in Effects, NEW n \in {0, 1}, QueueAura(e, n), NEW y, Gives(e, n, y),
         RemovalOK(e), \A x : ~IsGiven(e, x)
  PROVE  /\ \A x : IsGiven(e, x)' <=> x = y
         /\ \A x : Removes(e, x)' <=> Removes(e, x)
         /\ RemovalOK(e)' /\ AuraSame(e) /\ IsQueued(e)'
         /\ GivenInTime(e)' => GivenOK(e)'
         /\ \A x : Removes(e, x) /\ IsDueAt(eventMap, x, gameTime)
                     => Before(eventMap', gameTime', x, y)
<1>1. /\ Inv' /\ AllStay /\ UNCHANGED <<gameTime, pc, current, auras>>
  BY QueueAuraGives
<1>2. \A x : IsGiven(e, x)' <=> x = y
  BY <1>1 DEF AllStay, Stays, Gives, Given, IsGiven, AuraOf
<1>3. \A x : Removes(e, x)' <=> Removes(e, x)
  BY <1>1 DEF AllStay, Stays, Gives, Given, Removes, AuraOf
<1>4. AuraSame(e)
  BY <1>1 DEF AuraSame, HasEffectAura, HasAura, PlayersAura, AuraOf, auras
<1>5. RemovalOK(e)'
  <2>1. ASSUME NEW x, Removes(e, x)' PROVE RemovalEvent(e, x)'
    <3>1. Removes(e, x) /\ RemovalEvent(e, x)
      BY <1>3, <2>1 DEF RemovalOK
    <3>2. heap'[x] = heap[x] /\ \A t : IsDueAt(eventMap', x, t) <=> IsDueAt(eventMap, x, t)
      BY <1>1, <3>1 DEF AllStay, Stays, Removes
    <3> QED
      BY <1>4, <3>1, <3>2 DEF RemovalEvent, AuraSame, Kind
  <2> QED
    BY <1>3, <1>4, <2>1 DEF RemovalOK, AuraSame
<1>6. GivenEvent(e, y)'
  <2>1. heap'[y] = Given(e, n) /\ IsDueAt(eventMap', y, gameTime')
    BY <1>1 DEF Gives, OnlyDueAt
  <2> QED
    BY <2>1 DEF GivenEvent, Given
<1>7. IsQueued(e)'
  BY <1>2 DEF IsQueued, IsGiven, AuraOf
<1> QED
  BY <1>1, <1>2, <1>3, <1>4, <1>5, <1>6, <1>7 DEF GivenOK, Gives

\* An effect of no chain is not ready while its aura is given.
LEMMA ReadyMeansNotGiven ==
  ASSUME Inv, NEW e \in Effects, EffectOK(e), IsCooldown(e), Kind(e) # "chain"
  PROVE  \A x : ~IsGiven(e, x)
<1> SUFFICES ASSUME NEW x, IsGiven(e, x) PROVE FALSE
  OBVIOUS
<1>1. lastTime[e] # Null /\ gameTime <= lastTime[e] + Span(e, 0)
  BY DEF EffectOK, GivenOK, GivenInTime
<1>2. lastTime[e] \in Nat /\ gameTime \in Nat /\ Span(e, 0) = 0
  BY <1>1, SpanFacts DEF EffectOK, TimeOK, Inv, ClockOK
<1>3. gameTime - lastTime[e] > EffectData[e].cooldown /\ EffectData[e].cooldown \in Nat
  BY <1>1, EffectType DEF IsCooldown
<1> QED
  BY <1>1, <1>2, <1>3

\* Outside of the two routines of auras nothing arrives and nothing fades.
LEMMA NotAtAura ==
  ASSUME NEW e, pc \notin {"AuraApplication", "AuraFade"}
  PROVE  ~Arriving(e) /\ ~Fading(e)
BY DEF Arriving, Fading

\* The trigger is the time from which the life of the aura counts.
LEMMA TriggeredInTime ==
  ASSUME Inv, NEW e \in Effects, EffectOK(e), Kind(e) # "chain",
         AuraSame(e), Holds(e)' => Holds(e), lastTime'[e] = gameTime, gameTime' = gameTime
  PROVE  TimeOK(e)' /\ GivenInTime(e)' /\ AgeOK(e)'
<1>1. gameTime \in Nat /\ gameTime # Null
  BY EffectAssumption DEF Inv, ClockOK
<1>2. Span(e, 0) = 0 /\ Span(e, 1) \in Nat
  BY SpanFacts
<1>3. TimeOK(e)'
  BY <1>1 DEF TimeOK
<1>4. GivenInTime(e)'
  <2>1. (Span(e, IF Kind(e) = "chain" THEN stacks[e] ELSE 0))' = 0
    BY <1>2 DEF Span, Kind
  <2> QED
    BY <1>1, <2>1 DEF GivenInTime
<1>5. AgeOK(e)'
  <2>1. Holds(e)' => PlayersAura(e)' = PlayersAura(e)
    BY DEF AuraSame, Holds
  <2>2. (Span(e, IF Kind(e) = "chain" THEN stacks[e] + 1 ELSE 1))' = Span(e, 1)
    BY DEF Span, Kind
  <2> SUFFICES ASSUME Holds(e)'
               PROVE  /\ gameTime # Null
                      /\ PlayersAura(e).fadeTime <= gameTime + Span(e, 1)
    BY <2>1, <2>2 DEF AgeOK
  <2>3. lastTime[e] # Null /\ PlayersAura(e).fadeTime <= lastTime[e] + Span(e, 1)
    BY DEF EffectOK, AgeOK
  <2>4. lastTime[e] \in Nat /\ lastTime[e] <= gameTime
    BY <2>3 DEF EffectOK, TimeOK
  <2>5. PlayersAura(e).fadeTime \in Nat
    BY AuraType DEF Holds
  <2> QED
    BY <1>1, <1>2, <2>3, <2>4, <2>5
<1> QED
  BY <1>3, <1>4, <1>5

\* An effect of the kind "cooldown" gives its aura, behind the removal of the last.
LEMMA GivesCooldown ==
  ASSUME Inv, LedgerType, NEW e \in Effects, EffectOK(e), Kind(e) = "cooldown",
         IsCooldown(e), pc \notin {"AuraApplication", "AuraFade"},
         lastTime' = [lastTime EXCEPT ![e] = gameTime], QueueAura(e, 1),
         UNCHANGED <<stacks, bonus, ran>>,
         \A x : Removes(e, x) => IsDueAt(eventMap, x, gameTime)
  PROVE  EffectOK(e)'
<1>1. PICK y : Gives(e, 1, y)
  BY QueueAuraGives
<1>2. UNCHANGED <<gameTime, pc, current, auras>>
  BY QueueAuraGives
<1>3. \A x : ~IsGiven(e, x)
  BY ReadyMeansNotGiven
<1>4. /\ \A x : IsGiven(e, x)' <=> x = y
      /\ \A x : Removes(e, x)' <=> Removes(e, x)
      /\ RemovalOK(e)' /\ AuraSame(e) /\ IsQueued(e)'
      /\ GivenInTime(e)' => GivenOK(e)'
      /\ \A x : Removes(e, x) /\ IsDueAt(eventMap, x, gameTime)
                  => Before(eventMap', gameTime', x, y)
  BY <1>1, <1>3, GivingKeeps DEF EffectOK
<1>5. /\ gameTime \in Nat /\ lastTime'[e] = gameTime /\ gameTime # Null
      /\ stacks'[e] = stacks[e] /\ bonus'[e] = bonus[e]
  BY EffectAssumption DEF Inv, ClockOK, LedgerType, IsFunctionOn
<1>6. Kind(e)' = Kind(e)
  BY DEF Kind
<1>7. /\ ~Arriving(e) /\ ~Fading(e) /\ ~Arriving(e)' /\ ~Fading(e)'
      /\ Holds(e) <=> HasEffectAura(e)
      /\ Holds(e)' <=> Holds(e)
  BY <1>2, <1>4, NotAtAura DEF Arriving, Fading, Holds, AuraSame
<1>8. OrderOK(e)'
  BY <1>4, <1>6 DEF OrderOK
<1>9. TimeOK(e)' /\ GivenInTime(e)' /\ AgeOK(e)'
  BY <1>2, <1>4, <1>5, <1>7, TriggeredInTime
<1>10. LedgerOK(e)'
  BY <1>5, <1>6, <1>7 DEF EffectOK, LedgerOK
<1>11. StacksOK(e)'
  BY <1>6 DEF StacksOK
<1> QED
  BY <1>4, <1>8, <1>9, <1>10, <1>11 DEF EffectOK

LEMMA ProcCooldownKeeps ==
  ASSUME Inv, LedgerType, NEW e \in Effects, EffectOK(e), ProcCooldown(e)
  PROVE  EffectOK(e)'
<1>1. Kind(e) = "cooldown" /\ pc \in ProcHooks /\ IsCooldown(e) /\ EffectData[e].procs # {}
  BY EffectType DEF ProcCooldown, Trigger, Kind
<1>2. pc \notin {"AuraApplication", "AuraFade"}
  BY <1>1 DEF ProcHooks
<1>3. EffectData[e].cooldown >= EffectData[e].fade
  BY <1>1, EffectAssumption DEF Kind
<1>4. ASSUME NEW x, Removes(e, x)
      PROVE  IsDueAt(eventMap, x, gameTime)
  <2>1. RemovalEvent(e, x) /\ HasEffectAura(e)
    BY <1>4 DEF EffectOK, RemovalOK, RemovalEvent
  <2>2. Holds(e)
    BY <1>2, <2>1, NotAtAura DEF Holds
  <2>3. lastTime[e] # Null /\ PlayersAura(e).fadeTime <= lastTime[e] + Span(e, 1)
    BY <1>1, <2>2 DEF EffectOK, AgeOK
  <2>4. PICK t \in Nat : IsDueAt(eventMap, x, t) /\ gameTime <= t
    BY <1>4, EventsAreDue DEF Removes
  <2>5. t = PlayersAura(e).fadeTime
    BY <1>1, <2>1, <2>4 DEF RemovalEvent
  <2>6. /\ lastTime[e] \in Nat /\ gameTime \in Nat /\ EffectData[e].fade \in Nat
        /\ EffectData[e].cooldown \in Nat /\ Span(e, 1) = EffectData[e].fade + 1
    BY <2>3, EffectType, SpanFacts DEF EffectOK, TimeOK, Inv, ClockOK
  <2>7. gameTime - lastTime[e] > EffectData[e].cooldown
    BY <1>1, <2>3 DEF IsCooldown
  <2>8. t <= gameTime
    BY <1>3, <2>3, <2>4, <2>5, <2>6, <2>7
  <2> QED
    BY <2>4, <2>6, <2>8
<1>5. /\ lastTime' = [lastTime EXCEPT ![e] = gameTime] /\ QueueAura(e, 1)
      /\ UNCHANGED <<stacks, bonus, ran>>
  BY DEF ProcCooldown, Trigger
<1> QED
  BY <1>1, <1>2, <1>4, <1>5, GivesCooldown

LEMMA UseKeeps ==
  ASSUME Inv, LedgerType, NEW e \in Effects, EffectOK(e), Use(e)
  PROVE  EffectOK(e)'
<1>1. Kind(e) = "cooldown" /\ pc \notin {"AuraApplication", "AuraFade"} /\ IsCooldown(e)
  BY EffectAssumption DEF Use, Kind
<1>2. ~HasEffectAura(e)
  <2>1. stacks[e] = 0
    BY DEF Use
  <2>2. ~Holds(e)
    BY <1>1, <2>1 DEF EffectOK, LedgerOK
  <2> QED
    BY <1>1, <2>2, NotAtAura DEF Holds
<1>3. \A x : ~Removes(e, x)
  BY <1>2 DEF EffectOK, RemovalOK, RemovalEvent
<1>4. /\ lastTime' = [lastTime EXCEPT ![e] = gameTime] /\ QueueAura(e, 1)
      /\ UNCHANGED <<stacks, bonus, ran>>
  BY DEF Use
<1> QED
  BY <1>1, <1>3, <1>4, GivesCooldown

LEMMA ProcStackableKeeps ==
  ASSUME Inv, LedgerType, NEW e \in Effects, EffectOK(e), ProcStackable(e)
  PROVE  EffectOK(e)'
<1> DEFINE n == IF stacks[e] < EffectData[e].max THEN 1 ELSE 0
<1>1. /\ Kind(e) = "stackable" /\ pc \in ProcHooks /\ IsCooldown(e)
      /\ lastTime' = [lastTime EXCEPT ![e] = gameTime] /\ QueueAura(e, n)
      /\ UNCHANGED <<stacks, bonus, ran>>
  BY EffectType DEF ProcStackable, Trigger, Kind
<1>2. n \in {0, 1}
  OBVIOUS
<1> HIDE DEF n
<1>3. PICK y : Gives(e, n, y)
  BY <1>1, <1>2, QueueAuraGives
<1>4. UNCHANGED <<gameTime, pc, current, auras>>
  BY <1>1, <1>2, QueueAuraGives
<1>5. \A x : ~IsGiven(e, x)
  BY <1>1, ReadyMeansNotGiven
<1>6. /\ \A x : IsGiven(e, x)' <=> x = y
      /\ RemovalOK(e)' /\ AuraSame(e)
      /\ GivenInTime(e)' => GivenOK(e)'
  BY <1>1, <1>2, <1>3, <1>5, GivingKeeps DEF EffectOK
<1>7. lastTime'[e] = gameTime /\ stacks'[e] = stacks[e] /\ bonus'[e] = bonus[e]
  BY <1>1 DEF LedgerType, IsFunctionOn
<1>8. Kind(e)' = Kind(e)
  BY DEF Kind
<1>9. /\ ~Arriving(e) /\ ~Fading(e) /\ ~Arriving(e)' /\ ~Fading(e)'
      /\ Holds(e)' <=> Holds(e)
  BY <1>1, <1>4, <1>6, NotAtAura DEF Arriving, Fading, Holds, AuraSame, ProcHooks
<1>10. TimeOK(e)' /\ GivenInTime(e)' /\ AgeOK(e)'
  BY <1>1, <1>4, <1>6, <1>7, <1>9, TriggeredInTime
<1>11. OrderOK(e)'
  BY <1>1, <1>8 DEF OrderOK
<1>12. LedgerOK(e)'
  BY <1>1, <1>7, <1>8, <1>9 DEF EffectOK, LedgerOK
<1>13. StacksOK(e)'
  <2>1. (heap[y].stacks)' = n
    BY <1>3 DEF Gives, Given
  <2>2. Holds(e) => /\ PlayersAura(e)' = PlayersAura(e)
                    /\ PlayersAura(e).ticks \in {stacks[e] - 1, stacks[e]}
    BY <1>1, <1>6, <1>9 DEF EffectOK, StacksOK, AuraSame, Holds
  <2> QED
    BY <1>1, <1>6, <1>7, <1>9, <2>1, <2>2 DEF StacksOK, n
<1> QED
  BY <1>6, <1>10, <1>11, <1>12, <1>13 DEF EffectOK

\* A chain is ready again only after its last link.
LEMMA ReadyChain ==
  ASSUME Inv, NEW e \in Effects, EffectOK(e), Kind(e) = "chain", IsCooldown(e)
  PROVE  ~IsQueued(e) /\ ~Holds(e)
<1>1. /\ EffectData[e].cooldown >= Span(e, EffectData[e].max)
      /\ stacks[e] \in Nat /\ EffectData[e].max \in Nat /\ stacks[e] + 1 <= EffectData[e].max
      /\ EffectData[e].cooldown \in Nat
  <2>1. EffectData[e].cooldown >= EffectData[e].max * (EffectData[e].fade + 1)
    BY EffectAssumption DEF Kind
  <2>2. stacks[e] \in Nat /\ stacks[e] < EffectData[e].max /\ EffectData[e].max \in Nat
    BY EffectType DEF EffectOK, LedgerOK
  <2> QED
    BY <2>1, <2>2, EffectType DEF Span
<1>2. /\ Span(e, stacks[e]) <= Span(e, EffectData[e].max)
      /\ Span(e, stacks[e] + 1) <= Span(e, EffectData[e].max)
      /\ Span(e, stacks[e]) \in Nat /\ Span(e, stacks[e] + 1) \in Nat
      /\ Span(e, EffectData[e].max) \in Nat
  <2>1. stacks[e] + 1 \in Nat /\ stacks[e] <= EffectData[e].max
    BY <1>1
  <2> QED
    BY <1>1, <2>1, SpanFacts
<1>3. gameTime \in Nat
  BY DEF Inv, ClockOK
<1>4. ASSUME lastTime[e] # Null
      PROVE  lastTime[e] \in Nat /\ gameTime > lastTime[e] + Span(e, EffectData[e].max)
  <2>1. lastTime[e] \in Nat /\ gameTime - lastTime[e] > EffectData[e].cooldown
    BY <1>4 DEF IsCooldown, EffectOK, TimeOK
  <2> QED
    BY <1>1, <1>2, <1>3, <2>1
<1>5. ~IsQueued(e)
  <2>1. ASSUME NEW x, IsGiven(e, x) PROVE FALSE
    <3>1. lastTime[e] # Null /\ gameTime <= lastTime[e] + Span(e, stacks[e])
      BY <2>1 DEF EffectOK, GivenOK, GivenInTime
    <3> QED
      BY <1>2, <1>3, <1>4, <3>1
  <2> QED
    BY <2>1 DEF IsQueued, IsGiven, AuraOf
<1>6. ~Holds(e)
  <2> SUFFICES ASSUME Holds(e) PROVE FALSE
    OBVIOUS
  <2>1. /\ lastTime[e] # Null
        /\ PlayersAura(e).fadeTime <= lastTime[e] + Span(e, stacks[e] + 1)
    BY DEF EffectOK, AgeOK
  <2>2. gameTime <= PlayersAura(e).fadeTime /\ PlayersAura(e).fadeTime \in Nat
    BY AuraHasTime, AuraType DEF EffectOK, Holds
  <2> QED
    BY <1>2, <1>3, <1>4, <2>1, <2>2
<1> QED
  BY <1>5, <1>6

LEMMA ProcChainKeeps ==
  ASSUME Inv, LedgerType, NEW e \in Effects, EffectOK(e), ProcChain(e)
  PROVE  EffectOK(e)'
<1>1. /\ Kind(e) = "chain" /\ pc \in ProcHooks /\ IsCooldown(e)
      /\ lastTime' = [lastTime EXCEPT ![e] = gameTime] /\ QueueAura(e, 1)
      /\ bonus' = [bonus EXCEPT ![e] = @ + 1] /\ UNCHANGED <<stacks, ran>>
  BY EffectType DEF ProcChain, Trigger, Kind
<1>2. ~IsQueued(e) /\ ~Holds(e)
  BY <1>1, ReadyChain
<1>3. \A x : ~IsGiven(e, x)
  BY <1>2 DEF IsQueued, IsGiven, AuraOf
<1>4. ~HasEffectAura(e)
  BY <1>1, <1>2, NotAtAura DEF Holds, ProcHooks
<1>5. \A x : ~Removes(e, x)
  BY <1>4 DEF EffectOK, RemovalOK, RemovalEvent
<1>6. PICK y : Gives(e, 1, y)
  BY <1>1, QueueAuraGives
<1>7. UNCHANGED <<gameTime, pc, current, auras>>
  BY <1>1, QueueAuraGives
<1>8. /\ \A x : Removes(e, x)' <=> Removes(e, x)
      /\ RemovalOK(e)' /\ AuraSame(e) /\ IsQueued(e)'
      /\ GivenInTime(e)' => GivenOK(e)'
  BY <1>1, <1>3, <1>6, GivingKeeps DEF EffectOK
<1>9. /\ lastTime'[e] = gameTime /\ stacks'[e] = stacks[e] /\ bonus'[e] = bonus[e] + 1
      /\ gameTime \in Nat /\ gameTime # Null /\ stacks[e] = 0 /\ bonus[e] = 0
  BY <1>1, <1>2, EffectAssumption
     DEF LedgerType, IsFunctionOn, Inv, ClockOK, EffectOK, LedgerOK
<1>10. Kind(e)' = Kind(e)
  BY DEF Kind
<1>11. ~Holds(e)'
  BY <1>4, <1>8 DEF AuraSame, Holds
<1>12. TimeOK(e)'
  BY <1>7, <1>9 DEF TimeOK
<1>13. GivenInTime(e)'
  <2>1. (Span(e, IF Kind(e) = "chain" THEN stacks[e] ELSE 0))' = Span(e, 0)
    BY <1>1, <1>9, <1>10 DEF Span
  <2> QED
    BY <1>7, <1>9, <2>1, SpanFacts DEF GivenInTime
<1>14. OrderOK(e)'
  BY <1>5, <1>8 DEF OrderOK
<1>15. AgeOK(e)'
  BY <1>11 DEF AgeOK
<1>16. LedgerOK(e)'
  <2>1. 0 < EffectData[e].max
    BY EffectType
  <2> QED
    BY <1>1, <1>8, <1>9, <1>10, <1>11, <2>1 DEF LedgerOK
<1>17. StacksOK(e)'
  BY <1>1, <1>10 DEF StacksOK
<1> QED
  BY <1>8, <1>12, <1>13, <1>14, <1>15, <1>16, <1>17 DEF EffectOK

-----------------------------------------------------------------------------
(* An effect has its part of the routines of its aura.                        *)

\* The application that runs is given, the removal that runs removes.
LEMMA CurrentOfRoutine ==
  ASSUME Inv, NEW e, heap[current].aura = AuraOf(e)
  PROVE  /\ pc = "AuraApplication" => IsGiven(e, current) /\ InFront(eventMap, gameTime, current)
         /\ pc = "AuraFade" => /\ Removes(e, current) /\ InFront(eventMap, gameTime, current)
                               /\ IsDueAt(eventMap, current, gameTime)
<1>1. ASSUME pc \in Hooks
      PROVE  /\ InFront(eventMap, gameTime, current) /\ current \in DOMAIN heap
             /\ heap[current].type = HookType[pc] /\ IsDueAt(eventMap, current, gameTime)
  <2>1. GoodMap(eventMap, gameTime)
    BY DEF Inv, SoundNow, Sound
  <2> QED
    BY <1>1, <2>1, CurrentIsInFront, FrontIsDue
<1> QED
  BY <1>1 DEF Hooks, HookType, IsGiven, Removes

\* An aura that is being applied is not there, but for a stackable one.
LEMMA AppliedIsNotThere ==
  ASSUME Inv, NEW e \in Effects, EffectOK(e), pc = "AuraApplication",
         heap[current].aura = AuraOf(e), Kind(e) # "stackable"
  PROVE  ~HasEffectAura(e)
<1>1. IsGiven(e, current) /\ InFront(eventMap, gameTime, current)
  BY CurrentOfRoutine
<1>2. GoodMap(eventMap, gameTime)
  BY DEF Inv, SoundNow, Sound
<1>3. Kind(e) = "cooldown" \/ Kind(e) = "chain"
  BY EffectType DEF Kinds
<1>4. ~Fading(e)
  BY DEF Fading
<1>5. \A x : ~Removes(e, x)
  BY <1>1, <1>2, <1>3, <1>4, NothingBeforeFront DEF EffectOK, OrderOK
<1> QED
  BY <1>5 DEF EffectOK, RemovalOK

\* While a removal of a chain runs, the next link is not yet given.
LEMMA FadingChainIsNotGiven ==
  ASSUME Inv, NEW e, EffectOK(e), Removes(e, current), ~Fading(e), Kind(e) = "chain"
  PROVE  \A x : ~IsGiven(e, x)
BY DEF EffectOK, OrderOK

\* The part of an effect in a routine moves no event and no aura.
LEMMA RoutineKeeps ==
  ASSUME NEW e, EffectOK(e), UNCHANGED <<vars, lastTime>>, ~Fading(e),
         Holds(e)' => Holds(e),
         Kind(e) = "chain" => ~Holds(e)' /\ \A x : ~IsGiven(e, x)
  PROVE  /\ EventsSame(e) /\ AuraSame(e)
         /\ TimeOK(e)' /\ GivenOK(e)' /\ RemovalOK(e)' /\ OrderOK(e)' /\ AgeOK(e)'
<1>1. EventsSame(e) /\ AuraSame(e)
  BY NothingMoves
<1>2. TimeOK(e)'
  BY DEF EffectOK, TimeOK, vars
<1>3. GivenOK(e)'
  <2>1. CASE Kind(e) = "chain"
    <3>1. \A x : ~IsGiven(e, x)'
      BY <1>1, <2>1, SameEvents
    <3> QED
      BY <3>1 DEF GivenOK
  <2>2. CASE Kind(e) # "chain"
    BY <1>1, <2>2, GivenStays DEF EffectOK
  <2> QED
    BY <2>1, <2>2
<1>4. RemovalOK(e)'
  BY <1>1, RemovalStays DEF EffectOK
<1>5. OrderOK(e)'
  BY <1>1, OrderOKStays DEF EffectOK
<1>6. AgeOK(e)'
  <2>1. CASE Kind(e) = "chain"
    BY <2>1 DEF AgeOK
  <2>2. CASE Kind(e) # "chain"
    BY <1>1, <2>2, AgeStays DEF EffectOK
  <2> QED
    BY <2>1, <2>2
<1> QED
  BY <1>1, <1>2, <1>3, <1>4, <1>5, <1>6

LEMMA ApplyCooldownKeeps ==
  ASSUME Inv, LedgerType, NEW e \in Effects, EffectOK(e), ApplyCooldown(e)
  PROVE  EffectOK(e)'
<1>1. /\ Kind(e) = "cooldown" /\ pc = "AuraApplication" /\ heap[current].aura = AuraOf(e) /\ ~ran
      /\ UNCHANGED <<vars, lastTime>> /\ ran' = TRUE
  BY DEF ApplyCooldown, IsAt, AuraOf, Kind
<1>2. ~HasEffectAura(e)
  BY <1>1, AppliedIsNotThere
<1>3. ~Arriving(e) /\ ~Fading(e) /\ ~Holds(e)
  BY <1>1, <1>2 DEF Arriving, Fading, Holds
<1>4. ~HasEffectAura(e)'
  BY <1>1, <1>2, NothingMoves DEF AuraSame
<1>5. Arriving(e)' /\ ~Holds(e)'
  BY <1>1, <1>4 DEF Arriving, Holds, AuraOf, vars
<1>6. TimeOK(e)' /\ GivenOK(e)' /\ RemovalOK(e)' /\ OrderOK(e)' /\ AgeOK(e)'
  BY <1>1, <1>3, <1>5, RoutineKeeps
<1>7. bonus[e] = 0
  BY <1>1, <1>3 DEF EffectOK, LedgerOK
<1>8. bonus'[e] = 1 /\ stacks'[e] = 1
  BY <1>7 DEF ApplyCooldown, LedgerType, IsFunctionOn
<1>9. LedgerOK(e)' /\ StacksOK(e)'
  BY <1>1, <1>5, <1>8 DEF LedgerOK, StacksOK, Kind
<1> QED
  BY <1>6, <1>9 DEF EffectOK

LEMMA ApplyStackableKeeps ==
  ASSUME Inv, LedgerType, NEW e \in Effects, EffectOK(e), ApplyStackable(e)
  PROVE  EffectOK(e)'
<1>1. /\ Kind(e) = "stackable" /\ pc = "AuraApplication" /\ heap[current].aura = AuraOf(e) /\ ~ran
      /\ UNCHANGED <<vars, lastTime>> /\ ran' = TRUE
  BY DEF ApplyStackable, IsAt, AuraOf, Kind
<1>2. ~Arriving(e) /\ ~Fading(e) /\ (Holds(e) <=> HasEffectAura(e))
  BY <1>1 DEF Arriving, Fading, Holds
<1>3. EventsSame(e) /\ AuraSame(e)
  BY <1>1, NothingMoves
<1>4. Arriving(e)' /\ ~Fading(e)' /\ (Holds(e)' <=> Holds(e))
  BY <1>1, <1>2, <1>3 DEF Arriving, Fading, Holds, AuraOf, AuraSame, vars
<1>5. TimeOK(e)' /\ GivenOK(e)' /\ RemovalOK(e)' /\ OrderOK(e)' /\ AgeOK(e)'
  BY <1>1, <1>2, <1>4, RoutineKeeps
<1>6. /\ stacks[e] \in Nat /\ bonus[e] = stacks[e] /\ stacks[e] <= EffectData[e].max
      /\ stacks[e] > 0 <=> Holds(e)
      /\ EffectData[e].max \in Nat /\ EffectData[e].max # 0
  BY <1>1, <1>2, EffectType DEF EffectOK, LedgerOK
<1>7. /\ stacks'[e] = IF stacks[e] < EffectData[e].max THEN stacks[e] + 1 ELSE stacks[e]
      /\ bonus'[e] = stacks'[e]
  BY <1>6 DEF ApplyStackable, LedgerType, IsFunctionOn
<1>8. LedgerOK(e)'
  <2>1. stacks'[e] \in Nat /\ stacks'[e] <= EffectData[e].max /\ stacks'[e] > 0
    BY <1>6, <1>7
  <2> QED
    BY <1>1, <1>4, <1>7, <2>1 DEF LedgerOK, Kind
<1>9. StacksOK(e)'
  <2> SUFFICES ASSUME NEW x, IsGiven(e, x)'
               PROVE  (IF HasEffectAura(e) THEN PlayersAura(e).ticks ELSE 0)' + heap'[x].stacks
                        \in {stacks'[e] - 1, stacks'[e]}
    BY <1>4 DEF StacksOK
  <2>1. IsGiven(e, x) /\ heap'[x] = heap[x] /\ heap[x].stacks \in {0, 1}
    BY <1>1, <1>3, SameEvents DEF vars, EffectOK, GivenOK, GivenEvent
  <2>2. CASE Holds(e)
    <3>1. /\ PlayersAura(e).ticks \in {stacks[e] - 1, stacks[e]} /\ PlayersAura(e).ticks \in Nat
          /\ heap[x].stacks = IF stacks[e] < EffectData[e].max THEN 1 ELSE 0
      BY <1>1, <1>2, <2>1, <2>2, AuraType DEF EffectOK, StacksOK
    <3>2. PlayersAura(e).ticks + heap[x].stacks \in {stacks'[e] - 1, stacks'[e]}
      BY <1>6, <1>7, <3>1
    <3>3. (IF HasEffectAura(e) THEN PlayersAura(e).ticks ELSE 0)' = PlayersAura(e).ticks
      BY <1>2, <1>3, <2>2 DEF AuraSame
    <3> QED
      BY <2>1, <3>2, <3>3
  <2>3. CASE ~Holds(e)
    <3>1. stacks[e] = 0 /\ stacks'[e] = 1
      BY <1>6, <1>7, <2>3
    <3>2. (IF HasEffectAura(e) THEN PlayersAura(e).ticks ELSE 0)' = 0
      BY <1>2, <1>3, <2>3 DEF AuraSame
    <3> QED
      BY <2>1, <3>1, <3>2
  <2> QED
    BY <2>2, <2>3
<1> QED
  BY <1>5, <1>8, <1>9 DEF EffectOK

\* The routine AuraFade: the aura is there, and after the part of e as good as gone.
LEMMA FadingRoutine ==
  ASSUME Inv, NEW e, EffectOK(e), pc = "AuraFade", heap[current].aura = AuraOf(e), ~ran
  PROVE  /\ ~Arriving(e) /\ ~Fading(e) /\ Holds(e) /\ HasEffectAura(e)
         /\ Removes(e, current) /\ IsDueAt(eventMap, current, gameTime)
<1>1. Removes(e, current) /\ IsDueAt(eventMap, current, gameTime)
  BY CurrentOfRoutine
<1>2. HasEffectAura(e)
  BY <1>1 DEF EffectOK, RemovalOK, RemovalEvent
<1> QED
  BY <1>1, <1>2 DEF Arriving, Fading, Holds

LEMMA FadeCooldownKeeps ==
  ASSUME Inv, LedgerType, NEW e \in Effects, EffectOK(e), FadeCooldown(e)
  PROVE  EffectOK(e)'
<1>1. /\ Kind(e) = "cooldown" /\ pc = "AuraFade" /\ heap[current].aura = AuraOf(e) /\ ~ran
      /\ UNCHANGED <<vars, lastTime>> /\ ran' = TRUE
  BY DEF FadeCooldown, IsAt, AuraOf, Kind
<1>2. ~Arriving(e) /\ ~Fading(e) /\ Holds(e)
  BY <1>1, FadingRoutine
<1>3. Fading(e)' /\ ~Arriving(e)' /\ ~Holds(e)'
  BY <1>1 DEF Fading, Arriving, Holds, AuraOf, vars
<1>4. TimeOK(e)' /\ GivenOK(e)' /\ RemovalOK(e)' /\ OrderOK(e)' /\ AgeOK(e)'
  BY <1>1, <1>2, <1>3, RoutineKeeps
<1>5. bonus[e] = 1
  BY <1>1, <1>2 DEF EffectOK, LedgerOK
<1>6. bonus'[e] = 0 /\ stacks'[e] = 0
  BY <1>5 DEF FadeCooldown, LedgerType, IsFunctionOn
<1>7. LedgerOK(e)' /\ StacksOK(e)'
  BY <1>1, <1>3, <1>6 DEF LedgerOK, StacksOK, Kind
<1> QED
  BY <1>4, <1>7 DEF EffectOK

LEMMA FadeStackableKeeps ==
  ASSUME Inv, LedgerType, NEW e \in Effects, EffectOK(e), FadeStackable(e)
  PROVE  EffectOK(e)'
<1>1. /\ Kind(e) = "stackable" /\ pc = "AuraFade" /\ heap[current].aura = AuraOf(e) /\ ~ran
      /\ UNCHANGED <<vars, lastTime>> /\ ran' = TRUE
  BY DEF FadeStackable, IsAt, AuraOf, Kind
<1>2. ~Arriving(e) /\ ~Fading(e) /\ Holds(e)
  BY <1>1, FadingRoutine
<1>3. Fading(e)' /\ ~Arriving(e)' /\ ~Holds(e)'
  BY <1>1 DEF Fading, Arriving, Holds, AuraOf, vars
<1>4. TimeOK(e)' /\ GivenOK(e)' /\ RemovalOK(e)' /\ OrderOK(e)' /\ AgeOK(e)'
  BY <1>1, <1>2, <1>3, RoutineKeeps
<1>5. bonus[e] = stacks[e] /\ stacks[e] \in Nat
  BY <1>1, <1>2 DEF EffectOK, LedgerOK
<1>6. bonus'[e] = 0 /\ stacks'[e] = 0
  BY <1>5 DEF FadeStackable, LedgerType, IsFunctionOn
<1>7. LedgerOK(e)'
  BY <1>1, <1>3, <1>6, EffectType DEF LedgerOK, Kind
<1>8. StacksOK(e)'
  BY <1>3 DEF StacksOK
<1> QED
  BY <1>4, <1>7, <1>8 DEF EffectOK

LEMMA FadeChainKeeps ==
  ASSUME Inv, LedgerType, NEW e \in Effects, EffectOK(e), FadeChain(e)
  PROVE  EffectOK(e)'
<1>1. /\ Kind(e) = "chain" /\ pc = "AuraFade" /\ heap[current].aura = AuraOf(e) /\ ~ran
      /\ UNCHANGED lastTime /\ ran' = TRUE
  BY DEF FadeChain, IsAt, AuraOf, Kind
<1>2. /\ ~Arriving(e) /\ ~Fading(e) /\ Holds(e) /\ HasEffectAura(e)
      /\ Removes(e, current) /\ IsDueAt(eventMap, current, gameTime)
  BY <1>1, FadingRoutine
<1>3. \A x : ~IsGiven(e, x)
  BY <1>1, <1>2, FadingChainIsNotGiven
<1>4. /\ stacks[e] \in Nat /\ EffectData[e].max \in Nat /\ EffectData[e].max # 0
      /\ stacks[e] < EffectData[e].max /\ bonus[e] = stacks[e] + 1
  BY <1>1, <1>2, EffectType DEF EffectOK, LedgerOK
<1>5. Kind(e)' = Kind(e)
  BY DEF Kind
<1>6. StacksOK(e)'
  BY <1>1, <1>5 DEF StacksOK
<1>7. CASE stacks[e] + 1 < EffectData[e].max
  <2>1. /\ QueueAura(e, 1)
        /\ bonus' = [bonus EXCEPT ![e] = @ + 1] /\ stacks' = [stacks EXCEPT ![e] = @ + 1]
    BY <1>7 DEF FadeChain
  <2>2. PICK y : Gives(e, 1, y)
    BY <2>1, QueueAuraGives
  <2>3. AllStay /\ UNCHANGED <<gameTime, pc, current, auras>>
    BY <2>1, QueueAuraGives
  <2>4. /\ RemovalOK(e)' /\ IsQueued(e)'
        /\ GivenInTime(e)' => GivenOK(e)'
    BY <1>3, <2>1, <2>2, GivingKeeps DEF EffectOK
  <2>5. heap'[current] = heap[current]
    BY <1>2, <2>3 DEF AllStay, Stays, Removes
  <2>6. Fading(e)' /\ ~Holds(e)'
    BY <1>1, <2>3, <2>5 DEF Fading, Holds, AuraOf
  <2>7. TimeOK(e)'
    BY <1>1, <2>3 DEF EffectOK, TimeOK
  <2>8. stacks'[e] = stacks[e] + 1 /\ bonus'[e] = bonus[e] + 1
    BY <2>1 DEF LedgerType, IsFunctionOn
  <2>9. GivenInTime(e)'
    <3>1. gameTime = PlayersAura(e).fadeTime
      BY <1>1, <1>2 DEF EffectOK, RemovalOK, RemovalEvent
    <3>2. lastTime[e] # Null /\ gameTime <= lastTime[e] + Span(e, stacks[e] + 1)
      BY <1>1, <1>2, <3>1 DEF EffectOK, AgeOK
    <3>3. (Span(e, IF Kind(e) = "chain" THEN stacks[e] ELSE 0))' = Span(e, stacks[e] + 1)
      BY <1>1, <1>5, <2>8 DEF Span
    <3> QED
      BY <1>1, <2>3, <3>2, <3>3 DEF GivenInTime
  <2>10. OrderOK(e)'
    BY <1>1, <1>5, <2>6 DEF OrderOK
  <2>11. AgeOK(e)'
    BY <2>6 DEF AgeOK
  <2>12. LedgerOK(e)'
    <3>1. stacks'[e] \in Nat /\ stacks'[e] < EffectData[e].max /\ bonus'[e] = stacks'[e] + 1
      BY <1>4, <1>7, <2>8
    <3> QED
      BY <1>1, <1>5, <2>4, <3>1 DEF LedgerOK
  <2> QED
    BY <1>6, <2>4, <2>7, <2>9, <2>10, <2>11, <2>12 DEF EffectOK
<1>8. CASE ~(stacks[e] + 1 < EffectData[e].max)
  <2>1. /\ UNCHANGED <<vars, lastTime>>
        /\ bonus' = [bonus EXCEPT ![e] = @ - EffectData[e].max]
        /\ stacks' = [stacks EXCEPT ![e] = 0]
    BY <1>1, <1>8 DEF FadeChain
  <2>2. Fading(e)' /\ ~Holds(e)'
    BY <1>1, <2>1 DEF Fading, Holds, AuraOf, vars
  <2>3. /\ EventsSame(e)
        /\ TimeOK(e)' /\ GivenOK(e)' /\ RemovalOK(e)' /\ OrderOK(e)' /\ AgeOK(e)'
    BY <1>2, <1>3, <2>1, <2>2, RoutineKeeps
  <2>4. ~IsQueued(e)'
    BY <1>3, <2>3, SameEvents DEF IsQueued, IsGiven, AuraOf
  <2>5. stacks'[e] = 0 /\ bonus'[e] = 0
    <3>1. bonus[e] - EffectData[e].max = 0
      BY <1>4, <1>8
    <3> QED
      BY <2>1, <3>1 DEF LedgerType, IsFunctionOn
  <2>6. LedgerOK(e)'
    BY <1>1, <1>4, <1>5, <2>2, <2>4, <2>5 DEF LedgerOK
  <2> QED
    BY <1>6, <2>3, <2>6 DEF EffectOK
<1> QED
  BY <1>7, <1>8

\* Every step of an effect, of its own and of another.
LEMMA StepOfKeeps ==
  ASSUME Inv, LedgerType, \A e \in Effects : EffectOK(e), NEW f \in Effects, StepOf(f)
  PROVE  Inv' /\ LedgerType' /\ \A e \in Effects : EffectOK(e)'
<1>1. Inv'
  <2>1. CASE UNCHANGED vars
    BY <2>1, NextKeepsInv
  <2>2. CASE \E n \in Nat : QueueAura(f, n)
    BY <2>2, QueueAuraGives
  <2> QED
    BY <2>1, <2>2, StepOfEffect
<1>2. LedgerType'
  BY StepOfEffect
<1>3. EffectOK(f)'
  BY ZenonT(60), ProcCooldownKeeps, ProcStackableKeeps, ProcChainKeeps, UseKeeps,
     ApplyCooldownKeeps, ApplyStackableKeeps, FadeCooldownKeeps, FadeStackableKeeps,
     FadeChainKeeps DEF StepOf
<1>4. \A e \in Effects : e # f => EffectOK(e)'
  BY OtherEffectKeeps
<1> QED
  BY <1>1, <1>2, <1>3, <1>4

-----------------------------------------------------------------------------
(* The engine ends the handler of an event of the aura of e.                  *)

\* An application or a fading ends: the others of the aura stay.
LEMMA RoutineEnds ==
  ASSUME Inv, RefreshAura \/ NewAura \/ FinishFade, NEW a, heap[current].aura = a, IsPrivate(a)
  PROVE  /\ \A y : Concerns(y, a) /\ y # current => Stays(y)
         /\ current \notin DOMAIN heap'
         /\ \A y : y \in DOMAIN heap' /\ heap'[y].type \in AuraKinds /\ heap'[y].aura = a
              => (Concerns(y, a) /\ y # current) \/ (NewAura /\ IsNew(y))
         /\ gameTime' = gameTime /\ pc' \notin Hooks
<1>1. [Next]_vars /\ pc \in Hooks
  BY ZenonT(60) DEF Next, Engine, AuraNext, RefreshAura, NewAura, FinishFade, Hooks
<1>2. pc' \notin Hooks
  BY ReturnLeavesHook, NewAuraLeavesHook DEF RefreshAura, FinishFade, ReturnAndDelete
<1>3. IsDueAt(eventMap, current, gameTime)
  BY <1>1, CurrentIsInFront, FrontIsDue DEF Inv, SoundNow, Sound
<1>4. gameTime' = gameTime
  BY <1>1, <1>3, InstantGoesOn
<1>5. ASSUME NEW y, Concerns(y, a), y # current
      PROVE  Stays(y)
  <2>1. ~DropRemoval(y) /\ ~PostponeRemoval(y)
    BY <1>1 DEF DropRemoval, PostponeRemoval, IsNext, Hooks
  <2>2. ~Ends(y)
    BY <1>1, <1>5, <2>1, EndingAuraEvent DEF Concerns
  <2> QED
    BY <1>1, <1>5, <2>2, NotEnding DEF Concerns
<1>6. current \notin DOMAIN heap'
  <2>1. CASE RefreshAura \/ FinishFade
    BY ZenonT(60), <2>1 DEF RefreshAura, FinishFade, ReturnAndDelete, Delete
  <2>2. CASE NewAura
    BY <2>2, NewAuraMakes DEF MakesAura
  <2> QED
    BY ZenonT(60), <2>1, <2>2
<1>7. ASSUME NEW y \in DOMAIN heap', heap'[y].type \in AuraKinds, heap'[y].aura = a
      PROVE  (Concerns(y, a) /\ y # current) \/ (NewAura /\ IsNew(y))
  <2>1. Concerns(y, a) \/ (NewAura /\ IsNew(y))
    <3>1. CASE RefreshAura \/ FinishFade
      <4>1. heap' = Delete(heap, current)
        BY ZenonT(60), <3>1 DEF RefreshAura, FinishFade, ReturnAndDelete
      <4> QED
        BY SMTT(40), <1>7, <4>1 DEF Delete, Concerns
    <3>2. CASE NewAura
      <4>1. CASE y \in DOMAIN heap
        <5>1. ~Finishes(y)
          BY <1>1, <1>6, <4>1, CurrentIsInFront, FrontIsOne DEF Finishes
        <5>2. Stays(y)
          BY <1>1, <4>1, <5>1, NextKeepsInv DEF Undisturbed
        <5> QED
          BY <1>7, <4>1, <5>2 DEF Stays, Concerns
      <4> QED
        BY <3>2, <4>1 DEF IsNew
    <3> QED
      BY <3>1, <3>2
  <2> QED
    BY <1>6, <2>1
<1> QED
  BY ZenonT(60), <1>2, <1>4, <1>5, <1>6, <1>7

\* The aura that is given stays given.
LEMMA GivenWaits ==
  ASSUME NEW e, GivenOK(e), \A x : IsGiven(e, x)' => IsGiven(e, x) /\ Stays(x),
         gameTime' = gameTime, lastTime'[e] = lastTime[e], stacks'[e] = stacks[e]
  PROVE  GivenOK(e)'
<1>1. \A x, y : IsGiven(e, x)' /\ IsGiven(e, y)' => x = y
  BY DEF GivenOK
<1>2. ASSUME NEW x, IsGiven(e, x)'
      PROVE  GivenEvent(e, x)' /\ GivenInTime(e)'
  <2>1. IsGiven(e, x) /\ GivenEvent(e, x) /\ GivenInTime(e) /\ Stays(x)
    BY <1>2 DEF GivenOK
  <2>2. GivenEvent(e, x)'
    BY <2>1 DEF GivenEvent, Stays
  <2>3. GivenInTime(e)'
    BY <2>1 DEF GivenInTime, Span, Kind
  <2> QED
    BY <2>2, <2>3
<1> QED
  BY <1>1, <1>2 DEF GivenOK

\* What the engine does not touch.
LEMMA EngineLeavesLedger ==
  ASSUME EngineStep, NEW e, EffectOK(e)
  PROVE  /\ ~Arriving(e)' /\ ~Fading(e)' /\ LedgerSame(e)
         /\ Holds(e)' <=> HasEffectAura(e)'
         /\ gameTime' = gameTime => TimeOK(e)'
<1>1. ran' = FALSE /\ UNCHANGED ledger
  BY DEF EngineStep
<1>2. LedgerSame(e)
  BY <1>1 DEF LedgerSame, ledger
<1>3. gameTime' = gameTime => TimeOK(e)'
  BY <1>2 DEF LedgerSame, EffectOK, TimeOK
<1> QED
  BY <1>1, <1>2, <1>3 DEF Arriving, Fading, Holds

\* Before its removal ends, the effect of an aura has taken back what it added.
LEMMA FinishFadeKeeps ==
  ASSUME Inv, LedgerType, EngineStep, FinishFade, NEW e \in Effects, EffectOK(e),
         heap[current].aura = AuraOf(e)
  PROVE  EffectOK(e)'
<1>1. pc = "AuraFade" /\ ran
  BY DEF EngineStep, HookHasRun, IsAt, FinishFade, AuraOf
<1>2. Fading(e) /\ ~Holds(e) /\ ~Arriving(e)
  BY <1>1 DEF Fading, Holds, Arriving
<1>3. Removes(e, current) /\ RemovalEvent(e, current)
  BY <1>1, CurrentOfRoutine DEF EffectOK, RemovalOK
<1>4. ~NewAura
  BY <1>1 DEF NewAura
<1> DEFINE a == AuraOf(e)
<1>5. /\ \A y : Concerns(y, a) /\ y # current => Stays(y)
      /\ current \notin DOMAIN heap'
      /\ \A y : y \in DOMAIN heap' /\ heap'[y].type \in AuraKinds /\ heap'[y].aura = a
           => Concerns(y, a) /\ y # current
      /\ gameTime' = gameTime
  BY <1>4, RoutineEnds, EffectType
<1>6. \A x : IsGiven(e, x)' <=> IsGiven(e, x)
  BY <1>3, <1>5 DEF IsGiven, Removes, Concerns, AuraKinds, Stays, AuraOf
<1>7. \A x : ~Removes(e, x)'
  <2>1. \A x : Removes(e, x)' => Removes(e, x) /\ x # current
    BY <1>5 DEF Removes, Concerns, AuraKinds, Stays, AuraOf
  <2> QED
    BY <1>3, <2>1 DEF EffectOK, RemovalOK
<1>8. ~HasEffectAura(e)'
  <2>1. DOMAIN auraMap'[Player] = DOMAIN auraMap[Player] \ {AuraOf(e)}
    BY <1>3, FadedAuras, PlayerAssumption DEF RemovalEvent
  <2> QED
    BY <2>1 DEF HasEffectAura, HasAura, AuraOf
<1>9. /\ ~Arriving(e)' /\ LedgerSame(e) /\ TimeOK(e)' /\ ~Holds(e)'
  BY <1>5, <1>8, EngineLeavesLedger
<1>10. GivenOK(e)'
  <2>1. \A x : IsGiven(e, x)' => IsGiven(e, x) /\ Stays(x)
    BY <1>5, <1>6 DEF IsGiven, Concerns, AuraKinds, AuraOf
  <2> QED
    BY <1>5, <1>9, <2>1, GivenWaits DEF EffectOK, LedgerSame
<1>11. RemovalOK(e)' /\ OrderOK(e)' /\ AgeOK(e)'
  BY <1>7, <1>8, <1>9 DEF RemovalOK, OrderOK, AgeOK
<1>12. LedgerOK(e)'
  <2>1. IsQueued(e)' <=> IsQueued(e)
    <3>1. IsQueued(e) <=> \E x : IsGiven(e, x)
      BY DEF IsQueued, IsGiven, AuraOf
    <3>2. IsQueued(e)' <=> \E x : IsGiven(e, x)'
      BY DEF IsQueued, IsGiven, AuraOf
    <3> QED
      BY <1>6, <3>1, <3>2
  <2> QED
    BY <1>2, <1>9, <2>1, LedgerStays DEF EffectOK
<1>13. StacksOK(e)'
  BY <1>9 DEF StacksOK
<1> QED
  BY <1>9, <1>10, <1>11, <1>12, <1>13 DEF EffectOK

\* A refresh, of a stackable effect only, has had its part.
LEMMA RefreshAuraKeeps ==
  ASSUME Inv, LedgerType, EngineStep, RefreshAura, NEW e \in Effects, EffectOK(e),
         heap[current].aura = AuraOf(e)
  PROVE  EffectOK(e)'
<1> DEFINE x == current
           a == AuraOf(e)
<1>1. pc = "AuraApplication"
  BY DEF RefreshAura
<1>2. IsGiven(e, x) /\ GivenEvent(e, x) /\ GivenInTime(e)
  BY SMTT(40), <1>1, CurrentOfRoutine DEF EffectOK, GivenOK
<1>3. HasEffectAura(e)
  BY <1>2 DEF RefreshAura, GivenEvent, HasEffectAura, AuraOf
<1>4. Kind(e) = "stackable"
  BY <1>1, <1>3, AppliedIsNotThere
<1>5. ran
  BY <1>1, <1>4 DEF EngineStep, HookHasRun, IsAt, AuraOf, Kind
<1>6. Arriving(e) /\ ~Fading(e) /\ Holds(e)
  BY <1>1, <1>3, <1>5 DEF Arriving, Fading, Holds
<1>7. ~NewAura
  BY <1>2, <1>3 DEF NewAura, GivenEvent, HasEffectAura, AuraOf
<1>8. /\ \A y : Concerns(y, a) /\ y # x => Stays(y)
      /\ x \notin DOMAIN heap'
      /\ \A y : y \in DOMAIN heap' /\ heap'[y].type \in AuraKinds /\ heap'[y].aura = a
           => Concerns(y, a) /\ y # x
      /\ gameTime' = gameTime
  BY <1>7, RoutineEnds, EffectType
<1>9. \A y : ~IsGiven(e, y)'
  <2>1. \A y : IsGiven(e, y)' => IsGiven(e, y) /\ y # x
    BY <1>8 DEF IsGiven, Concerns, AuraKinds, Stays, AuraOf
  <2> QED
    BY <1>2, <2>1 DEF EffectOK, GivenOK
<1>10. \A y : Removes(e, y)' <=> Removes(e, y)
  BY <1>2, <1>8 DEF Removes, IsGiven, Concerns, AuraKinds, Stays, AuraOf
<1>11. gameTime \in Nat /\ EffectData[e].fade \in Nat /\ EffectData[e].fade # 0
  BY EffectType DEF Inv, ClockOK
<1>12. /\ HasEffectAura(e)'
       /\ (PlayersAura(e).ticks)' = PlayersAura(e).ticks + heap[x].stacks
       /\ (PlayersAura(e).guid)' = PlayersAura(e).guid
       /\ (PlayersAura(e).fadeTime)' = EffectData[e].fade + gameTime + 1
  <2>1. /\ DOMAIN auraMap'[Player] = DOMAIN auraMap[Player]
        /\ auraMap'[Player][a].ticks = auraMap[Player][a].ticks + heap[x].stacks
        /\ auraMap'[Player][a].guid = auraMap[Player][a].guid
        /\ auraMap'[Player][a].fadeTime \in RefreshedFades(x)
    BY <1>2, RefreshedAuras, PlayerAssumption DEF GivenEvent
  <2>2. RefreshedFades(x) = {EffectData[e].fade + gameTime + 1}
    BY <1>2, <1>11, EffectType DEF RefreshedFades, GivenEvent
  <2> QED
    BY <1>3, <2>1, <2>2 DEF HasEffectAura, HasAura, PlayersAura, AuraOf
<1>13. ~Arriving(e)' /\ ~Fading(e)' /\ LedgerSame(e) /\ TimeOK(e)' /\ Holds(e)'
  BY <1>8, <1>12, EngineLeavesLedger
<1>14. GivenOK(e)' /\ OrderOK(e)'
  BY <1>9 DEF GivenOK, OrderOK
<1>15. /\ lastTime[e] \in Nat /\ lastTime[e] = gameTime
       /\ PlayersAura(e).fadeTime \in Nat
       /\ PlayersAura(e).fadeTime <= gameTime + EffectData[e].fade + 1
       /\ Span(e, 1) = EffectData[e].fade + 1
  <2>1. Span(e, 0) = 0 /\ Span(e, 1) = EffectData[e].fade + 1
    BY SpanFacts
  <2>2. /\ lastTime[e] # Null /\ gameTime <= lastTime[e] + 0
        /\ PlayersAura(e).fadeTime <= lastTime[e] + (EffectData[e].fade + 1)
    BY <1>2, <1>4, <1>6, <2>1 DEF GivenInTime, EffectOK, AgeOK
  <2>3. lastTime[e] \in Nat /\ lastTime[e] <= gameTime
    BY <2>2 DEF EffectOK, TimeOK
  <2>4. PlayersAura(e).fadeTime \in Nat
    BY <1>3, AuraType
  <2> QED
    BY <1>11, <2>1, <2>2, <2>3, <2>4
<1>16. Kind(e)' = Kind(e)
  BY DEF Kind
<1>17. RemovalOK(e)'
  <2>1. ASSUME NEW y, Removes(e, y)' PROVE RemovalEvent(e, y)'
    <3>1. Removes(e, y) /\ RemovalEvent(e, y)
      BY <1>10, <2>1 DEF EffectOK, RemovalOK
    <3>2. y # x /\ Concerns(y, a)
      BY <1>2, <3>1 DEF IsGiven, Removes, Concerns, AuraKinds
    <3>3. heap'[y] = heap[y] /\ \A t : IsDueAt(eventMap', y, t) <=> IsDueAt(eventMap, y, t)
      BY <1>8, <3>2 DEF Stays
    <3>4. \A t : IsDueAt(eventMap, y, t) => t <= EffectData[e].fade + gameTime + 1
      <4> SUFFICES ASSUME NEW t, IsDueAt(eventMap, y, t)
                   PROVE  t <= EffectData[e].fade + gameTime + 1
        OBVIOUS
      <4>1. t <= PlayersAura(e).fadeTime
        BY <3>1 DEF RemovalEvent
      <4>2. t \in Nat
        BY DueTimes DEF Inv, SoundNow, Sound
      <4> QED
        BY <1>11, <1>15, <4>1, <4>2
    <3> QED
      BY <1>4, <1>12, <1>16, <3>1, <3>3, <3>4 DEF RemovalEvent
  <2> QED
    BY <1>3, <1>10, <2>1 DEF EffectOK, RemovalOK
<1>18. AgeOK(e)'
  <2>1. EffectData[e].fade + gameTime + 1 <= lastTime[e] + Span(e, 1) /\ lastTime[e] # Null
    BY <1>11, <1>15, EffectAssumption
  <2>2. (Span(e, IF Kind(e) = "chain" THEN stacks[e] + 1 ELSE 1))' = Span(e, 1)
    BY <1>4, <1>16 DEF Span
  <2> QED
    BY <1>12, <1>13, <2>1, <2>2 DEF AgeOK, LedgerSame
<1>19. LedgerOK(e)'
  BY <1>4, <1>6, <1>13, <1>16 DEF EffectOK, LedgerOK, LedgerSame
<1>20. StacksOK(e)'
  <2>1. PlayersAura(e).ticks + heap[x].stacks \in {stacks[e] - 1, stacks[e]}
    BY <1>2, <1>3, <1>4, <1>6 DEF EffectOK, StacksOK
  <2>2. (PlayersAura(e).ticks)' \in {stacks'[e] - 1, stacks'[e]}
    BY <1>12, <1>13, <2>1 DEF LedgerSame
  <2> QED
    BY <1>9, <2>2 DEF StacksOK
<1> QED
  BY SMTT(40), <1>13, <1>14, <1>17, <1>18, <1>19, <1>20 DEF EffectOK

\* A new aura: with it comes the only removal, due when it fades.
LEMMA NewAuraKeeps ==
  ASSUME Inv, LedgerType, EngineStep, NewAura, NEW e \in Effects, EffectOK(e),
         heap[current].aura = AuraOf(e)
  PROVE  EffectOK(e)'
<1> DEFINE x == current
           a == AuraOf(e)
           f == EffectData[e].fade
<1>1. pc = "AuraApplication"
  BY DEF NewAura
<1>2. IsGiven(e, x) /\ GivenEvent(e, x) /\ GivenInTime(e)
  BY <1>1, CurrentOfRoutine DEF EffectOK, GivenOK
<1>3. ~HasEffectAura(e) /\ ~Holds(e) /\ ~Fading(e)
  BY <1>1, <1>2 DEF NewAura, GivenEvent, HasEffectAura, AuraOf, Holds, Fading
<1>4. Kind(e) # "chain" => Arriving(e)
  BY <1>1 DEF EngineStep, HookHasRun, IsAt, AuraOf, Kind, Arriving
<1>5. \A y : ~Removes(e, y)
  BY <1>3 DEF EffectOK, RemovalOK, RemovalEvent
<1>6. /\ \A y : Concerns(y, a) /\ y # x => Stays(y)
      /\ x \notin DOMAIN heap'
      /\ \A y : y \in DOMAIN heap' /\ heap'[y].type \in AuraKinds /\ heap'[y].aura = a
           => (Concerns(y, a) /\ y # x) \/ IsNew(y)
      /\ gameTime' = gameTime
  BY RoutineEnds, EffectType
<1>7. PICK p \in TickTimes(a) : MakesAura(x, f, p)
  <2>1. PICK p \in TickTimes(a) : MakesAura(x, FirstFade(x, p), p)
    BY NewAuraMakes
  <2>2. FirstFade(x, p) = f
    BY <1>2, EffectType DEF FirstFade, GivenEvent
  <2> QED
    BY <2>1, <2>2
<1>8. f \in Nat /\ f # 0 /\ gameTime \in Nat
  BY EffectType DEF Inv, ClockOK
<1> DEFINE r == FirstRemoval(x, f)
           t == FirstTick(x, p)
<1>9. /\ r.at = gameTime + f + 1 /\ r.event.type = "remove" /\ r.event.aura = a
      /\ r.event.target = Player /\ r.event.guid = guidCounter + 1
      /\ t.event.type = "periodic"
  BY <1>2 DEF FirstRemoval, FirstTick, GivenEvent
<1>10. /\ \A y : IsNew(y) => \/ heap'[y] = r.event /\ OnlyDueAt(y, r.at)
                             \/ heap'[y] = t.event
       /\ \A y, z : IsNew(y) /\ IsNew(z) /\ heap'[y] = heap'[z] => y = z
       /\ \E y : IsNew(y) /\ heap'[y] = r.event
  BY <1>7, <1>8 DEF MakesAura
<1>11. /\ HasEffectAura(e)'
       /\ (PlayersAura(e).ticks)' = heap[x].stacks
       /\ (PlayersAura(e).guid)' = guidCounter + 1
       /\ (PlayersAura(e).fadeTime)' = f + gameTime + 1
  <2>1. auraMap' = [auraMap EXCEPT ![Player] =
           [b \in DOMAIN auraMap[Player] \cup {a} |->
              IF b = a THEN NewInstance(x, f) ELSE auraMap[Player][b]]]
    BY <1>2, <1>7 DEF MakesAura, GivenEvent
  <2>2. Player \in DOMAIN auraMap
    BY PlayerAssumption DEF Inv, OthersOK, AurasOK, IsFunctionOn
  <2>3. auraMap'[Player] = [b \in DOMAIN auraMap[Player] \cup {a} |->
              IF b = a THEN NewInstance(x, f) ELSE auraMap[Player][b]]
    BY <2>1, <2>2
  <2>4. a \in DOMAIN auraMap'[Player] /\ auraMap'[Player][a] = NewInstance(x, f)
    BY <2>3
  <2> QED
    BY <1>8, <2>4 DEF NewInstance, HasEffectAura, HasAura, PlayersAura, AuraOf
<1> HIDE DEF r, t
<1>12. \A y : ~IsGiven(e, y)'
  <2> SUFFICES ASSUME NEW y, IsGiven(e, y)' PROVE FALSE
    OBVIOUS
  <2>1. y \in DOMAIN heap' /\ heap'[y].type = "apply" /\ heap'[y].aura = a
    BY DEF IsGiven, AuraOf
  <2>2. CASE IsNew(y)
    BY <1>9, <1>10, <2>1, <2>2
  <2>3. CASE Concerns(y, a) /\ y # x
    <3>1. IsGiven(e, y)
      BY <1>6, <2>1, <2>3 DEF Stays, IsGiven, Concerns
    <3> QED
      BY <1>2, <2>3, <3>1 DEF EffectOK, GivenOK
  <2> QED
    BY <1>6, <2>1, <2>2, <2>3 DEF AuraKinds
<1>13. \A y : Removes(e, y)' <=> IsNew(y) /\ heap'[y] = r.event
  <2> TAKE y
  <2>1. ASSUME Removes(e, y)' PROVE IsNew(y) /\ heap'[y] = r.event
    <3>1. y \in DOMAIN heap' /\ heap'[y].type = "remove" /\ heap'[y].aura = a
      BY <2>1 DEF Removes, AuraOf
    <3>2. ~Concerns(y, a) \/ y = x
      <4>1. ASSUME Concerns(y, a), y # x PROVE FALSE
        <5>1. Removes(e, y)
          BY <1>6, <3>1, <4>1 DEF Stays, Removes, Concerns
        <5> QED
          BY <1>5, <5>1
      <4> QED
        BY <4>1
    <3>3. IsNew(y)
      BY <1>6, <3>1, <3>2 DEF AuraKinds
    <3> QED
      BY <1>9, <1>10, <3>1, <3>3
  <2>2. ASSUME IsNew(y), heap'[y] = r.event PROVE Removes(e, y)'
    BY <1>9, <2>2 DEF IsNew, Removes, AuraOf
  <2> QED
    BY <2>1, <2>2
<1>14. Kind(e)' = Kind(e)
  BY DEF Kind
<1>15. ~Arriving(e)' /\ ~Fading(e)' /\ LedgerSame(e) /\ TimeOK(e)' /\ Holds(e)'
  BY <1>6, <1>11, EngineLeavesLedger
<1>16. GivenOK(e)' /\ OrderOK(e)'
  BY <1>12 DEF GivenOK, OrderOK
<1>17. RemovalOK(e)'
  <2>1. ASSUME NEW y, Removes(e, y)' PROVE RemovalEvent(e, y)'
    <3>1. IsNew(y) /\ heap'[y] = r.event
      BY <1>13, <2>1
    <3>2. OnlyDueAt(y, gameTime + f + 1)
      BY <1>9, <1>10, <3>1
    <3>3. \A u : IsDueAt(eventMap', y, u) => u = f + gameTime + 1
      BY <1>8, <3>2 DEF OnlyDueAt
    <3> QED
      BY <1>8, <1>9, <1>11, <3>1, <3>3 DEF RemovalEvent
  <2> QED
    BY <1>10, <1>13, <2>1 DEF RemovalOK
<1>18. AgeOK(e)'
  <2> DEFINE n == IF Kind(e) = "chain" THEN stacks[e] ELSE 0
  <2>1. n \in Nat
    BY DEF EffectOK, LedgerOK
  <2>2. Span(e, n) \in Nat /\ Span(e, n + 1) = Span(e, n) + f + 1
    BY <2>1, SpanFacts
  <2>3. lastTime[e] # Null /\ gameTime <= lastTime[e] + Span(e, n)
    BY <1>2 DEF GivenInTime
  <2>4. n + 1 = IF Kind(e) = "chain" THEN stacks[e] + 1 ELSE 1
    OBVIOUS
  <2> HIDE DEF n
  <2>5. f + gameTime + 1 <= lastTime[e] + Span(e, n + 1)
    <3>1. lastTime[e] \in Nat
      BY <2>3 DEF EffectOK, TimeOK
    <3> QED
      BY <1>8, <2>2, <2>3, <3>1
  <2>6. (Span(e, IF Kind(e) = "chain" THEN stacks[e] + 1 ELSE 1))' = Span(e, n + 1)
    BY <1>14, <1>15, <2>4 DEF Span, LedgerSame
  <2> QED
    BY <1>11, <1>15, <2>3, <2>5, <2>6 DEF AgeOK, LedgerSame
<1>19. LedgerOK(e)'
  <2>1. IsQueued(e)
    BY <1>2 DEF IsQueued, IsGiven, AuraOf
  <2> QED
    BY <1>3, <1>4, <1>14, <1>15, <2>1 DEF EffectOK, LedgerOK, LedgerSame
<1>20. StacksOK(e)'
  <2>1. CASE Kind(e) = "stackable"
    <3>1. 0 + heap[x].stacks \in {stacks[e] - 1, stacks[e]} /\ heap[x].stacks \in {0, 1}
      BY <1>2, <1>3, <1>4, <2>1 DEF EffectOK, StacksOK, GivenEvent
    <3>2. (PlayersAura(e).ticks)' \in {stacks'[e] - 1, stacks'[e]}
      BY <1>11, <1>15, <3>1 DEF LedgerSame
    <3> QED
      BY <1>12, <3>2 DEF StacksOK
  <2>2. CASE Kind(e) # "stackable"
    BY <1>14, <2>2 DEF StacksOK
  <2> QED
    BY <2>1, <2>2
<1> QED
  BY <1>15, <1>16, <1>17, <1>18, <1>19, <1>20 DEF EffectOK

\* A removal is never in vain, and it is early only if the aura was refreshed.
LEMMA PostponeRemovalKeeps ==
  ASSUME Inv, LedgerType, EngineStep, NEW x \in DOMAIN heap, PostponeRemoval(x),
         NEW e \in Effects, EffectOK(e), heap[x].aura = AuraOf(e)
  PROVE  EffectOK(e)'
<1> DEFINE u == PlayersAura(e).fadeTime
<1>1. Removes(e, x) /\ RemovalEvent(e, x)
  BY DEF PostponeRemoval, Removes, EffectOK, RemovalOK
<1>2. HasEffectAura(e) /\ Instance(x) = PlayersAura(e) /\ u \in Nat /\ u > gameTime
  BY <1>1, AuraType DEF RemovalEvent, Instance, PlayersAura, PostponeRemoval
<1>3. /\ IsNext(x) /\ pc = "batch" /\ UNCHANGED <<heap, auraMap>>
      /\ Return(Enqueue(eventMap, u, x))
  BY <1>2 DEF PostponeRemoval, ReturnAndKeep, auras, IsNext
<1>4. InFront(eventMap, gameTime, x) /\ gameTime \in Nat
  BY <1>3, NextIsInFront
<1>5. [Next]_vars
  BY DEF Next, Engine, AuraNext
<1>6. GoodMap(eventMap, gameTime) /\ exitable \in BOOLEAN
  BY DEF Inv, SoundNow, Sound, ClockOK
<1>7. IsDueAt(eventMap, x, gameTime)
  BY <1>4, <1>6, FrontIsDue
<1>8. gameTime' = gameTime
  BY <1>5, <1>7, InstantGoesOn
<1>9. Kind(e) = "stackable"
  BY <1>1, <1>2, <1>4, <1>7 DEF RemovalEvent
<1>10. \A t : IsDueAt(eventMap', x, t) => t = u
  <2> DEFINE m == Enqueue(eventMap, u, x)
  <2>1. DOMAIN m = DOMAIN eventMap \cup {u}
    BY DEF Enqueue
  <2>2. /\ DOMAIN m \subseteq Nat /\ gameTime \in DOMAIN m
        /\ \A t \in DOMAIN m : gameTime <= t
    BY <1>2, <1>4, <1>6, <2>1 DEF GoodMap, IsEventMap, InFront
  <2>3. eventMap' = PopFront(m, gameTime)
    BY <1>3, <1>4, <1>6, <2>2, ReturnPops
  <2>4. \A t : IsDueAt(PopFront(Enqueue(eventMap, u, x), gameTime), x, t)
                 <=> (IsDueAt(eventMap, x, t) /\ x # x) \/ (x = x /\ t = u)
    BY <1>2, <1>4, <1>6, MoveInMap
  <2> QED
    BY <2>3, <2>4
<1>11. ~Arriving(e) /\ ~Fading(e) /\ Holds(e)
  BY <1>2, <1>3 DEF Arriving, Fading, Holds
<1>12. AuraSame(e) /\ HasEffectAura(e)'
  BY <1>2, <1>3 DEF AuraSame, HasEffectAura, HasAura, PlayersAura, AuraOf
<1>13. ~Arriving(e)' /\ ~Fading(e)' /\ LedgerSame(e) /\ TimeOK(e)' /\ Holds(e)'
  BY <1>8, <1>12, EngineLeavesLedger
<1>14. \A y : (IsGiven(e, y)' <=> IsGiven(e, y)) /\ (Removes(e, y)' <=> Removes(e, y))
  BY <1>3 DEF IsGiven, Removes, AuraOf
<1>15. GivenOK(e)'
  <2>1. ASSUME NEW y, IsGiven(e, y) PROVE Stays(y)
    <3>1. y # x /\ y \in DOMAIN heap
      BY <1>1, <2>1 DEF IsGiven, Removes
    <3>2. ~Finishes(y)
      BY <1>4, <3>1, FrontIsOne DEF Finishes
    <3> QED
      BY <1>5, <3>1, <3>2, NextKeepsInv DEF Undisturbed
  <2> QED
    BY <1>8, <1>13, <1>14, <2>1, GivenWaits DEF EffectOK, LedgerSame
<1>16. Kind(e)' = Kind(e)
  BY DEF Kind
<1>17. RemovalOK(e)'
  <2>1. ASSUME NEW y, Removes(e, y)' PROVE RemovalEvent(e, y)'
    <3>1. y = x
      BY <1>1, <1>14, <2>1 DEF EffectOK, RemovalOK
    <3>2. \A t : IsDueAt(eventMap', y, t) => t <= PlayersAura(e).fadeTime
      BY <1>2, <1>10, <3>1
    <3> QED
      BY <1>1, <1>2, <1>3, <1>9, <1>12, <1>16, <3>1, <3>2 DEF RemovalEvent, AuraSame
  <2> QED
    BY <1>1, <1>14, <2>1 DEF EffectOK, RemovalOK
<1>18. OrderOK(e)'
  BY <1>9, <1>16 DEF OrderOK
<1>19. AgeOK(e)'
  BY <1>9, <1>11, <1>12, <1>13, AgeStays DEF EffectOK, LedgerSame
<1>20. LedgerOK(e)'
  BY <1>9, <1>11, <1>13, LedgerStays DEF EffectOK
<1>21. StacksOK(e)'
  BY <1>2, <1>3, <1>11, <1>12, <1>13, <1>14, <1>16 DEF EffectOK, StacksOK, AuraSame, LedgerSame
<1> QED
  BY <1>13, <1>15, <1>17, <1>18, <1>19, <1>20, <1>21 DEF EffectOK

LEMMA NoRemovalIsDropped ==
  ASSUME Inv, NEW x \in DOMAIN heap, DropRemoval(x), NEW e, EffectOK(e)
  PROVE  heap[x].aura # AuraOf(e)
<1> SUFFICES ASSUME heap[x].aura = AuraOf(e) PROVE FALSE
  OBVIOUS
<1>1. Removes(e, x) /\ RemovalEvent(e, x)
  BY DEF DropRemoval, Removes, EffectOK, RemovalOK
<1>2. FindsItsAura(x)
  BY <1>1 DEF RemovalEvent, HasEffectAura, FindsItsAura, Instance, PlayersAura, AuraOf
<1> QED
  BY <1>2 DEF DropRemoval

LEMMA EngineStepKeeps ==
  ASSUME Inv, LedgerType, EngineStep, NEW e \in Effects, EffectOK(e)
  PROVE  EffectOK(e)'
<1>1. CASE ~EndsAuraEvent(AuraOf(e))
  BY <1>1, EngineElsewhereKeeps
<1>2. CASE EndsAuraEvent(AuraOf(e))
  <2>1. CASE (RefreshAura \/ NewAura \/ FinishFade) /\ heap[current].aura = AuraOf(e)
    BY <2>1, RefreshAuraKeeps, NewAuraKeeps, FinishFadeKeeps
  <2>2. CASE \E x \in DOMAIN heap :
               (PostponeRemoval(x) \/ DropRemoval(x)) /\ heap[x].aura = AuraOf(e)
    BY <2>2, PostponeRemovalKeeps, NoRemovalIsDropped
  <2> QED
    BY <1>2, <2>1, <2>2 DEF EndsAuraEvent
<1> QED
  BY <1>1, <1>2

-----------------------------------------------------------------------------
(* The invariant, and what follows from it.                                   *)

LEMMA EffectInvInit == EInit => EffectInv
<1> SUFFICES ASSUME EInit PROVE EffectInv
  OBVIOUS
<1>1. Inv
  BY InvInit DEF EInit
<1>2. LedgerType
  BY DEF EInit, LedgerType, IsFunctionOn
<1>3. /\ DOMAIN heap = {} /\ ran = FALSE
      /\ \A e : ~HasEffectAura(e)
  BY PlayerAssumption DEF EInit, Init, HasEffectAura, HasAura
<1>4. ASSUME NEW e \in Effects PROVE EffectOK(e)
  <2>1. lastTime[e] = Null /\ stacks[e] = 0 /\ bonus[e] = 0
    BY <1>4 DEF EInit
  <2>2. ~Arriving(e) /\ ~Fading(e) /\ ~Holds(e) /\ ~IsQueued(e)
    BY <1>3 DEF Arriving, Fading, Holds, IsQueued
  <2>3. \A x : ~IsGiven(e, x) /\ ~Removes(e, x)
    BY <1>3 DEF IsGiven, Removes
  <2>4. TimeOK(e) /\ GivenOK(e) /\ RemovalOK(e) /\ OrderOK(e) /\ AgeOK(e) /\ StacksOK(e)
    BY <1>3, <2>1, <2>2, <2>3 DEF TimeOK, GivenOK, RemovalOK, OrderOK, AgeOK, StacksOK
  <2>5. LedgerOK(e)
    BY <2>1, <2>2, EffectType DEF LedgerOK
  <2> QED
    BY <2>4, <2>5 DEF EffectOK
<1> QED
  BY <1>1, <1>2, <1>4 DEF EffectInv

LEMMA EffectInvNext == EffectInv /\ [ENext]_evars => EffectInv'
<1> SUFFICES ASSUME EffectInv, [ENext]_evars PROVE EffectInv'
  OBVIOUS
<1>1. Inv /\ LedgerType /\ \A e \in Effects : EffectOK(e)
  BY DEF EffectInv
<1>2. CASE EngineStep
  <2>1. Inv'
    BY <1>1, <1>2, NextKeepsInv DEF EngineStep, Next
  <2>2. LedgerType'
    BY <1>1, <1>2 DEF EngineStep, ledger, LedgerType, IsFunctionOn
  <2>3. \A e \in Effects : EffectOK(e)'
    BY <1>1, <1>2, EngineStepKeeps
  <2> QED
    BY <2>1, <2>2, <2>3 DEF EffectInv
<1>3. CASE OtherStep
  <2>1. Inv'
    BY <1>1, <1>3, NextKeepsInv DEF OtherStep, Next
  <2>2. LedgerType'
    BY <1>1, <1>3 DEF OtherStep, ledger, LedgerType, IsFunctionOn
  <2>3. \A e \in Effects : EffectOK(e)'
    BY <1>1, <1>3, OtherStepKeeps
  <2> QED
    BY <2>1, <2>2, <2>3 DEF EffectInv
<1>4. CASE EffectNext
  <2>1. PICK f \in Effects : StepOf(f)
    BY <1>4, Zenon DEF EffectNext, UseAllUseable, StepOf
  <2> QED
    BY <1>1, <2>1, StepOfKeeps DEF EffectInv
<1>5. CASE UNCHANGED evars
  <2>1. UNCHANGED vars /\ UNCHANGED <<lastTime, stacks, bonus, ran>>
    BY <1>5 DEF evars, ledger
  <2>2. Inv'
    BY <1>1, <2>1, NextKeepsInv
  <2>3. LedgerType'
    BY <1>1, <2>1 DEF LedgerType, IsFunctionOn
  <2>4. ASSUME NEW e \in Effects PROVE EffectOK(e)'
    <3>1. EffectOK(e) /\ EventsSame(e) /\ AuraSame(e)
      BY <1>1, <2>1, <2>4, NothingMoves
    <3>2. FlagsSame(e) /\ LedgerSame(e)
      BY <2>1 DEF FlagsSame, LedgerSame, Arriving, Fading, AuraOf, vars
    <3>3. TimeOK(e)'
      BY <2>1, <3>1 DEF EffectOK, TimeOK, vars
    <3> QED
      BY <3>1, <3>2, <3>3, QuietStep
  <2> QED
    BY <2>2, <2>3, <2>4 DEF EffectInv
<1> QED
  BY <1>2, <1>3, <1>4, <1>5 DEF ENext

LEMMA EffectInvariance == ESpec => []EffectInv
<1>1. EInit => EffectInv
  BY EffectInvInit
<1>2. EffectInv /\ [ENext]_evars => EffectInv'
  BY EffectInvNext
<1> QED
  BY <1>1, <1>2, PTL DEF ESpec

\* Between the routines of auras, what an effect has added and not taken back is
\* what its aura stands for, whatever ends, refreshes or forces it.
THEOREM LedgersBalance == ESpec => []LedgerBalanced
<1>1. EffectInv => LedgerBalanced
  <2> SUFFICES ASSUME EffectInv, Settled, NEW e \in Effects
               PROVE  CASE EffectData[e].kind = "cooldown" ->
                             bonus[e] = IF HasEffectAura(e) THEN 1 ELSE 0
                        [] EffectData[e].kind = "stackable" ->
                             /\ bonus[e] = stacks[e]
                             /\ bonus[e] \in IF HasEffectAura(e) THEN 1..EffectData[e].max
                                             ELSE {0}
                        [] EffectData[e].kind = "chain" ->
                             bonus[e] = IF HasEffectAura(e) \/ IsQueued(e)
                                          THEN stacks[e] + 1 ELSE 0
    BY DEF LedgerBalanced
  <2>1. LedgerOK(e) /\ EffectData[e].max \in Nat
    BY EffectType DEF EffectInv, EffectOK
  <2>2. ~Arriving(e) /\ (Holds(e) <=> HasEffectAura(e))
    BY NotAtAura DEF Settled, Holds
  <2>3. CASE EffectData[e].kind = "cooldown"
    BY <2>1, <2>2, <2>3 DEF LedgerOK, Kind
  <2>4. CASE EffectData[e].kind = "stackable"
    <3>1. /\ bonus[e] = stacks[e] /\ stacks[e] \in Nat /\ stacks[e] <= EffectData[e].max
          /\ stacks[e] > 0 <=> HasEffectAura(e)
      BY <2>1, <2>2, <2>4 DEF LedgerOK, Kind
    <3>2. bonus[e] \in IF HasEffectAura(e) THEN 1..EffectData[e].max ELSE {0}
      BY <2>1, <3>1
    <3> QED
      BY <2>4, <3>1, <3>2
  <2>5. CASE EffectData[e].kind = "chain"
    BY <2>1, <2>2, <2>5 DEF LedgerOK, Kind
  <2>6. EffectData[e].kind \in {"cooldown", "stackable", "chain"}
    BY EffectType DEF Kind, Kinds
  <2> QED
    BY <2>3, <2>4, <2>5, <2>6
<1> QED
  BY <1>1, EffectInvariance, PTL

\* No bonus outlives its trigger by more than the life of its aura, or of the links
\* of its chain.
THEOREM BonusesExpire == ESpec => []BonusExpires
<1>1. EffectInv => BonusExpires
  <2> SUFFICES ASSUME EffectInv, NEW e \in Effects, bonus[e] # 0
               PROVE  LET n == IF EffectData[e].kind = "chain" THEN EffectData[e].max ELSE 1
                      IN  gameTime <= lastTime[e] + n * (EffectData[e].fade + 1)
    BY DEF BonusExpires
  <2> DEFINE n == IF Kind(e) = "chain" THEN EffectData[e].max ELSE 1
  <2>1. Inv /\ EffectOK(e) /\ gameTime \in Nat /\ n \in Nat
    BY EffectType DEF EffectInv, Inv, ClockOK
  <2>2. Kind(e) = "cooldown" \/ Kind(e) = "stackable" \/ Kind(e) = "chain"
    BY EffectType DEF Kinds
  <2>3. stacks[e] \in Nat /\ (Kind(e) = "chain" => stacks[e] < EffectData[e].max)
    BY <2>1 DEF EffectOK, LedgerOK
  <2>4. Arriving(e) \/ Holds(e) \/ IsQueued(e)
    BY <2>1, <2>2 DEF EffectOK, LedgerOK
  <2>5. CASE Holds(e)
    <3> DEFINE k == IF Kind(e) = "chain" THEN stacks[e] + 1 ELSE 1
    <3>1. k \in Nat /\ k <= n
      BY <2>3, EffectType
    <3>2. lastTime[e] # Null /\ PlayersAura(e).fadeTime <= lastTime[e] + Span(e, k)
      BY <2>1, <2>5 DEF EffectOK, AgeOK
    <3>3. gameTime <= PlayersAura(e).fadeTime /\ PlayersAura(e).fadeTime \in Nat
      BY <2>1, <2>5, AuraHasTime, AuraType DEF EffectOK, Holds
    <3> HIDE DEF k, n
    <3>4. Span(e, k) \in Nat /\ Span(e, n) \in Nat /\ Span(e, k) <= Span(e, n)
      BY <2>1, <3>1, SpanFacts
    <3>5. lastTime[e] \in Nat
      BY <2>1, <3>2 DEF EffectOK, TimeOK
    <3>6. gameTime <= lastTime[e] + Span(e, n)
      BY <2>1, <3>2, <3>3, <3>4, <3>5
    <3> QED
      BY <3>6 DEF Span, Kind, n
  <2>6. CASE Arriving(e) \/ IsQueued(e)
    <3> DEFINE k == IF Kind(e) = "chain" THEN stacks[e] ELSE 0
    <3>1. k \in Nat /\ k <= n
      BY <2>3, EffectType
    <3>2. \E x : IsGiven(e, x)
      <4>1. Arriving(e) => IsGiven(e, current)
        BY <2>1, CurrentOfRoutine DEF Arriving
      <4> QED
        BY <2>6, <4>1 DEF IsQueued, IsGiven, AuraOf
    <3>3. lastTime[e] # Null /\ gameTime <= lastTime[e] + Span(e, k)
      BY <2>1, <3>2 DEF EffectOK, GivenOK, GivenInTime
    <3> HIDE DEF k, n
    <3>4. Span(e, k) \in Nat /\ Span(e, n) \in Nat /\ Span(e, k) <= Span(e, n)
      BY <2>1, <3>1, SpanFacts
    <3>5. lastTime[e] \in Nat
      BY <2>1, <3>3 DEF EffectOK, TimeOK
    <3>6. gameTime <= lastTime[e] + Span(e, n)
      BY <2>1, <3>3, <3>4, <3>5
    <3> QED
      BY <3>6 DEF Span, Kind, n
  <2> QED
    BY <2>4, <2>5, <2>6
<1> QED
  BY <1>1, EffectInvariance, PTL

\* The stacks that the event system shows of a stackable effect are those that the
\* script counts, or one less.
THEOREM StacksAlwaysAgree == ESpec => []StacksAgree
<1>1. EffectInv => StacksAgree
  <2> SUFFICES ASSUME EffectInv, Settled, NEW e \in Effects, Kind(e) = "stackable",
                      HasEffectAura(e)
               PROVE  auraMap[Player][AuraOf(e)].ticks \in {stacks[e] - 1, stacks[e]}
    BY DEF StacksAgree, Kind, AuraOf
  <2>1. StacksOK(e)
    BY DEF EffectInv, EffectOK
  <2>2. ~Arriving(e) /\ Holds(e)
    BY NotAtAura DEF Settled, Holds
  <2> QED
    BY <2>1, <2>2 DEF StacksOK, PlayersAura
<1> QED
  BY <1>1, EffectInvariance, PTL
=============================================================================
