------------------------------ MODULE AuraProofs ------------------------------
(* The chains of ticks of the auras, for every set of spells, auras and       *)
(* scripts.                                                                   *)
EXTENDS AuraHistory, SimulatorProofs

IsPeriodic(x) == x \in DOMAIN heap /\ heap[x].type = "periodic"

\* No aura and no tick has a GUID that CAura::m_iGUIDCounter has yet to reach,
\* and no two ticks have the same.
GuidsOK ==
  /\ \A c \in Creatures : \A a \in DOMAIN auraMap[c] :
       auraMap[c][a].guid <= guidCounter
  /\ \A x : IsPeriodic(x) => heap[x].guid <= guidCounter
  /\ \A x, y : IsPeriodic(x) /\ IsPeriodic(y) /\ heap[x].guid = heap[y].guid
                 => x = y

\* The aura whose tick is in its Lua call is there.
HandlerFinds == pc = "PeriodicEvent" => FindsItsAura(current)

ChainInv == Inv /\ GuidsOK /\ HandlerFinds

\* A step gives no aura another GUID, and adds none.
AurasKept ==
  /\ guidCounter' = guidCounter
  /\ \A c \in Creatures : \A a \in DOMAIN auraMap'[c] :
       a \in DOMAIN auraMap[c] /\ auraMap'[c][a].guid = auraMap[c][a].guid

\* The ticks after a step are ticks from before it, due when they were.
TicksStay == \A x : IsPeriodic(x)' => x \in DOMAIN heap /\ Stays(x)

-----------------------------------------------------------------------------
(* What the steps do to ticks and auras.                                      *)

\* The objects of other kinds may change, and one event finish, as it is none.
LEMMA OtherKinds ==
  ASSUME Undisturbed,
         \A y \in DOMAIN heap' : heap'[y].type = "periodic" =>
           y \in DOMAIN heap /\ ~Finishes(y)
  PROVE  TicksStay
BY DEF Undisturbed, TicksStay, IsPeriodic

\* The event in front is deleted.
LEMMA DeletedTick ==
  ASSUME Undisturbed, NEW x, InFront(eventMap, gameTime, x),
         ReturnAndDelete(x, eventMap)
  PROVE  TicksStay
<1>1. DOMAIN heap' = DOMAIN heap \ {x}
  BY DEF ReturnAndDelete, Delete
<1>2. \A y : Finishes(y) => y = x
  BY DEF Finishes, InFront
<1> QED
  BY <1>1, <1>2, OtherKinds

LEMMA UnchangedAuras == UNCHANGED auras => AurasKept
BY DEF auras, AurasKept

\* The spell of an event leaves an aura: no tick is added, and the forced removal
\* changes only a time to fade.
LEMMA QueueAuraAddsNoTick ==
  ASSUME Inv, NEW x \in DOMAIN heap, QueueSpellAura(x), guidCounter' = guidCounter
  PROVE  /\ \A y \in DOMAIN heap' : y \notin DOMAIN heap =>
              heap'[y].type # "periodic"
         /\ AurasKept
<1> DEFINE a == SpellData[heap[x].spell].aura
<1>1. CASE UNCHANGED <<eventMap, heap, auraMap>>
  BY <1>1 DEF AurasKept
<1>2. CASE a # Null
  <2>1. PICK f \in ForcedRemovals(x) :
           IF f = << >>
             THEN \E y \in Fresh(DOMAIN heap) :
                    /\ heap' = New(heap, y, Application(x))
                    /\ UNCHANGED auraMap
             ELSE \E z \in Fresh(DOMAIN heap) :
                  \E y \in Fresh(DOMAIN heap \cup {z}) :
                    /\ heap' = New(New(heap, z, f[1]), y, Application(x))
                    /\ auraMap' = [auraMap EXCEPT ![Player][a].fadeTime = 1]
    BY <1>2 DEF QueueSpellAura
  <2>2. Application(x).type = "apply"
    BY DEF Application
  <2>3. CASE f = << >>
    <3>1. \E y : heap' = New(heap, y, Application(x)) /\ UNCHANGED auraMap
      BY <2>1, <2>3
    <3> QED
      BY <2>2, <3>1 DEF New, AurasKept
  <2>4. CASE f # << >>
    <3>1. PICK z, y : /\ heap' = New(New(heap, z, f[1]), y, Application(x))
                      /\ auraMap' = [auraMap EXCEPT ![Player][a].fadeTime = 1]
      BY <2>1, <2>4
    <3>2. f[1].type = "remove"
      BY <2>4 DEF ForcedRemovals
    <3>3. \A w \in DOMAIN heap' : w \notin DOMAIN heap => heap'[w].type # "periodic"
      BY <2>2, <3>1, <3>2 DEF New
    <3>4. AurasKept
      <4> DEFINE o == auraMap[Player][a]
                 f1 == [auraMap[Player] EXCEPT ![a] = [o EXCEPT !.fadeTime = 1]]
      <4>1. a \in DOMAIN auraMap[Player]
        BY <2>4 DEF ForcedRemovals, HasAura
      <4>2. AurasOK(auraMap) /\ Player \in Creatures
        BY PlayerAssumption DEF Inv, OthersOK
      <4>3. DOMAIN auraMap = Creatures
        BY <4>2 DEF AurasOK, IsFunctionOn
      <4>4. o \in AuraObjects
        BY <4>1, <4>2 DEF AurasOK
      <4>5. [o EXCEPT !.fadeTime = 1].guid = o.guid
        BY <4>4 DEF AuraObjects
      <4>6. auraMap' = [auraMap EXCEPT ![Player] = f1]
        BY <3>1
      <4>7. DOMAIN f1 = DOMAIN auraMap[Player]
            /\ \A b \in DOMAIN f1 : f1[b].guid = auraMap[Player][b].guid
        BY <4>1, <4>5
      <4> HIDE DEF f1
      <4> QED
        BY <4>3, <4>6, <4>7 DEF AurasKept
    <3> QED
      BY SMTT(40), <3>3, <3>4
  <2> QED
    BY SMTT(40), <2>3, <2>4
<1> QED
  BY <1>1, <1>2 DEF QueueSpellAura

LEMMA DeletingSteps ==
  ASSUME Inv, Undisturbed, NEW x \in DOMAIN heap,
         \/ RejectCast(x) \/ AbandonCast(x) \/ MissCast(x)
         \/ SkipTick(x) \/ MissTick(x) \/ DropRemoval(x) \/ DropTick(x)
  PROVE  AurasKept /\ TicksStay
<1>1. IsNext(x) /\ ReturnAndDelete(x, eventMap) /\ UNCHANGED auras
  BY DEF RejectCast, AbandonCast, MissCast, SkipTick, MissTick, DropRemoval, DropTick
<1>2. InFront(eventMap, gameTime, x)
  BY <1>1, NextIsInFront
<1> QED
  BY <1>1, <1>2, DeletedTick, UnchangedAuras

LEMMA FinishingSteps ==
  ASSUME Inv, Undisturbed,
         \/ FinishPostCasting \/ FinishPostChannel
         \/ \E g \in GcdTimes : MissChannel(g)
  PROVE  AurasKept /\ TicksStay
<1>1. pc \in Hooks /\ ReturnAndDelete(current, eventMap) /\ UNCHANGED auras
  BY DEF FinishPostCasting, FinishPostChannel, MissChannel, Hooks
<1>2. InFront(eventMap, gameTime, current)
  BY <1>1, CurrentIsInFront
<1> QED
  BY <1>1, <1>2, DeletedTick, UnchangedAuras

LEMMA StartingSteps ==
  ASSUME Inv, Undisturbed,
         \/ FinishPreChannel
         \/ \E g \in GcdTimes : \E c \in CastTimes(heap[current].spell) :
              StartCast(g, c) \/ StartChannel(g, c)
  PROVE  AurasKept /\ TicksStay
<1>1. pc \in {"PreSpellChannel", "PreCastingSpell"} /\ UNCHANGED auras
  BY DEF FinishPreChannel, StartCast, StartChannel
<1>2. /\ InFront(eventMap, gameTime, current) /\ current \in DOMAIN heap
      /\ heap[current] \in EventObjects
      /\ heap[current].type \in {"castPre", "tickPre"}
  BY <1>1, CurrentIsInFront DEF Hooks, HookType, GoodObject
<1>3. heap[current] \in CastEvents \cup TickEvents
  BY <1>2, KindsOfObjects DEF IsTick
<1>4. /\ heap'[current].type \in {"castPost", "tickPost"}
      /\ \A y \in DOMAIN heap' : y \notin DOMAIN heap =>
           heap'[y].type = "tickPre"
  <2>1. CASE FinishPreChannel
    BY <1>2, <1>3, <2>1 DEF FinishPreChannel, CastEvents, TickEvents
  <2>2. ASSUME NEW g \in GcdTimes, NEW c \in CastTimes(heap[current].spell),
               StartCast(g, c)
        PROVE  /\ heap'[current].type = "castPost"
               /\ DOMAIN heap' = DOMAIN heap
    <3>1. heap' = [heap EXCEPT ![current] = CastPost(heap[current], gameTime + g)]
      BY <2>2 DEF StartCast, CastPost
    <3> QED
      BY <1>2, <1>3, <3>1 DEF CastPost, CastEvents, TickEvents
  <2>3. ASSUME NEW g \in GcdTimes, NEW c \in CastTimes(heap[current].spell),
               StartChannel(g, c)
        PROVE  /\ heap'[current].type = "castPost"
               /\ \A y \in DOMAIN heap' : y \notin DOMAIN heap =>
                    heap'[y].type = "tickPre"
    <3>1. PICK k \in Allocations(SpellData[heap[current].spell].ticks) :
            heap' = [y \in DOMAIN heap \cup {k[i] : i \in DOMAIN k} |->
                       IF y = current THEN CastPost(heap[current], gameTime + g)
                       ELSE IF y \in DOMAIN heap THEN heap[y]
                       ELSE TickEvent(heap[current].spell, heap[current].target,
                                      current)]
      BY <2>3 DEF StartChannel, CastPost
    <3>2. heap'[current] = CastPost(heap[current], gameTime + g)
      BY <1>2, <3>1
    <3>3. heap'[current].type = "castPost"
      BY <1>3, <3>2 DEF CastPost, CastEvents, TickEvents
    <3> QED
      BY <1>2, <3>1, <3>3 DEF TickEvent
  <2> QED
    BY <2>1, <2>2, <2>3 DEF FinishPreChannel
<1>5. \A y : Finishes(y) => y = current
  BY <1>2 DEF Finishes, InFront
<1> QED
  BY <1>1, <1>4, <1>5, OtherKinds, UnchangedAuras

LEMMA AllStayTicks ==
  ASSUME AllStay,
         \A y \in DOMAIN heap' : y \notin DOMAIN heap => heap'[y].type # "periodic"
  PROVE  TicksStay
BY DEF AllStay, TicksStay, IsPeriodic

LEMMA CallingSteps ==
  ASSUME Inv, NEW x \in DOMAIN heap,
         \/ BeginCast(x) \/ BeginTick(x) \/ HitCast(x) \/ HitTick(x)
         \/ BeginApplication(x) \/ BeginFade(x) \/ BeginPeriodic(x)
  PROVE  AurasKept /\ TicksStay
<1>1. AllStay
  BY BeginKeepsInv, HitKeepsInv
<1>2. CASE HitCast(x) \/ HitTick(x)
  <2>1. QueueSpellAura(x) /\ guidCounter' = guidCounter
    BY <1>2 DEF HitCast, HitTick
  <2> QED
    BY <1>1, <2>1, QueueAuraAddsNoTick, AllStayTicks
<1>3. CASE UNCHANGED <<heap, auras>>
  BY <1>1, <1>3, AllStayTicks, UnchangedAuras
<1> QED
  BY <1>2, <1>3 DEF BeginCast, BeginTick, BeginApplication, BeginFade, BeginPeriodic

LEMMA OtherSteps ==
  ASSUME Inv, \/ ScriptNext \/ Advance \/ UNCHANGED vars
              \/ BeginLoop \/ StartLoop \/ Stop \/ EndIdle \/ Terminated
  PROVE  AurasKept /\ TicksStay
<1>1. AllStay
  BY CastSpellByNameKeepsInv, UnitApplyAuraKeepsInv, OtherCallsKeepsInv,
     AdvanceKeepsInv, LoopKeepsInv, SoundStays DEF ScriptNext, vars
<1>2. UNCHANGED auras
  BY DEF ScriptNext, CastSpellByName, UnitApplyAura, StopCasting, PlayerSleep,
         FinalizeCalculation, Advance, vars, auras, BeginLoop, StartLoop, Stop,
         EndIdle, Terminated
<1>3. \A y \in DOMAIN heap' : y \notin DOMAIN heap => heap'[y].type # "periodic"
  <2>1. CASE UNCHANGED heap
    BY <2>1
  <2>2. ASSUME NEW obj, Queue(obj), obj.type \in {"castPre", "apply"}
        PROVE  \A y \in DOMAIN heap' : y \notin DOMAIN heap => heap'[y].type # "periodic"
    BY <2>2 DEF Queue, New
  <2>3. CASE \E call \in CastCalls : CastSpellByName(call[1], call[2])
    BY <2>2, <2>3 DEF CastSpellByName
  <2>4. CASE \E call \in ApplyCalls : UnitApplyAura(call)
    BY <2>2, <2>4, ScriptAssumption DEF UnitApplyAura, ApplyEvents
  <2> QED
    BY <2>1, <2>3, <2>4 DEF ScriptNext, StopCasting, PlayerSleep,
         FinalizeCalculation, Advance, vars, BeginLoop, StartLoop, Stop,
         EndIdle, Terminated
<1> QED
  BY <1>1, <1>2, <1>3, AllStayTicks, UnchangedAuras

\* A removal that follows its aura.
LEMMA PostponingStep ==
  ASSUME Inv, Undisturbed, NEW x \in DOMAIN heap, PostponeRemoval(x)
  PROVE  AurasKept /\ TicksStay
<1>1. IsNext(x) /\ heap[x].type = "remove" /\ UNCHANGED <<heap, auras>>
  BY DEF PostponeRemoval, ReturnAndKeep
<1>2. InFront(eventMap, gameTime, x)
  BY <1>1, NextIsInFront
<1>3. \A y : Finishes(y) => y = x
  BY <1>2 DEF Finishes, InFront
<1> QED
  BY <1>1, <1>3, OtherKinds, UnchangedAuras

\* What a new number of ticks and a new fade time leave of an aura.
LEMMA TouchedAura ==
  ASSUME NEW o \in AuraObjects, NEW s, NEW f
  PROVE  /\ [o EXCEPT !.ticks = s, !.fadeTime = f].guid = o.guid
         /\ [o EXCEPT !.ticks = s, !.fadeTime = f].fadeTime = f
BY DEF AuraObjects

\* An application to an aura that is there.
LEMMA RefreshingStep ==
  ASSUME Inv, Undisturbed, RefreshAura
  PROVE  AurasKept /\ TicksStay
<1> DEFINE x == current
           c == heap[x].target
           a == heap[x].aura
<1>1. /\ InFront(eventMap, gameTime, x) /\ c \in Creatures /\ a \in Auras
      /\ AurasOK(auraMap)
  BY SMTT(40), ApplicationFacts DEF RefreshAura, Inv, OthersOK
<1>2. TicksStay
  BY <1>1, DeletedTick DEF RefreshAura
<1>3. a \in DOMAIN auraMap[c] /\ guidCounter' = guidCounter
  BY Zenon DEF RefreshAura, HasAura
<1>4. PICK f \in RefreshedFades(x) :
        auraMap' = [auraMap EXCEPT ![c][a].ticks = @ + heap[x].stacks,
                                   ![c][a].fadeTime = f]
  BY Zenon DEF RefreshAura
<1>5. auraMap[c][a] \in AuraObjects /\ DOMAIN auraMap = Creatures
  BY <1>1, <1>3 DEF AurasOK, IsFunctionOn
<1> DEFINE o == [auraMap[c][a] EXCEPT !.ticks = @ + heap[x].stacks,
                                      !.fadeTime = f]
           g == [auraMap[c] EXCEPT ![a] = o]
<1>6. o.guid = auraMap[c][a].guid
  BY SMTT(40), <1>5, TouchedAura
<1>7. auraMap' = [auraMap EXCEPT ![c] = g]
  BY ZenonT(60), <1>1, <1>3, <1>4, <1>5
<1> HIDE DEF o
<1>8. DOMAIN g = DOMAIN auraMap[c] /\ \A b \in DOMAIN g : g[b].guid = auraMap[c][b].guid
  BY <1>3, <1>6
<1> HIDE DEF g
<1>9. AurasKept
  BY <1>1, <1>3, <1>5, <1>7, <1>8 DEF AurasKept
<1> QED
  BY SMTT(40), <1>2, <1>9

LEMMA FadingStep ==
  ASSUME Inv, Undisturbed, FinishFade
  PROVE  AurasKept /\ TicksStay
<1> DEFINE x == current
           c == heap[x].target
<1>1. /\ InFront(eventMap, gameTime, x) /\ heap[x] \in EventObjects
      /\ heap[x].type = "remove" /\ AurasOK(auraMap)
  BY CurrentIsInFront DEF FinishFade, Hooks, HookType, GoodObject, Inv, OthersOK
<1>2. TicksStay
  BY <1>1, DeletedTick DEF FinishFade
<1>3. c \in Creatures /\ DOMAIN auraMap = Creatures
  BY <1>1, KindsOfObjects DEF RemoveEvents, AurasOK, IsFunctionOn
<1> DEFINE g == [b \in DOMAIN auraMap[c] \ {heap[x].aura} |-> auraMap[c][b]]
<1>4. auraMap' = [auraMap EXCEPT ![c] = g] /\ guidCounter' = guidCounter
  BY DEF FinishFade
<1>5. AurasKept
  BY <1>3, <1>4 DEF AurasKept
<1> QED
  BY <1>2, <1>5

\* Only NewAura adds a tick or an aura, and only FinishPeriodic moves a tick.
LEMMA QuietSteps ==
  ASSUME Inv, Undisturbed, [Next]_vars
  PROVE  (AurasKept /\ TicksStay) \/ NewAura \/ FinishPeriodic
<1>1. CASE FinishPreCasting
  <2>1. PICK g \in GcdTimes :
          \/ MissChannel(g)
          \/ \E c \in CastTimes(heap[current].spell) :
               StartCast(g, c) \/ StartChannel(g, c)
    BY <1>1 DEF FinishPreCasting
  <2> QED
    BY <2>1, FinishingSteps, StartingSteps
<1>2. CASE FinishPostCasting \/ FinishPostChannel
  BY <1>2, FinishingSteps
<1>3. CASE FinishPreChannel
  BY <1>3, StartingSteps
<1>4. CASE SpellNext
  BY <1>1, <1>2, <1>3, <1>4, DeletingSteps, CallingSteps DEF SpellNext
<1>5. CASE AuraNext
  BY <1>5, DeletingSteps, CallingSteps, PostponingStep, RefreshingStep,
     FadingStep DEF AuraNext
<1> QED
  BY <1>4, <1>5, OtherSteps DEF Next, Engine

-----------------------------------------------------------------------------
(* One chain of ticks for every aura.                                         *)

LEMMA HandlerStillFinds ==
  ASSUME ChainInv, [Next]_vars
  PROVE  HandlerFinds'
<1> SUFFICES ASSUME pc' = "PeriodicEvent" PROVE FindsItsAura(current)'
  BY DEF HandlerFinds
<1>1. CASE (ScriptNext \/ UNCHANGED vars) /\ UNCHANGED <<pc, current, auras>>
  <2>1. AllStay
    BY <1>1, CastSpellByNameKeepsInv, UnitApplyAuraKeepsInv, OtherCallsKeepsInv,
       SoundStays DEF ScriptNext, vars, ChainInv
  <2>2. current \in DOMAIN heap /\ FindsItsAura(current)
    BY <1>1, CurrentIsInFront DEF ChainInv, HandlerFinds, Hooks
  <2>3. heap'[current] = heap[current]
    BY <2>1, <2>2 DEF AllStay, Stays
  <2> QED
    BY <1>1, <2>2, <2>3 DEF FindsItsAura, HasAura, Instance, auras
<1>2. ASSUME NEW x \in DOMAIN heap,
             \/ BeginCast(x) \/ BeginTick(x) \/ HitCast(x) \/ HitTick(x)
             \/ BeginApplication(x) \/ BeginFade(x) \/ BeginPeriodic(x)
      PROVE  FindsItsAura(current)'
  <2>1. BeginPeriodic(x)
    BY <1>2 DEF BeginCast, BeginTick, HitCast, HitTick, BeginApplication, BeginFade,
       CallHook
  <2> QED
    BY <2>1 DEF BeginPeriodic, CallHook, FindsItsAura, HasAura, Instance, auras
<1> QED
  BY <1>1, <1>2, InHook DEF Hooks

\* The guids after a step that makes no aura.
LEMMA GuidsKept ==
  ASSUME GuidsOK, AurasKept,
         \A x : IsPeriodic(x)' => x \in DOMAIN heap /\ heap'[x] = heap[x]
  PROVE  GuidsOK'
BY DEF GuidsOK, AurasKept, IsPeriodic

LEMMA NewAuraKeepsGuids ==
  ASSUME ChainInv, Undisturbed, NewAura
  PROVE  GuidsOK'
<1> DEFINE x == current
           c == heap[x].target
           a == heap[x].aura
<1>1. PICK p \in TickTimes(a) : MakesAura(x, FirstFade(x, p), p)
  BY NewAuraMakes DEF ChainInv
<1> DEFINE f == FirstFade(x, p)
           r == FirstRemoval(x, f)
           t == FirstTick(x, p)
<1>2. /\ guidCounter' = guidCounter + 1 /\ guidCounter \in Nat
      /\ AurasOK(auraMap)
  BY NewAuraMakes DEF ChainInv, Inv, OthersOK
<1>3. c \in Creatures /\ DOMAIN auraMap = Creatures /\ InFront(eventMap, gameTime, x)
  BY <1>2, ApplicationFacts DEF ChainInv, NewAura, AurasOK, IsFunctionOn
<1>4. /\ r.event.type = "remove" /\ t.event.type = "periodic"
      /\ t.event.guid = guidCounter + 1
  BY DEF FirstRemoval, FirstTick
<1>5. ASSUME NEW y, IsPeriodic(y)', ~IsNew(y)
      PROVE  IsPeriodic(y) /\ heap'[y] = heap[y]
  <2>1. y \in DOMAIN heap /\ y # x
    BY <1>1, <1>5 DEF IsPeriodic, IsNew, MakesAura
  <2>2. Stays(y)
    BY <1>3, <2>1 DEF Undisturbed, Finishes, InFront
  <2> QED
    BY <1>5, <2>1, <2>2 DEF Stays, IsPeriodic
<1>6. ASSUME NEW y, IsPeriodic(y)', IsNew(y)
      PROVE  heap'[y] = t.event
  BY <1>1, <1>4, <1>6 DEF MakesAura, IsPeriodic
<1>7. \A d \in Creatures : \A b \in DOMAIN auraMap'[d] :
        auraMap'[d][b].guid <= guidCounter'
  <2> TAKE d \in Creatures
  <2> TAKE b \in DOMAIN auraMap'[d]
  <2>1. auraMap' = [auraMap EXCEPT ![c] =
           [e \in DOMAIN auraMap[c] \cup {a} |->
              IF e = a THEN NewInstance(x, f) ELSE auraMap[c][e]]]
    BY <1>1 DEF MakesAura
  <2>2. CASE d = c /\ b = a
    BY <1>2, <1>3, <2>1, <2>2 DEF NewInstance
  <2>3. CASE ~(d = c /\ b = a)
    <3>1. b \in DOMAIN auraMap[d] /\ auraMap'[d][b] = auraMap[d][b]
      BY <1>3, <2>1, <2>3
    <3>2. auraMap[d][b].guid \in Nat /\ auraMap[d][b].guid <= guidCounter
      BY <1>2, <3>1 DEF AurasOK, AuraObjects, ChainInv, GuidsOK
    <3> QED
      BY <1>2, <3>1, <3>2
  <2> QED
    BY <2>2, <2>3
<1> HIDE DEF t, r
<1>8. ASSUME NEW y, IsPeriodic(y)'
      PROVE  heap'[y].guid <= guidCounter'
  <2>1. CASE IsNew(y)
    BY <1>2, <1>4, <1>6, <1>8, <2>1
  <2>2. CASE ~IsNew(y)
    <3>1. IsPeriodic(y) /\ heap'[y] = heap[y]
      BY <1>5, <1>8, <2>2
    <3>2. heap[y].guid \in Nat /\ heap[y].guid <= guidCounter
      BY <3>1, KindsOfObjects DEF IsPeriodic, ChainInv, GuidsOK, Inv, SoundNow, Sound,
         GoodHeap, GoodObject, PeriodicEvents
    <3> QED
      BY <1>2, <3>1, <3>2
  <2> QED
    BY <2>1, <2>2
<1>9. ASSUME NEW y, NEW z, IsPeriodic(y)', IsPeriodic(z)', heap'[y].guid = heap'[z].guid
      PROVE  y = z
  <2>1. CASE IsNew(y) /\ IsNew(z)
    BY <1>1, <1>6, <1>9, <2>1 DEF MakesAura
  <2>2. CASE ~IsNew(y) /\ ~IsNew(z)
    BY <1>5, <1>9, <2>2 DEF ChainInv, GuidsOK
  <2>3. ASSUME NEW v, NEW w, IsPeriodic(v)', IsPeriodic(w)', IsNew(v), ~IsNew(w)
        PROVE  heap'[v].guid # heap'[w].guid
    <3>1. IsPeriodic(w) /\ heap'[w] = heap[w]
      BY <1>5, <2>3
    <3>2. heap[w].guid \in Nat /\ heap[w].guid <= guidCounter
      BY <3>1, KindsOfObjects DEF IsPeriodic, ChainInv, GuidsOK, Inv, SoundNow, Sound,
         GoodHeap, GoodObject, PeriodicEvents
    <3>3. heap'[v].guid = guidCounter + 1
      BY <1>4, <1>6, <2>3
    <3> QED
      BY <1>2, <3>1, <3>2, <3>3
  <2> QED
    BY <1>9, <2>1, <2>2, <2>3
<1> QED
  BY <1>7, <1>8, <1>9 DEF GuidsOK

LEMMA ChainStep == ChainInv /\ [Next]_vars => ChainInv'
<1> SUFFICES ASSUME ChainInv, [Next]_vars PROVE ChainInv'
  OBVIOUS
<1>1. Inv' /\ Undisturbed
  BY NextKeepsInv DEF ChainInv
<1>2. ASSUME AurasKept, TicksStay
      PROVE  GuidsOK'
  BY <1>2, GuidsKept DEF ChainInv, TicksStay, Stays
<1>3. ASSUME FinishPeriodic
      PROVE  GuidsOK'
  <2>1. UNCHANGED auras /\ (heap' = heap \/ heap' = Delete(heap, current))
    BY <1>3 DEF FinishPeriodic, ReturnAndKeep, ReturnAndDelete
  <2>2. \A x : IsPeriodic(x)' => x \in DOMAIN heap /\ heap'[x] = heap[x]
    BY <2>1 DEF IsPeriodic, Delete
  <2> QED
    BY <2>1, <2>2, GuidsKept, UnchangedAuras DEF ChainInv
<1>4. ASSUME NewAura
      PROVE  GuidsOK'
  BY <1>1, <1>4, NewAuraKeepsGuids
<1>5. GuidsOK'
  BY <1>1, <1>2, <1>3, <1>4, QuietSteps DEF ChainInv
<1> QED
  BY <1>1, <1>5, HandlerStillFinds DEF ChainInv

LEMMA ChainInit == Init => ChainInv
BY InvInit DEF Init, ChainInv, GuidsOK, HandlerFinds, IsPeriodic

LEMMA ChainInvariance == Spec => []ChainInv
BY ChainInit, ChainStep, PTL DEF Spec

\* Two ticks that find the same aura carry its GUID, and so are one.
LEMMA ChainGivesOneTickChain == ChainInv => OneTickChain
BY DEF ChainInv, GuidsOK, OneTickChain, FindsItsAura, Instance, IsPeriodic

\* One aura has one chain of ticks, however often it was applied, refreshed,
\* removed and applied again: a refresh adds no tick, and the tick that waits
\* for an aura that has gone does not find the one that came after it, since
\* CAura gives every aura a GUID of its own (EventSystem.cpp, ProcessEvent of
\* CAuraEvent).
THEOREM OneChainForEachAura == Spec => []OneTickChain
BY ChainInvariance, ChainGivesOneTickChain, PTL

-----------------------------------------------------------------------------
(* A period between two ticks.                                                *)

TallyOK == tally \in [Creatures -> [Auras -> Tally]]

\* The tick that waits for an aura is due a period after its last one.
TicksWait ==
  \A x, t : IsPeriodic(x) /\ FindsItsAura(x) /\ IsDueAt(eventMap, x, t)
    => TallyOf(x).last + heap[x].period <= t

SpacedInv == ChainInv /\ TallyOK /\ TicksWait

LEMMA PeriodicType ==
  ASSUME Inv, NEW x, IsPeriodic(x)
  PROVE  /\ heap[x].target \in Creatures /\ heap[x].aura \in Auras
         /\ heap[x].period \in Nat /\ heap[x].guid \in Nat
<1>1. x \in DOMAIN heap /\ heap[x] \in EventObjects /\ heap[x].type = "periodic"
  BY DEF IsPeriodic, Inv, SoundNow, Sound, GoodHeap, GoodObject
<1>2. heap[x] \in PeriodicEvents
  BY <1>1, KindsOfObjects
<1> QED
  BY <1>2 DEF PeriodicEvents

\* One entry of the tally changes.
SetsTally(c, a, v) == tally' = [tally EXCEPT ![c][a] = v]

LEMMA TallyUpdate ==
  ASSUME TallyOK, NEW c \in Creatures, NEW a \in Auras, NEW v \in Tally,
         SetsTally(c, a, v)
  PROVE  /\ TallyOK' /\ tally'[c][a] = v
         /\ \A d \in Creatures, b \in Auras :
              ~(d = c /\ b = a) => tally'[d][b] = tally[d][b]
<1>1. TallyOK'
  BY DEF TallyOK, SetsTally
<1>2. tally'[c][a] = v
  BY DEF TallyOK, SetsTally
<1>3. ASSUME NEW d \in Creatures, NEW b \in Auras, ~(d = c /\ b = a)
      PROVE  tally'[d][b] = tally[d][b]
  BY <1>3 DEF TallyOK, SetsTally
<1> QED
  BY <1>1, <1>2, <1>3

\* A tick is recorded in the entry o.
Ticked(o) == [[o EXCEPT !.done = o.done + 1] EXCEPT !.last = gameTime]

LEMMA TickedType ==
  ASSUME NEW o \in Tally, gameTime \in Nat
  PROVE  Ticked(o) \in Tally /\ Ticked(o).last = gameTime
<1>1. o.done + 1 \in Nat
  BY DEF Tally
<1>2. [o EXCEPT !.done = o.done + 1] \in Tally
  BY <1>1 DEF Tally
<1> QED
  BY Zenon, <1>2 DEF Tally, Ticked

LEMMA TickSetsTally ==
  ASSUME TallyOK, RecordTick, NEW c \in Creatures, NEW a \in Auras,
         c = heap[current].target, a = heap[current].aura
  PROVE  SetsTally(c, a, Ticked(tally[c][a]))
<1> DEFINE o == tally[c][a]
           v == [o EXCEPT !.done = o.done + 1]
           n == [tally EXCEPT ![c][a].done = @ + 1]
<1>1. tally' = [n EXCEPT ![c][a].last = gameTime]
  BY DEF RecordTick
<1>2. n = [tally EXCEPT ![c][a] = v]
  BY DEF TallyOK
<1>3. n[c][a] = v
  BY Zenon, <1>2 DEF TallyOK
<1>4. [n EXCEPT ![c][a].last = gameTime] = [n EXCEPT ![c][a] = Ticked(o)]
  BY ZenonT(60), <1>3 DEF Ticked
<1>5. [n EXCEPT ![c][a] = Ticked(o)] = [tally EXCEPT ![c][a] = Ticked(o)]
  BY <1>2 DEF TallyOK
<1> QED
  BY ZenonT(60), <1>1, <1>4, <1>5 DEF SetsTally

\* The entry of an aura that is applied anew.
Applied(x) ==
  [done |-> 0, due |-> heap[x].fade \div AuraData[heap[x].aura].period,
   last |-> gameTime, refreshed |-> FALSE]

\* The entry of the aura of the current event becomes v.
SetsEntry(v) ==
  LET c == heap[current].target
      a == heap[current].aura
  IN  /\ c \in Creatures /\ a \in Auras /\ tally'[c][a] = v
      /\ \A d \in Creatures, b \in Auras :
           ~(d = c /\ b = a) => tally'[d][b] = tally[d][b]

\* What Record makes of the tally.
LEMMA RecordedTally ==
  ASSUME Inv, TallyOK, [Next]_vars, Record
  PROVE  /\ TallyOK'
         /\ \/ UNCHANGED tally /\ ~RefreshAura /\ ~NewAura /\ ~FinishPeriodic
            \/ /\ RefreshAura /\ ~NewAura /\ ~FinishPeriodic
               /\ SetsEntry([TallyOf(current) EXCEPT !.refreshed = TRUE])
            \/ /\ NewAura /\ ~RefreshAura /\ ~FinishPeriodic
               /\ SetsEntry(Applied(current))
            \/ /\ FinishPeriodic /\ ~RefreshAura /\ ~NewAura
               /\ SetsEntry(Ticked(TallyOf(current)))
<1> DEFINE c == heap[current].target
           a == heap[current].aura
           o == tally[c][a]
<1>1. tally \in [Creatures -> [Auras -> Tally]] /\ gameTime \in Nat
  BY DEF TallyOK, Inv, ClockOK
<1>2. CASE pc = "AuraApplication" /\ pc' # pc
  <2>1. /\ c \in Creatures /\ a \in Auras /\ heap[current] \in ApplyEvents
        /\ tally' = [tally EXCEPT ![c][a] =
             IF HasAura(c, a)
               THEN [o EXCEPT !.refreshed = TRUE]
               ELSE [done |-> 0, due |-> heap[current].fade \div AuraData[a].period,
                     last |-> gameTime, refreshed |-> FALSE]]
    BY <1>1, <1>2, ApplicationFacts DEF Record, RecordApplication
  <2>2. o \in Tally
    BY <1>1, <2>1
  <2>3. ~FinishPeriodic /\ (RefreshAura \/ NewAura)
    BY <1>2, LeavingHook DEF FinishPeriodic
  <2>4. CASE HasAura(c, a)
    <3>1. PICK v : v = [o EXCEPT !.refreshed = TRUE]
      OBVIOUS
    <3>2. v \in Tally
      BY <2>2, <3>1 DEF Tally
    <3>3. SetsTally(c, a, v)
      BY <2>1, <2>4, <3>1 DEF SetsTally
    <3>4. TallyOK' /\ SetsEntry(v)
      <4> HIDE DEF c, a
      <4>1. /\ TallyOK' /\ tally'[c][a] = v
            /\ \A d \in Creatures, b \in Auras :
                 ~(d = c /\ b = a) => tally'[d][b] = tally[d][b]
        BY <2>1, <3>2, <3>3, TallyUpdate
      <4> QED
        BY <2>1, <4>1 DEF SetsEntry, c, a
    <3>5. ~NewAura
      BY <2>4 DEF NewAura
    <3> QED
      BY <2>3, <3>1, <3>4, <3>5 DEF TallyOf
  <2>5. CASE ~HasAura(c, a)
    <3>1. PICK v : v = Applied(current)
      OBVIOUS
    <3>2. heap[current].fade \div AuraData[a].period \in Nat
      <4>1. heap[current].fade \in Nat /\ AuraData[a].period \in Nat \ {0}
        BY <2>1, AuraAssumption DEF ApplyEvents
      <4> QED
        BY <4>1
    <3>3. v \in Tally
      BY <1>1, <3>1, <3>2 DEF Tally, Applied
    <3>4. SetsTally(c, a, v)
      BY <2>1, <2>5, <3>1 DEF SetsTally, Applied
    <3>5. TallyOK' /\ SetsEntry(v)
      <4> HIDE DEF c, a
      <4>1. /\ TallyOK' /\ tally'[c][a] = v
            /\ \A d \in Creatures, b \in Auras :
                 ~(d = c /\ b = a) => tally'[d][b] = tally[d][b]
        BY SMTT(40), <2>1, <3>3, <3>4, TallyUpdate
      <4> QED
        BY <2>1, <4>1 DEF SetsEntry, c, a
    <3>6. ~RefreshAura
      BY Zenon, <2>5 DEF RefreshAura
    <3> QED
      BY <2>3, <3>1, <3>5, <3>6
  <2> QED
    BY <2>4, <2>5
<1>3. CASE pc = "PeriodicEvent" /\ pc' # pc
  <2>1. IsPeriodic(current)
    BY <1>3, CurrentIsInFront DEF Hooks, HookType, IsPeriodic
  <2>2. c \in Creatures /\ a \in Auras
    BY <2>1, PeriodicType
  <2>3. PICK v : v = Ticked(o)
    OBVIOUS
  <2>4. v \in Tally
    BY <1>1, <2>2, <2>3, TickedType
  <2>5. SetsTally(c, a, v)
    <3>1. RecordTick
      BY <1>3 DEF Record
    <3> QED
      BY <2>2, <2>3, <3>1, TickSetsTally
  <2>6. TallyOK' /\ SetsEntry(v)
    <3> HIDE DEF c, a
    <3>1. /\ TallyOK' /\ tally'[c][a] = v
          /\ \A d \in Creatures, b \in Auras :
               ~(d = c /\ b = a) => tally'[d][b] = tally[d][b]
      BY <2>2, <2>4, <2>5, TallyUpdate
    <3> QED
      BY <2>2, <3>1 DEF SetsEntry, c, a
  <2>7. FinishPeriodic /\ ~NewAura /\ ~RefreshAura
    BY Zenon, <1>3, LeavingHook DEF NewAura, RefreshAura
  <2> QED
    BY <2>3, <2>6, <2>7 DEF TallyOf
<1>4. CASE ~(pc = "AuraApplication" /\ pc' # pc) /\ ~(pc = "PeriodicEvent" /\ pc' # pc)
  <2>1. tally' = tally
    BY <1>4 DEF Record
  <2>2. ~RefreshAura /\ ~NewAura /\ ~FinishPeriodic
    <3>1. RefreshAura \/ NewAura \/ FinishPeriodic => pc' = pc /\ pc \in Hooks
      BY Zenon, <1>4 DEF RefreshAura, NewAura, FinishPeriodic, Hooks
    <3>2. FinishPeriodic => pc' \notin Hooks
      BY ReturnLeavesHook DEF FinishPeriodic, ReturnAndKeep, ReturnAndDelete
    <3>3. RefreshAura => pc' \notin Hooks
      BY Zenon, ReturnLeavesHook DEF RefreshAura, ReturnAndDelete
    <3>4. NewAura => pc' \notin Hooks
      BY NewAuraLeavesHook
    <3> QED
      BY <3>1, <3>2, <3>3, <3>4
  <2> QED
    BY <2>1, <2>2 DEF TallyOK
<1> QED
  BY <1>2, <1>3, <1>4

\* What Record leaves of the last ticks.
LEMMA RecordedLasts ==
  ASSUME SpacedInv, [Next]_vars, Record
  PROVE  LET c == heap[current].target
             a == heap[current].aura
         IN  /\ TallyOK'
             /\ \/ \A d \in Creatures, b \in Auras : tally'[d][b].last = tally[d][b].last
                \/ /\ FinishPeriodic \/ NewAura
                   /\ tally'[c][a].last = gameTime
                   /\ \A d \in Creatures, b \in Auras :
                        ~(d = c /\ b = a) => tally'[d][b].last = tally[d][b].last
             /\ FinishPeriodic \/ NewAura => tally'[c][a].last = gameTime
<1> DEFINE c == heap[current].target
           a == heap[current].aura
           o == TallyOf(current)
<1>1. Inv /\ TallyOK /\ gameTime \in Nat
  BY DEF SpacedInv, ChainInv, Inv, ClockOK
<1>2. /\ TallyOK'
      /\ \/ UNCHANGED tally /\ ~RefreshAura /\ ~NewAura /\ ~FinishPeriodic
         \/ /\ RefreshAura /\ ~NewAura /\ ~FinishPeriodic
            /\ SetsEntry([o EXCEPT !.refreshed = TRUE])
         \/ NewAura /\ SetsEntry(Applied(current))
         \/ FinishPeriodic /\ SetsEntry(Ticked(o))
  BY <1>1, RecordedTally
<1>3. ASSUME NEW v, SetsEntry(v)
      PROVE  /\ o \in Tally /\ tally'[c][a] = v
             /\ \A d \in Creatures, b \in Auras :
                  ~(d = c /\ b = a) => tally'[d][b].last = tally[d][b].last
  BY <1>1, <1>3 DEF SetsEntry, TallyOK, TallyOf
<1>4. CASE UNCHANGED tally /\ ~NewAura /\ ~FinishPeriodic
  BY <1>2, <1>4
<1>5. CASE /\ ~NewAura /\ ~FinishPeriodic
           /\ SetsEntry([o EXCEPT !.refreshed = TRUE])
  <2>1. [o EXCEPT !.refreshed = TRUE].last = o.last
    BY <1>3, <1>5 DEF Tally
  <2>2. \A d \in Creatures, b \in Auras : tally'[d][b].last = tally[d][b].last
    BY <1>3, <1>5, <2>1 DEF TallyOf
  <2> QED
    BY <1>2, <1>5, <2>2
<1>6. CASE NewAura /\ SetsEntry(Applied(current))
  BY <1>2, <1>3, <1>6 DEF Applied
<1>7. CASE FinishPeriodic /\ SetsEntry(Ticked(o))
  <2>1. Ticked(o).last = gameTime
    BY <1>1, <1>3, <1>7, TickedType
  <2> QED
    BY <1>2, <1>3, <1>7, <2>1
<1> QED
  BY ZenonT(60), <1>2, <1>4, <1>5, <1>6, <1>7

\* A tick that was there waits for the same aura, whose last tick is the same.
LEMMA OldTickWaits ==
  ASSUME SpacedInv, NEW y, NEW t, IsPeriodic(y), Stays(y),
         FindsItsAura(y), IsDueAt(eventMap', y, t),
         tally'[heap[y].target][heap[y].aura].last
           = tally[heap[y].target][heap[y].aura].last
  PROVE  TallyOf(y)'.last + heap'[y].period <= t
<1>1. IsDueAt(eventMap, y, t) /\ heap'[y] = heap[y]
  BY DEF Stays
<1>2. TallyOf(y).last + heap[y].period <= t
  BY <1>1 DEF SpacedInv, TicksWait
<1>3. TallyOf(y)'.last = TallyOf(y).last
  BY <1>1 DEF TallyOf
<1> QED
  BY <1>1, <1>2, <1>3

LEMMA QuietStepWaits ==
  ASSUME SpacedInv, AurasKept, TicksStay,
         \A d \in Creatures, b \in Auras : tally'[d][b].last = tally[d][b].last
  PROVE  TicksWait'
<1> SUFFICES ASSUME NEW y, NEW t, IsPeriodic(y)', FindsItsAura(y)', IsDueAt(eventMap', y, t)
             PROVE  TallyOf(y)'.last + heap'[y].period <= t
  BY DEF TicksWait
<1>1. IsPeriodic(y) /\ Stays(y) /\ heap'[y] = heap[y]
  BY DEF TicksStay, Stays, IsPeriodic
<1>2. heap[y].target \in Creatures /\ heap[y].aura \in Auras
  BY <1>1, PeriodicType DEF SpacedInv, ChainInv
<1>3. FindsItsAura(y)
  BY <1>1, <1>2 DEF FindsItsAura, HasAura, Instance, AurasKept
<1> QED
  BY <1>1, <1>2, <1>3, OldTickWaits

LEMMA FinishPeriodicWaits ==
  ASSUME SpacedInv, Undisturbed, FinishPeriodic,
         NEW c \in Creatures, NEW a \in Auras,
         c = heap[current].target, a = heap[current].aura,
         tally'[c][a].last = gameTime,
         \A d \in Creatures, b \in Auras :
           ~(d = c /\ b = a) => tally'[d][b].last = tally[d][b].last
  PROVE  TicksWait'
<1> DEFINE x == current
           u == gameTime + heap[x].period
<1>1. /\ Inv /\ OneTickChain /\ pc = "PeriodicEvent" /\ UNCHANGED auras
      /\ FindsItsAura(x)
  BY ChainGivesOneTickChain DEF SpacedInv, ChainInv, HandlerFinds, FinishPeriodic
<1>2. /\ InFront(eventMap, gameTime, x) /\ IsPeriodic(x) /\ gameTime \in Nat
  BY <1>1, CurrentIsInFront DEF Hooks, HookType, IsPeriodic
<1>3. heap[x].period \in Nat
  BY <1>1, <1>2, PeriodicType
<1> SUFFICES ASSUME NEW y, NEW t, IsPeriodic(y)', FindsItsAura(y)', IsDueAt(eventMap', y, t)
             PROVE  TallyOf(y)'.last + heap'[y].period <= t
  BY DEF TicksWait
<1>4. \/ heap' = heap /\ Return(Enqueue(eventMap, u, x))
      \/ heap' = Delete(heap, x)
  BY DEF FinishPeriodic, ReturnAndKeep, ReturnAndDelete
<1>5. IsPeriodic(y) /\ heap'[y] = heap[y]
  BY <1>4 DEF IsPeriodic, Delete
<1>6. FindsItsAura(y)
  BY <1>1, <1>5 DEF FindsItsAura, HasAura, Instance, auras
<1>7. CASE y = x
  <2>1. heap' = heap /\ Return(Enqueue(eventMap, u, x))
    BY <1>4, <1>7 DEF IsPeriodic, Delete
  <2>2. GoodMap(eventMap, gameTime) /\ exitable \in BOOLEAN
    BY <1>1 DEF Inv, SoundNow, Sound, ClockOK
  <2>3. u \in Nat /\ gameTime <= u
    BY <1>2, <1>3
  <2> DEFINE m == Enqueue(eventMap, u, x)
  <2>4. DOMAIN m = DOMAIN eventMap \cup {u}
    BY DEF Enqueue
  <2>5. /\ DOMAIN m \subseteq Nat /\ \A v \in DOMAIN m : gameTime <= v
        /\ gameTime \in DOMAIN m
    BY <1>2, <2>2, <2>3, <2>4 DEF GoodMap, IsEventMap, InFront
  <2> HIDE DEF u
  <2>6. eventMap' = PopFront(m, gameTime)
    <3> HIDE DEF m
    <3>1. Return(m)
      BY <2>1 DEF m
    <3> QED
      BY <1>2, <2>2, <2>5, <3>1, ReturnPops
  <2>7. t = u
    BY <1>2, <1>7, <2>2, <2>3, <2>6, MoveInMap
  <2>8. TallyOf(y)'.last = gameTime
    BY <1>5, <1>7 DEF TallyOf
  <2> QED
    BY <1>5, <1>7, <2>7, <2>8 DEF u
<1>8. CASE y # x
  <2>1. Stays(y)
    BY <1>2, <1>5, <1>8 DEF Undisturbed, Finishes, InFront, IsPeriodic
  <2>2. ~(heap[y].target = c /\ heap[y].aura = a)
    BY <1>1, <1>2, <1>5, <1>6, <1>8 DEF OneTickChain, IsPeriodic
  <2>3. heap[y].target \in Creatures /\ heap[y].aura \in Auras
    BY <1>1, <1>5, PeriodicType
  <2> QED
    BY <1>5, <1>6, <2>1, <2>2, <2>3, OldTickWaits
<1> QED
  BY <1>7, <1>8

LEMMA NewAuraWaits ==
  ASSUME SpacedInv, Undisturbed, NewAura,
         NEW c \in Creatures, NEW a \in Auras,
         c = heap[current].target, a = heap[current].aura,
         tally'[c][a].last = gameTime,
         \A d \in Creatures, b \in Auras :
           ~(d = c /\ b = a) => tally'[d][b].last = tally[d][b].last
  PROVE  TicksWait'
<1> DEFINE x == current
<1>1. Inv /\ GuidsOK /\ gameTime \in Nat /\ guidCounter \in Nat
  BY DEF SpacedInv, ChainInv, Inv, OthersOK, ClockOK
<1>2. PICK p \in TickTimes(a) : MakesAura(x, FirstFade(x, p), p) /\ p \in Nat
  BY <1>1, NewAuraMakes
<1> DEFINE f == FirstFade(x, p)
           r == FirstRemoval(x, f)
           k == FirstTick(x, p)
<1>3. /\ InFront(eventMap, gameTime, x) /\ DOMAIN auraMap = Creatures
  BY <1>1, ApplicationFacts DEF NewAura, Inv, OthersOK, AurasOK, IsFunctionOn
<1> SUFFICES ASSUME NEW y, NEW t, IsPeriodic(y)', FindsItsAura(y)', IsDueAt(eventMap', y, t)
             PROVE  TallyOf(y)'.last + heap'[y].period <= t
  BY DEF TicksWait
<1>4. CASE IsNew(y)
  <2>1. r.event.type = "remove"
    BY DEF FirstRemoval
  <2>2. heap'[y] = k.event /\ OnlyDueAt(y, k.at)
    BY <1>2, <1>4, <2>1 DEF MakesAura, IsPeriodic
  <2>3. t = gameTime + p /\ heap'[y].period = p /\ heap'[y].target = c /\ heap'[y].aura = a
    BY <2>2 DEF FirstTick, OnlyDueAt
  <2>4. TallyOf(y)'.last = gameTime
    BY <2>3 DEF TallyOf
  <2> QED
    BY <1>1, <1>2, <2>3, <2>4
<1>5. CASE ~IsNew(y)
  <2>1. y \in DOMAIN heap /\ y # x
    BY <1>2, <1>5 DEF IsPeriodic, IsNew, MakesAura
  <2>2. Stays(y)
    BY <1>3, <2>1 DEF Undisturbed, Finishes, InFront
  <2>3. IsPeriodic(y) /\ heap'[y] = heap[y]
    BY <2>1, <2>2 DEF IsPeriodic, Stays
  <2>4. /\ heap[y].target \in Creatures /\ heap[y].aura \in Auras
        /\ heap[y].guid \in Nat /\ heap[y].guid <= guidCounter
    BY <1>1, <2>3, PeriodicType DEF GuidsOK
  <2>5. auraMap' = [auraMap EXCEPT ![c] =
           [b \in DOMAIN auraMap[c] \cup {a} |->
              IF b = a THEN NewInstance(x, f) ELSE auraMap[c][b]]]
    BY <1>2 DEF MakesAura
  <2>6. ~(heap[y].target = c /\ heap[y].aura = a)
    <3>1. auraMap'[c][a].guid = guidCounter + 1
      BY <1>3, <2>5 DEF NewInstance
    <3>2. heap[y].target = c /\ heap[y].aura = a => auraMap'[c][a].guid = heap[y].guid
      BY <2>3 DEF FindsItsAura, Instance
    <3> QED
      BY <1>1, <2>4, <3>1, <3>2
  <2>7. FindsItsAura(y)
    <3> DEFINE d == heap[y].target
               b == heap[y].aura
    <3>1. b \in DOMAIN auraMap'[d] /\ auraMap'[d][b].guid = heap[y].guid
      BY SMTT(40), <2>3 DEF FindsItsAura, HasAura, Instance
    <3>2. b \in DOMAIN auraMap[d] /\ auraMap[d][b] = auraMap'[d][b]
      BY <1>3, <2>4, <2>5, <2>6, <3>1
    <3> QED
      BY <3>1, <3>2 DEF FindsItsAura, HasAura, Instance
  <2> QED
    BY <2>2, <2>3, <2>4, <2>6, <2>7, OldTickWaits
<1> QED
  BY <1>4, <1>5

LEMMA SpacedStep == SpacedInv /\ [HNext]_<<vars, tally>> => SpacedInv'
<1> SUFFICES ASSUME SpacedInv, [HNext]_<<vars, tally>> PROVE SpacedInv'
  OBVIOUS
<1>1. CASE UNCHANGED <<vars, tally>>
  BY <1>1 DEF vars, SpacedInv, ChainInv, Inv, ClockOK, OthersOK, SoundNow, HandlerRuns,
     GuidsOK, HandlerFinds, TallyOK, TicksWait, IsPeriodic, FindsItsAura, HasAura,
     Instance, TallyOf
<1>2. CASE HNext
  <2>1. [Next]_vars /\ Record /\ ChainInv
    BY <1>2 DEF HNext, SpacedInv
  <2>2. Undisturbed /\ ChainInv' /\ Inv
    BY <2>1, NextKeepsInv, ChainStep DEF ChainInv
  <2> DEFINE c == heap[current].target
             a == heap[current].aura
  <2>3. /\ TallyOK'
        /\ \/ \A d \in Creatures, b \in Auras : tally'[d][b].last = tally[d][b].last
           \/ /\ FinishPeriodic \/ NewAura
              /\ tally'[c][a].last = gameTime
              /\ \A d \in Creatures, b \in Auras :
                   ~(d = c /\ b = a) => tally'[d][b].last = tally[d][b].last
        /\ FinishPeriodic \/ NewAura => tally'[c][a].last = gameTime
    BY <2>1, RecordedLasts
  <2>4. FinishPeriodic => c \in Creatures /\ a \in Auras
    BY <2>2, CurrentIsInFront, PeriodicType DEF FinishPeriodic, Hooks, HookType, IsPeriodic
  <2>5. NewAura => c \in Creatures /\ a \in Auras
    BY <2>2, ApplicationFacts DEF NewAura
  <2>6. TicksWait'
    BY <2>1, <2>2, <2>3, <2>4, <2>5, QuietSteps, QuietStepWaits, FinishPeriodicWaits,
       NewAuraWaits
  <2> QED
    BY <2>2, <2>3, <2>6 DEF SpacedInv
<1> QED
  BY <1>1, <1>2

LEMMA SpacedInit == HInit => SpacedInv
BY ChainInit DEF HInit, Init, SpacedInv, TallyOK, Tally, NoTally, TicksWait, IsPeriodic

\* The tick in its Lua call is the one that waited for its aura.
LEMMA SpacedGivesTicksAreSpaced == SpacedInv => TicksAreSpaced
<1> SUFFICES ASSUME SpacedInv, pc = "PeriodicEvent"
             PROVE  gameTime >= TallyOf(current).last + heap[current].period
  BY DEF TicksAreSpaced
<1>1. /\ Inv /\ FindsItsAura(current)
      /\ GoodMap(eventMap, gameTime)
  BY DEF SpacedInv, ChainInv, HandlerFinds, Inv, SoundNow, Sound
<1>2. /\ InFront(eventMap, gameTime, current) /\ IsPeriodic(current) /\ gameTime \in Nat
  BY <1>1, CurrentIsInFront DEF Hooks, HookType, IsPeriodic
<1>3. IsDueAt(eventMap, current, gameTime)
  BY <1>1, <1>2, FrontIsDue
<1>4. TallyOf(current).last + heap[current].period <= gameTime
  BY <1>1, <1>2, <1>3 DEF SpacedInv, TicksWait
<1>5. TallyOf(current).last \in Nat /\ heap[current].period \in Nat
  BY <1>1, <1>2, PeriodicType DEF SpacedInv, TallyOK, TallyOf, Tally
<1> QED
  BY <1>2, <1>4, <1>5

\* Two ticks of one aura, or its application and its first tick, are a period
\* apart, whatever the haste, the refreshes and the scripts in between: the next
\* tick is queued only by the one before it (EventSystem.cpp, ProcessEvent of
\* CAuraEvent, PERIODIC).
THEOREM TicksKeepTheirPeriod == HSpec => []TicksAreSpaced
<1>1. HSpec => []SpacedInv
  BY SpacedInit, SpacedStep, PTL DEF HSpec
<1> QED
  BY <1>1, SpacedGivesTicksAreSpaced, PTL

-----------------------------------------------------------------------------
(* Auras fade in time.                                                        *)

\* The times to fade that applications of the aura a carry.
Fades(a) == {SpellData[s].fade : s \in {s \in Spells : SpellData[s].aura = a}}
            \cup {call.fade : call \in {call \in ApplyCalls : call.aura = a}}

\* The applications that are queued carry the times of a spell or of a call.
AppliedOK == \A x : IsApplication(x) => heap[x].fade \in Fades(heap[x].aura)

\* Every application gives the aura a time to fade.
Timed(a) ==
  \A d \in Fades(a) :
    IF AuraData[a].hasteEnabled THEN d >= AuraData[a].period ELSE d # 0

\* No application does, and no spell forces it to fade.
Eternal(a) ==
  /\ \A s \in Spells : SpellData[s].aura # a
  /\ \A d \in Fades(a) : /\ d = 0
                         /\ AuraData[a].hasteEnabled => HastedTimes(d) \subseteq {0}

\* An aura has a time to fade always or never, and one that haste does not
\* change is applied for the same time always.
FadesAreRegular ==
  \A a \in Auras :
    /\ Timed(a) \/ Eternal(a)
    /\ ~AuraData[a].hasteEnabled => \A d, e \in Fades(a) : d = e

\* No application made now gives the aura a time to fade before t.
NotLate(a, t) == \A d \in Fades(a) : t <= d + gameTime + 1

RemovalOf(x, c, a) ==
  /\ x \in DOMAIN heap /\ heap[x].type = "remove"
  /\ heap[x].target = c /\ heap[x].aura = a
  /\ heap[x].guid = auraMap[c][a].guid

\* The aura has a removal; if haste does not change its times, the removal comes
\* at its time to fade at the latest, also when that is set anew.
RemovalComes(c, a) ==
  \E x, t :
    /\ RemovalOf(x, c, a) /\ IsDueAt(eventMap, x, t)
    /\ ~AuraData[a].hasteEnabled =>
         NotLate(a, t) /\ (auraMap[c][a].fadeTime # 1 => t <= auraMap[c][a].fadeTime)

InTime(c, a) ==
  \/ Eternal(a) /\ auraMap[c][a].fadeTime = 0
  \/ /\ Timed(a)
     /\ RemovalComes(c, a)
     /\ ~AuraData[a].hasteEnabled =>
          auraMap[c][a].fadeTime # 0 /\ NotLate(a, auraMap[c][a].fadeTime)

FadeOK == \A c \in Creatures : \A a \in DOMAIN auraMap[c] : InTime(c, a)

FadeInv == Inv /\ AppliedOK /\ FadeOK

\* A step leaves the removals that find their aura as and where they are.
RemovalsStay ==
  \A x \in DOMAIN heap : heap[x].type = "remove" /\ FindsItsAura(x) => Stays(x)

LEMMA FadesType ==
  ASSUME NEW a, NEW d \in Fades(a)
  PROVE  d \in Nat
<1>1. CASE \E s \in Spells : d = SpellData[s].fade
  BY <1>1, SpellAssumption
<1>2. CASE \E call \in ApplyCalls : d = call.fade
  BY <1>2, ScriptAssumption DEF ApplyEvents
<1> QED
  BY <1>1, <1>2 DEF Fades

LEMMA LaterSum ==
  ASSUME NEW t \in Nat, NEW d \in Nat, NEW g \in Nat, NEW h \in Nat,
         g <= h, t <= d + g + 1
  PROVE  t <= d + h + 1
OBVIOUS

LEMMA StillNotLate ==
  ASSUME NEW a, NEW t \in Nat, NotLate(a, t),
         gameTime \in Nat, gameTime' \in Nat, gameTime <= gameTime'
  PROVE  NotLate(a, t)'
<1>1. ASSUME NEW d \in Fades(a)
      PROVE  t <= d + gameTime' + 1
  <2>1. d \in Nat /\ t <= d + gameTime + 1
    BY FadesType DEF NotLate
  <2> QED
    BY <2>1, LaterSum
<1> QED
  BY <1>1 DEF NotLate

\* An aura that stays, with the time to fade that it had or one that the data
\* allow, and whose removals stay, is still in time.
LEMMA StillInTime ==
  ASSUME Inv, FadesAreRegular,
         gameTime \in Nat, gameTime' \in Nat, gameTime <= gameTime',
         NEW c \in Creatures, NEW a \in DOMAIN auraMap[c], InTime(c, a), a \in Auras,
         auraMap'[c][a].guid = auraMap[c][a].guid,
         NEW f \in Nat, f = auraMap'[c][a].fadeTime,
         \/ f = auraMap[c][a].fadeTime
         \/ f = 0 /\ Eternal(a)
         \/ /\ ~Eternal(a)
            /\ \/ AuraData[a].hasteEnabled
               \/ f = 1
               \/ \E d \in Fades(a) : f = d + gameTime' + 1,
         \A x : RemovalOf(x, c, a) => Stays(x)
  PROVE  InTime(c, a)'
<1>1. CASE Eternal(a) /\ f = 0
  BY <1>1 DEF InTime, Eternal
<1>2. CASE ~(Eternal(a) /\ f = 0)
  <2>1. /\ Timed(a) /\ RemovalComes(c, a)
        /\ ~AuraData[a].hasteEnabled =>
             auraMap[c][a].fadeTime # 0 /\ NotLate(a, auraMap[c][a].fadeTime)
    BY <1>2 DEF InTime
  <2>2. PICK x, t :
          /\ RemovalOf(x, c, a) /\ IsDueAt(eventMap, x, t)
          /\ ~AuraData[a].hasteEnabled =>
               NotLate(a, t) /\ (auraMap[c][a].fadeTime # 1 => t <= auraMap[c][a].fadeTime)
    BY <2>1 DEF RemovalComes
  <2>3. Stays(x) /\ t \in Nat
    BY <2>2, DueTimes DEF Inv, SoundNow, Sound
  <2>4. RemovalOf(x, c, a)' /\ IsDueAt(eventMap', x, t)
    BY <2>2, <2>3 DEF RemovalOf, Stays
  <2>5. ASSUME ~AuraData[a].hasteEnabled
        PROVE  /\ NotLate(a, t)' /\ (f # 1 => t <= f)
               /\ f # 0 /\ NotLate(a, f)'
    <3>1. NotLate(a, t)'
      BY <2>2, <2>3, <2>5, StillNotLate
    <3>2. CASE f = auraMap[c][a].fadeTime
      <4>1. NotLate(a, f) /\ f # 0 /\ (f # 1 => t <= f)
        BY <2>1, <2>2, <2>5, <3>2
      <4>2. NotLate(a, f)'
        BY <4>1, StillNotLate
      <4> QED
        BY <3>1, <4>1, <4>2
    <3>3. CASE f = 1
      <4>1. \A d \in Fades(a) : f <= d + gameTime' + 1
        BY <3>3, FadesType
      <4>2. NotLate(a, f)'
        BY <4>1 DEF NotLate
      <4> QED
        BY <3>1, <3>3, <4>2
    <3>4. ASSUME NEW d \in Fades(a), f = d + gameTime' + 1
          PROVE  (t <= f) /\ f # 0 /\ NotLate(a, f)'
      <4>1. \A e \in Fades(a) : e = d
        BY <2>5 DEF FadesAreRegular
      <4>2. d \in Nat
        BY FadesType
      <4>3. f <= f
        BY <3>4
      <4>4. NotLate(a, f)'
        BY <3>4, <4>1, <4>3 DEF NotLate
      <4>5. t <= f
        BY <3>1, <3>4 DEF NotLate
      <4>6. f # 0
        BY <3>4, <4>2
      <4> QED
        BY <4>4, <4>5, <4>6
    <3> QED
      BY <1>2, <2>5, <3>1, <3>2, <3>3, <3>4
  <2>6. RemovalComes(c, a)'
    BY <2>4, <2>5 DEF RemovalComes
  <2> QED
    BY <2>1, <2>5, <2>6 DEF InTime, Timed
<1> QED
  BY <1>1, <1>2

LEMMA AuraType ==
  ASSUME Inv, NEW c \in Creatures, NEW a \in DOMAIN auraMap[c]
  PROVE  /\ a \in Auras /\ auraMap[c][a].guid \in Nat
         /\ auraMap[c][a].fadeTime \in Nat /\ DOMAIN auraMap = Creatures
<1>1. a \in Auras /\ auraMap[c][a] \in AuraObjects /\ DOMAIN auraMap = Creatures
  BY DEF Inv, OthersOK, AurasOK, IsFunctionOn
<1> QED
  BY <1>1 DEF AuraObjects

LEMMA RemovalOfFinds ==
  ASSUME RemovalsStay, NEW c, NEW a \in DOMAIN auraMap[c], NEW x, RemovalOf(x, c, a)
  PROVE  Stays(x)
BY DEF RemovalsStay, RemovalOf, FindsItsAura, HasAura, Instance

\* Only the handler of a removal moves or deletes a removal that finds its aura.
LEMMA RemovalsStayPut ==
  ASSUME Inv, Undisturbed, [Next]_vars
  PROVE  RemovalsStay \/ FinishFade \/ \E x \in DOMAIN heap : PostponeRemoval(x)
<1>1. AllStay => RemovalsStay
  BY DEF AllStay, RemovalsStay
<1>2. ASSUME NEW y, InFront(eventMap, gameTime, y),
             heap[y].type # "remove" \/ ~FindsItsAura(y)
      PROVE  RemovalsStay
  BY <1>2 DEF Undisturbed, Finishes, InFront, RemovalsStay
<1>3. CASE pc \in Hooks /\ pc # "AuraFade"
  <2>1. InFront(eventMap, gameTime, current) /\ heap[current].type # "remove"
    BY <1>3, CurrentIsInFront DEF Hooks, HookType
  <2> QED
    BY <1>2, <2>1
<1>4. ASSUME NEW x \in DOMAIN heap,
             \/ RejectCast(x) \/ AbandonCast(x) \/ MissCast(x) \/ SkipTick(x)
             \/ MissTick(x) \/ DropRemoval(x) \/ DropTick(x)
      PROVE  RemovalsStay
  <2>1. IsNext(x) /\ (heap[x].type # "remove" \/ ~FindsItsAura(x))
    BY <1>4 DEF RejectCast, AbandonCast, MissCast, SkipTick, MissTick, DropRemoval,
       DropTick
  <2> QED
    BY <1>2, <2>1, NextIsInFront
<1>5. ASSUME NEW x \in DOMAIN heap,
             \/ BeginCast(x) \/ BeginTick(x) \/ HitCast(x) \/ HitTick(x)
             \/ BeginApplication(x) \/ BeginFade(x) \/ BeginPeriodic(x)
      PROVE  RemovalsStay
  BY <1>1, <1>5, BeginKeepsInv, HitKeepsInv
<1>6. CASE \/ ScriptNext \/ Advance \/ UNCHANGED vars
           \/ BeginLoop \/ StartLoop \/ Stop \/ EndIdle \/ Terminated
  BY <1>1, <1>6, CastSpellByNameKeepsInv, UnitApplyAuraKeepsInv, OtherCallsKeepsInv,
     AdvanceKeepsInv, LoopKeepsInv, SoundStays DEF ScriptNext, vars
<1>7. CASE SpellNext
  BY ZenonT(60), <1>3, <1>4, <1>5, <1>7 DEF SpellNext, FinishPreCasting, MissChannel, StartCast,
     StartChannel, FinishPostCasting, FinishPreChannel, FinishPostChannel, Hooks
<1>8. CASE AuraNext
  BY Zenon, <1>3, <1>4, <1>5, <1>8 DEF AuraNext, RefreshAura, NewAura, FinishPeriodic, Hooks
<1> QED
  BY <1>6, <1>7, <1>8 DEF Next, Engine

\* The steps that change no aura.
LEMMA SameAurasFade ==
  ASSUME FadeInv, FadesAreRegular, [Next]_vars, RemovalsStay, UNCHANGED auraMap
  PROVE  FadeOK'
<1> SUFFICES ASSUME NEW c \in Creatures, NEW a \in DOMAIN auraMap[c]
             PROVE  InTime(c, a)'
  BY DEF FadeOK
<1>1. InTime(c, a) /\ Inv
  BY DEF FadeInv, FadeOK
<1>2. gameTime \in Nat /\ gameTime' \in Nat /\ gameTime <= gameTime'
  BY <1>1, ClockGoesOn
<1>3. a \in Auras /\ auraMap[c][a].fadeTime \in Nat
  BY <1>1, AuraType
<1>4. \A x : RemovalOf(x, c, a) => Stays(x)
  BY RemovalOfFinds
<1> QED
  BY <1>1, <1>2, <1>3, <1>4, StillInTime

\* A cast or a tick that forces the aura of its spell to fade.
LEMMA ForcedAurasFade ==
  ASSUME FadeInv, FadesAreRegular, RemovalsStay, gameTime' = gameTime,
         NEW x \in DOMAIN heap, HitCast(x) \/ HitTick(x)
  PROVE  FadeOK'
<1> DEFINE s == heap[x].spell
           a == SpellData[s].aura
<1>1. Inv /\ gameTime \in Nat /\ gameTime <= gameTime
  BY DEF FadeInv, Inv, ClockOK
<1>2. /\ QueueSpellAura(x) /\ heap[x].type \in {"castPost", "tickPost"}
      /\ heap[x] \in EventObjects
  BY <1>1 DEF HitCast, HitTick, Inv, SoundNow, Sound, GoodHeap, GoodObject
<1>3. s \in Spells
  BY <1>2, KindsOfObjects DEF IsTick, CastEvents, TickEvents
<1>4. CASE UNCHANGED auraMap
  <2>1. \A c \in Creatures : \A b \in DOMAIN auraMap[c] : InTime(c, b)'
    <3> TAKE c \in Creatures
    <3> TAKE b \in DOMAIN auraMap[c]
    <3>1. InTime(c, b)
      BY DEF FadeInv, FadeOK
    <3>2. b \in Auras /\ auraMap[c][b].fadeTime \in Nat
      BY <1>1, AuraType
    <3> QED
      BY <1>1, <1>4, <3>1, <3>2, RemovalOfFinds, StillInTime
  <2> QED
    BY <1>4, <2>1 DEF FadeOK
<1>5. CASE /\ a \in DOMAIN auraMap[Player]
           /\ auraMap' = [auraMap EXCEPT ![Player][a].fadeTime = 1]
  <2> DEFINE o == auraMap[Player][a]
             o1 == [o EXCEPT !.fadeTime = 1]
             f == [auraMap[Player] EXCEPT ![a] = o1]
  <2>1. Player \in Creatures /\ a \in Auras /\ DOMAIN auraMap = Creatures
    BY <1>1, <1>5, PlayerAssumption, AuraType
  <2>2. o \in AuraObjects
    BY <1>1, <1>5, <2>1 DEF Inv, OthersOK, AurasOK
  <2>3. o1.guid = o.guid /\ o1.fadeTime = 1
    BY <2>2 DEF AuraObjects
  <2>4. auraMap' = [auraMap EXCEPT ![Player] = f]
    BY <1>5
  <2> HIDE DEF o1
  <2>5. DOMAIN f = DOMAIN auraMap[Player] /\ f[a] = o1
        /\ \A b \in DOMAIN f : b # a => f[b] = auraMap[Player][b]
    BY <1>5
  <2> HIDE DEF f
  <2>6. ~Eternal(a)
    BY <1>3 DEF Eternal
  <2>7. ASSUME NEW c \in Creatures, NEW b \in DOMAIN auraMap'[c]
        PROVE  InTime(c, b)'
    <3>1. b \in DOMAIN auraMap[c]
      BY <2>1, <2>4, <2>5, <2>7
    <3>2. InTime(c, b)
      BY <3>1 DEF FadeInv, FadeOK
    <3>3. b \in Auras /\ auraMap[c][b].fadeTime \in Nat
      BY <1>1, <3>1, AuraType
    <3>4. \A y : RemovalOf(y, c, b) => Stays(y)
      BY <3>1, RemovalOfFinds
    <3>5. CASE c = Player /\ b = a
      <4>1. auraMap'[c][b] = o1 /\ auraMap[c][b] = o
        BY <2>1, <2>4, <2>5, <3>5
      <4>2. auraMap'[c][b].guid = auraMap[c][b].guid /\ 1 = auraMap'[c][b].fadeTime
        BY <2>3, <4>1
      <4>3. ~Eternal(b) /\ 1 \in Nat
        BY <2>6, <3>5
      <4> HIDE DEF a, s, o
      <4> QED
        BY <1>1, <3>1, <3>2, <3>3, <3>4, <4>2, <4>3, StillInTime
    <3>6. CASE ~(c = Player /\ b = a)
      <4>1. auraMap'[c][b] = auraMap[c][b]
        BY SMTT(40), <2>1, <2>4, <2>5, <3>1, <3>6
      <4> HIDE DEF a, s, o
      <4> QED
        BY <1>1, <3>1, <3>2, <3>3, <3>4, <4>1, StillInTime
    <3> QED
      BY <3>5, <3>6
  <2> QED
    BY <2>7 DEF FadeOK
<1>6. UNCHANGED auraMap \/ /\ a \in DOMAIN auraMap[Player]
                           /\ auraMap' = [auraMap EXCEPT ![Player][a].fadeTime = 1]
  <2>1. CASE a = Null
    BY <1>2, <2>1 DEF QueueSpellAura
  <2>2. CASE a # Null
    <3>1. PICK f \in ForcedRemovals(x) :
            IF f = << >> THEN UNCHANGED auraMap
              ELSE auraMap' = [auraMap EXCEPT ![Player][a].fadeTime = 1]
      BY <1>2, <2>2 DEF QueueSpellAura
    <3>2. f = << >> \/ a \in DOMAIN auraMap[Player]
      BY DEF ForcedRemovals, HasAura
    <3> QED
      BY SMTT(40), <3>1, <3>2
  <2> QED
    BY <2>1, <2>2
<1> QED
  BY <1>4, <1>5, <1>6

LEMMA RefreshedAuraFades ==
  ASSUME FadeInv, FadesAreRegular, RemovalsStay, gameTime' = gameTime, RefreshAura
  PROVE  FadeOK'
<1> DEFINE x == current
           c == heap[x].target
           a == heap[x].aura
           o == auraMap[c][a]
<1>1. Inv /\ gameTime \in Nat /\ gameTime <= gameTime
  BY DEF FadeInv, Inv, ClockOK
<1>2. /\ heap[x].fade \in Fades(a) /\ heap[x].fade \in Nat
      /\ c \in Creatures /\ a \in DOMAIN auraMap[c]
  BY <1>1, ApplicationFacts
     DEF RefreshAura, HasAura, ApplyEvents, FadeInv, AppliedOK, IsApplication
<1>3. PICK f \in RefreshedFades(x) :
        auraMap' = [auraMap EXCEPT ![c][a].ticks = @ + heap[x].stacks,
                                   ![c][a].fadeTime = f]
  BY Zenon DEF RefreshAura
<1>4. o \in AuraObjects /\ a \in Auras /\ DOMAIN auraMap = Creatures
  BY <1>1, <1>2 DEF Inv, OthersOK, AurasOK, IsFunctionOn
<1> DEFINE o1 == [o EXCEPT !.ticks = @ + heap[x].stacks, !.fadeTime = f]
           g == [auraMap[c] EXCEPT ![a] = o1]
<1>5. o1.guid = o.guid /\ o1.fadeTime = f
  BY SMTT(40), <1>4, TouchedAura
<1>6. auraMap' = [auraMap EXCEPT ![c] = g]
  BY ZenonT(60), <1>2, <1>3, <1>4
<1> HIDE DEF o1
<1>7. DOMAIN g = DOMAIN auraMap[c] /\ g[a] = o1
      /\ \A b \in DOMAIN g : b # a => g[b] = auraMap[c][b]
  BY <1>2
<1> HIDE DEF g
<1>8. /\ f \in Nat
      /\ \/ f = o.fadeTime
         \/ f = 0 /\ Eternal(a)
         \/ /\ ~Eternal(a)
            /\ AuraData[a].hasteEnabled \/ \E d \in Fades(a) : f = d + gameTime' + 1
  <2>1. CASE ~heap[x].setFade
    BY ZenonT(60), <1>3, <1>4, <2>1 DEF RefreshedFades, Instance, AuraObjects
  <2>2. CASE heap[x].setFade
    <3>1. PICK e \in IF AuraData[a].hasteEnabled
                       THEN HastedTimes(heap[x].fade) ELSE {heap[x].fade} :
            f = IF e = 0 THEN 0 ELSE e + gameTime + 1
      BY <1>3, <2>2 DEF RefreshedFades
    <3>2. e \in Nat
      BY <1>2, <3>1, FadeAssumption DEF Fades
    <3>3. f \in Nat
      BY <1>1, <3>1, <3>2
    <3>4. CASE Eternal(a)
      BY <1>2, <3>1, <3>4 DEF Eternal
    <3>5. CASE ~Eternal(a) /\ ~AuraData[a].hasteEnabled
      <4>1. Timed(a)
        BY <1>4, <3>5 DEF FadesAreRegular
      <4>2. e = heap[x].fade /\ e # 0
        BY <1>2, <3>1, <3>5, <4>1 DEF Timed
      <4>3. f = heap[x].fade + gameTime' + 1
        BY <3>1, <4>2
      <4> QED
        BY <1>2, <3>3, <3>5, <4>3
    <3> QED
      BY SMTT(40), <3>3, <3>4, <3>5
  <2> QED
    BY SMTT(40), <2>1, <2>2
<1>9. ASSUME NEW d \in Creatures, NEW b \in DOMAIN auraMap'[d]
      PROVE  InTime(d, b)'
  <2>1. b \in DOMAIN auraMap[d]
    BY <1>2, <1>4, <1>6, <1>7, <1>9
  <2>2. InTime(d, b)
    BY <2>1 DEF FadeInv, FadeOK
  <2>3. b \in Auras /\ auraMap[d][b].fadeTime \in Nat
    BY <1>1, <2>1, AuraType
  <2>4. \A y : RemovalOf(y, d, b) => Stays(y)
    BY <2>1, RemovalOfFinds
  <2>5. CASE d = c /\ b = a
    <3>1. auraMap'[d][b] = o1 /\ auraMap[d][b] = o
      BY <1>2, <1>4, <1>6, <1>7, <2>5
    <3>2. auraMap'[d][b].guid = auraMap[d][b].guid /\ f = auraMap'[d][b].fadeTime
      BY <1>5, <3>1
    <3>3. /\ f \in Nat
          /\ \/ f = auraMap[d][b].fadeTime
             \/ f = 0 /\ Eternal(b)
             \/ /\ ~Eternal(b)
                /\ AuraData[b].hasteEnabled \/ \E i \in Fades(b) : f = i + gameTime' + 1
      BY <1>8, <2>5, <3>1
    <3> HIDE DEF x, c, a, o
    <3> QED
      BY <1>1, <2>1, <2>2, <2>3, <2>4, <3>2, <3>3, StillInTime
  <2>6. CASE ~(d = c /\ b = a)
    <3>1. auraMap'[d][b] = auraMap[d][b]
      BY <1>2, <1>4, <1>6, <1>7, <2>1, <2>6
    <3> HIDE DEF x, c, a, o
    <3> QED
      BY <1>1, <2>1, <2>2, <2>3, <2>4, <3>1, StillInTime
  <2> QED
    BY <2>5, <2>6
<1> QED
  BY <1>9 DEF FadeOK

LEMMA RemainingAurasFade ==
  ASSUME FadeInv, FadesAreRegular, Undisturbed, gameTime' = gameTime, FinishFade
  PROVE  FadeOK'
<1> DEFINE x == current
           c == heap[x].target
           a == heap[x].aura
<1>1. Inv /\ gameTime \in Nat /\ gameTime <= gameTime
  BY DEF FadeInv, Inv, ClockOK
<1>2. /\ InFront(eventMap, gameTime, x) /\ heap[x] \in EventObjects
      /\ heap[x].type = "remove" /\ AurasOK(auraMap)
  BY <1>1, CurrentIsInFront DEF FinishFade, Hooks, HookType, GoodObject, Inv, OthersOK
<1>3. c \in Creatures /\ DOMAIN auraMap = Creatures
  BY <1>2, KindsOfObjects DEF RemoveEvents, AurasOK, IsFunctionOn
<1>4. auraMap' = [auraMap EXCEPT ![c] = [b \in DOMAIN auraMap[c] \ {a} |-> auraMap[c][b]]]
  BY DEF FinishFade
<1>5. ASSUME NEW d \in Creatures, NEW b \in DOMAIN auraMap'[d]
      PROVE  InTime(d, b)'
  <2>1. b \in DOMAIN auraMap[d] /\ auraMap'[d][b] = auraMap[d][b] /\ ~(d = c /\ b = a)
    BY <1>3, <1>4, <1>5
  <2>2. InTime(d, b)
    BY <2>1 DEF FadeInv, FadeOK
  <2>3. b \in Auras /\ auraMap[d][b].fadeTime \in Nat
    BY <1>1, <2>1, AuraType
  <2>4. \A y : RemovalOf(y, d, b) => Stays(y)
    BY <1>2, <2>1 DEF RemovalOf, Undisturbed, Finishes, InFront
  <2> HIDE DEF x, c, a
  <2> QED
    BY <1>1, <2>1, <2>2, <2>3, <2>4, StillInTime
<1> QED
  BY <1>5 DEF FadeOK

\* A removal that follows its aura comes when it fades.
LEMMA PostponedAurasFade ==
  ASSUME FadeInv, FadesAreRegular, Undisturbed, gameTime' = gameTime,
         NEW x \in DOMAIN heap, PostponeRemoval(x)
  PROVE  FadeOK'
<1>1. PICK u : u = Instance(x).fadeTime
  OBVIOUS
<1>2. Inv /\ gameTime \in Nat /\ gameTime <= gameTime
  BY DEF FadeInv, Inv, ClockOK
<1>3. /\ IsNext(x) /\ heap[x].type = "remove" /\ FindsItsAura(x)
      /\ UNCHANGED <<heap, auraMap>> /\ u > gameTime
      /\ Return(Enqueue(eventMap, u, x))
  BY <1>1 DEF PostponeRemoval, ReturnAndKeep, auras
<1>4. InFront(eventMap, gameTime, x) /\ heap[x] \in EventObjects
  BY <1>2, <1>3, NextIsInFront DEF GoodObject
<1>5. heap[x].target \in Creatures
  BY <1>3, <1>4, KindsOfObjects DEF RemoveEvents
<1>6. u \in Nat
  BY <1>1, <1>2, <1>3, <1>5, AuraType DEF FindsItsAura, HasAura, Instance
<1>7. IsDueAt(eventMap', x, u)
  <2>1. /\ GoodMap(eventMap, gameTime) /\ exitable \in BOOLEAN
    BY <1>2 DEF Inv, SoundNow, Sound, ClockOK
  <2> DEFINE m == Enqueue(eventMap, u, x)
  <2>2. DOMAIN m = DOMAIN eventMap \cup {u}
    BY DEF Enqueue
  <2>3. /\ DOMAIN m \subseteq Nat /\ gameTime \in DOMAIN m
        /\ \A t \in DOMAIN m : gameTime <= t
    BY <1>2, <1>3, <1>4, <1>6, <2>1, <2>2 DEF GoodMap, IsEventMap, InFront
  <2>4. eventMap' = PopFront(m, gameTime)
    BY <1>2, <1>3, <2>1, <2>3, ReturnPops
  <2>5. IsDueAt(PopFront(Enqueue(eventMap, u, x), gameTime), x, u)
    BY <1>2, <1>3, <1>4, <1>6, <2>1, MoveInMap
  <2> QED
    BY <2>4, <2>5
<1>8. ASSUME NEW y, y # x, y \in DOMAIN heap
      PROVE  Stays(y)
  BY <1>4, <1>8 DEF Undisturbed, Finishes, InFront
<1>9. ASSUME NEW c \in Creatures, NEW a \in DOMAIN auraMap[c]
      PROVE  InTime(c, a)'
  <2>1. InTime(c, a)
    BY DEF FadeInv, FadeOK
  <2>2. a \in Auras /\ auraMap[c][a].fadeTime \in Nat
    BY <1>2, AuraType
  <2>3. CASE ~RemovalOf(x, c, a)
    <3>1. \A y : RemovalOf(y, c, a) => Stays(y)
      BY <1>8, <2>3 DEF RemovalOf
    <3> QED
      BY <1>2, <1>3, <2>1, <2>2, <3>1, StillInTime
  <2>4. CASE RemovalOf(x, c, a)
    <3>1. u = auraMap[c][a].fadeTime
      BY <1>1, <2>4 DEF Instance, RemovalOf
    <3>2. u # 0
      BY <1>2, <1>3, <1>6
    <3>3. /\ Timed(a)
          /\ ~AuraData[a].hasteEnabled => NotLate(a, u)
      BY <2>1, <3>1, <3>2 DEF InTime
    <3>4. NotLate(a, u)' <=> NotLate(a, u)
      BY DEF NotLate
    <3>5. RemovalOf(x, c, a)'
      BY <1>3, <2>4 DEF RemovalOf
    <3>6. u <= u
      BY <1>6
    <3>7. RemovalComes(c, a)'
      BY <1>3, <1>7, <3>1, <3>3, <3>4, <3>5, <3>6 DEF RemovalComes
    <3> QED
      BY <1>3, <3>1, <3>2, <3>3, <3>4, <3>7 DEF InTime, Timed
  <2> QED
    BY <2>3, <2>4
<1> QED
  BY <1>3, <1>9 DEF FadeOK

LEMMA NewAuraFades ==
  ASSUME FadeInv, FadesAreRegular, Undisturbed, gameTime' = gameTime, NewAura
  PROVE  FadeOK'
<1>1. PICK x, c, a : x = current /\ c = heap[current].target /\ a = heap[current].aura
  OBVIOUS
<1>2. Inv /\ gameTime \in Nat /\ gameTime <= gameTime
  BY DEF FadeInv, Inv, ClockOK
<1>3. /\ InFront(eventMap, gameTime, x) /\ heap[x].type = "apply"
      /\ heap[x].fade \in Fades(a) /\ heap[x].fade \in Nat
      /\ c \in Creatures /\ a \in Auras /\ DOMAIN auraMap = Creatures
  <2>1. /\ heap[x].type = "apply" /\ x \in DOMAIN heap
        /\ InFront(eventMap, gameTime, x) /\ heap[x].fade \in Nat
        /\ c \in Creatures /\ a \in Auras
    BY <1>1, <1>2, ApplicationFacts DEF NewAura, ApplyEvents
  <2>2. heap[x].fade \in Fades(a)
    BY <1>1, <2>1 DEF FadeInv, AppliedOK, IsApplication
  <2> QED
    BY <1>2, <2>1, <2>2 DEF Inv, OthersOK, AurasOK, IsFunctionOn
<1>4. PICK p \in TickTimes(a) :
        /\ FirstFade(x, p) \in Nat /\ p \in Nat
        /\ MakesAura(x, FirstFade(x, p), p)
  BY <1>1, <1>2, NewAuraMakes
<1>5. PICK f, o : f = FirstFade(x, p) /\ o = NewInstance(x, f)
  OBVIOUS
<1>6. auraMap' = [auraMap EXCEPT ![c] =
        [b \in DOMAIN auraMap[c] \cup {a} |-> IF b = a THEN o ELSE auraMap[c][b]]]
  BY <1>1, <1>4, <1>5 DEF MakesAura
<1>7. o.guid = guidCounter + 1 /\ o.fadeTime = IF f = 0 THEN 0 ELSE f + gameTime + 1
  BY <1>5 DEF NewInstance
<1>8. /\ ~AuraData[a].hasteEnabled => f = heap[x].fade
      /\ f = 0 => Eternal(a)
      /\ f # 0 => Timed(a)
  <2>1. AuraData[a].period \in Nat \ {0} /\ p \in Nat \ {0}
    BY <1>3, AuraAssumption DEF TickTimes
  <2>2. CASE ~AuraData[a].hasteEnabled
    <3>1. f = heap[x].fade
      BY <1>1, <1>5, <2>2 DEF FirstFade
    <3> QED
      BY <1>3, <2>2, <3>1 DEF FadesAreRegular, Eternal, Timed
  <2>3. CASE AuraData[a].hasteEnabled /\ heap[x].fade = 0
    <3>1. f = 0
      BY <1>1, <1>5, <2>3 DEF FirstFade
    <3>2. ~Timed(a)
      BY <1>3, <2>1, <2>3 DEF Timed
    <3> QED
      BY <1>3, <2>3, <3>1, <3>2 DEF FadesAreRegular
  <2>4. CASE AuraData[a].hasteEnabled /\ heap[x].fade # 0
    <3>1. ~Eternal(a)
      BY <1>3, <2>4 DEF Eternal
    <3>2. Timed(a)
      BY <1>3, <3>1 DEF FadesAreRegular
    <3> DEFINE n == heap[x].fade \div AuraData[a].period
    <3>3. heap[x].fade >= AuraData[a].period
      BY <1>3, <2>4, <3>2 DEF Timed
    <3>4. n \in Nat /\ n # 0
      BY <1>3, <2>1, <3>3
    <3>5. f = p * n
      BY <1>1, <1>5, <2>4 DEF FirstFade
    <3> HIDE DEF n
    <3>6. f # 0
      BY <2>1, <3>4, <3>5
    <3> QED
      BY <2>4, <3>2, <3>6
  <2> QED
    BY <2>2, <2>3, <2>4
<1>9. f # 0 => \E y : /\ IsNew(y) /\ heap'[y] = FirstRemoval(x, f).event
                      /\ OnlyDueAt(y, f + gameTime + 1)
  <2> SUFFICES ASSUME f # 0
               PROVE  \E y : /\ IsNew(y) /\ heap'[y] = FirstRemoval(x, f).event
                             /\ OnlyDueAt(y, f + gameTime + 1)
    OBVIOUS
  <2>1. PICK y : IsNew(y) /\ heap'[y] = FirstRemoval(x, f).event
    BY <1>4, <1>5 DEF MakesAura
  <2>2. /\ FirstRemoval(x, f).event.type = "remove"
        /\ FirstRemoval(x, f).at = gameTime + f + 1
        /\ FirstTick(x, p).event.type = "periodic"
    BY DEF FirstRemoval, FirstTick
  <2>3. OnlyDueAt(y, FirstRemoval(x, f).at)
    BY <1>4, <1>5, <2>1, <2>2 DEF MakesAura
  <2>4. gameTime + f + 1 = f + gameTime + 1
    BY <1>2, <1>4, <1>5
  <2> QED
    BY <2>1, <2>2, <2>3, <2>4
<1>10. f \in Nat
  BY <1>4, <1>5
<1>11. InTime(c, a)'
  <2>1. auraMap'[c][a] = o
    BY <1>3, <1>6
  <2>2. CASE f = 0
    BY <1>7, <1>8, <2>1, <2>2 DEF InTime, Eternal
  <2>3. CASE f # 0
    <3>1. PICK t : t = f + gameTime + 1
      OBVIOUS
    <3>2. o.fadeTime = t /\ t \in Nat /\ t # 0 /\ t <= t
      BY <1>2, <1>7, <1>10, <2>3, <3>1
    <3>3. PICK y : /\ IsNew(y) /\ heap'[y] = FirstRemoval(x, f).event
                   /\ OnlyDueAt(y, t)
      BY <1>9, <2>3, <3>1
    <3>4. ~AuraData[a].hasteEnabled => NotLate(a, t)'
      <4> SUFFICES ASSUME ~AuraData[a].hasteEnabled, NEW d \in Fades(a)
                   PROVE  t <= d + gameTime + 1
        BY DEF NotLate
      <4>1. d = f
        BY <1>3, <1>8 DEF FadesAreRegular
      <4> QED
        BY <3>1, <3>2, <4>1
    <3>5. RemovalOf(y, c, a)'
      BY <1>1, <1>7, <2>1, <3>3 DEF RemovalOf, IsNew, FirstRemoval
    <3>6. IsDueAt(eventMap', y, t)
      BY <3>3 DEF OnlyDueAt
    <3>7. RemovalComes(c, a)'
      BY <2>1, <3>2, <3>4, <3>5, <3>6 DEF RemovalComes
    <3> QED
      BY <1>8, <2>1, <2>3, <3>4, <3>7, <3>2 DEF InTime, Timed
  <2> QED
    BY <2>2, <2>3
<1>12. ASSUME NEW d \in Creatures, NEW b \in DOMAIN auraMap'[d]
       PROVE  InTime(d, b)'
  <2>1. CASE d = c /\ b = a
    BY <1>11, <2>1
  <2>2. CASE ~(d = c /\ b = a)
    <3>1. b \in DOMAIN auraMap[d] /\ auraMap'[d][b] = auraMap[d][b]
      BY <1>3, <1>6, <1>12, <2>2
    <3>2. InTime(d, b)
      BY <3>1 DEF FadeInv, FadeOK
    <3>3. b \in Auras /\ auraMap[d][b].fadeTime \in Nat
      BY <1>2, <3>1, AuraType
    <3>4. \A y : RemovalOf(y, d, b) => Stays(y)
      BY Zenon, <1>3 DEF RemovalOf, Undisturbed, Finishes, InFront
    <3> QED
      BY <1>2, <3>1, <3>2, <3>3, <3>4, StillInTime
  <2> QED
    BY <2>1, <2>2
<1> QED
  BY <1>12 DEF FadeOK

\* The clock only moves when it is nobody's turn.
LEMMA SameTime ==
  ASSUME \/ RefreshAura \/ NewAura \/ FinishFade
         \/ \E x \in DOMAIN heap : HitCast(x) \/ HitTick(x) \/ PostponeRemoval(x)
  PROVE  gameTime' = gameTime
<1>1. CASE NewAura
  <2>1. PICK x, f, p : QueueAndReturn(x, FirstEvents(x, f, p))
    BY <1>1 DEF NewAura
  <2> DEFINE q == FirstEvents(x, f, p)
  <2>2. q = << >> \/ Len(q) = 1 \/ Len(q) = 2
    BY FirstEventsAre
  <2> HIDE DEF q
  <2> QED
    BY <2>1, <2>2 DEF QueueAndReturn, ReturnAndDelete, Return, q
<1> QED
  BY Zenon, <1>1 DEF RefreshAura, FinishFade, HitCast, HitTick, PostponeRemoval,
     ReturnAndDelete, ReturnAndKeep, Return

LEMMA AppliedStep ==
  ASSUME FadeInv, [Next]_vars
  PROVE  AppliedOK'
<1> SUFFICES ASSUME NEW y, IsApplication(y)'
             PROVE  heap'[y].fade \in Fades(heap'[y].aura)
  BY DEF AppliedOK
<1>1. CASE y \in DOMAIN heap /\ heap'[y] = heap[y]
  BY <1>1 DEF FadeInv, AppliedOK, IsApplication
<1>2. CASE \E x \in DOMAIN heap :
             /\ HitCast(x) \/ HitTick(x)
             /\ SpellData[heap[x].spell].aura # Null /\ heap'[y] = Application(x)
  <2>1. PICK x \in DOMAIN heap :
          /\ HitCast(x) \/ HitTick(x)
          /\ heap'[y] = Application(x)
    BY <1>2
  <2>2. heap[x] \in EventObjects /\ heap[x].type \in {"castPost", "tickPost"}
    BY <2>1 DEF HitCast, HitTick, FadeInv, Inv, SoundNow, Sound, GoodHeap, GoodObject
  <2>3. heap[x].spell \in Spells
    BY <2>2, KindsOfObjects DEF IsTick, CastEvents, TickEvents
  <2> QED
    BY <2>1, <2>3 DEF Application, Fades
<1>3. CASE \E call \in ApplyCalls : heap'[y] = call
  BY <1>3 DEF Fades
<1>4. Inv
  BY DEF FadeInv
<1> QED
  BY <1>1, <1>2, <1>3, <1>4, ApplicationsCome DEF ApplicationsStay, AllStay, Stays

LEMMA FadeStep ==
  ASSUME FadesAreRegular
  PROVE  FadeInv /\ [Next]_vars => FadeInv'
<1> SUFFICES ASSUME FadeInv, [Next]_vars PROVE FadeInv'
  OBVIOUS
<1>1. Inv' /\ Undisturbed /\ AppliedOK'
  BY NextKeepsInv, AppliedStep DEF FadeInv
<1>2. CASE FinishFade
  BY <1>1, <1>2, RemainingAurasFade, SameTime DEF FadeInv
<1>3. CASE \E x \in DOMAIN heap : PostponeRemoval(x)
  BY <1>1, <1>3, PostponedAurasFade, SameTime DEF FadeInv
<1>4. CASE NewAura
  BY <1>1, <1>4, NewAuraFades, SameTime DEF FadeInv
<1>5. CASE RemovalsStay /\ UNCHANGED auraMap
  BY <1>1, <1>5, SameAurasFade DEF FadeInv
<1>6. CASE RemovalsStay /\ RefreshAura
  BY <1>1, <1>6, RefreshedAuraFades, SameTime DEF FadeInv
<1>7. CASE RemovalsStay /\ \E x \in DOMAIN heap : HitCast(x) \/ HitTick(x)
  BY <1>1, <1>7, ForcedAurasFade, SameTime DEF FadeInv
<1> QED
  BY <1>1, <1>2, <1>3, <1>4, <1>5, <1>6, <1>7, RemovalsStayPut, AurasChangedBy
     DEF FadeInv

LEMMA FadeInit == Init => FadeInv
BY InvInit DEF Init, FadeInv, FadeOK, AppliedOK, IsApplication

LEMMA FadeGivesAurasFadeInTime == FadeInv => AurasFadeInTime
<1> SUFFICES ASSUME FadeInv PROVE AurasFadeInTime
  OBVIOUS
<1>1. ASSUME NEW c \in Creatures, NEW a \in DOMAIN auraMap[c], auraMap[c][a].fadeTime # 0
      PROVE  \E x, t :
               /\ RemovalOf(x, c, a) /\ IsDueAt(eventMap, x, t)
               /\ ~AuraData[a].hasteEnabled =>
                    (auraMap[c][a].fadeTime # 1 => t <= auraMap[c][a].fadeTime)
  BY <1>1 DEF FadeInv, FadeOK, InTime, RemovalComes
<1>2. TimedAuraHasRemoval
  BY <1>1 DEF TimedAuraHasRemoval, RemovalOf
<1>3. ASSUME NEW c \in Creatures, NEW a \in DOMAIN auraMap[c],
             auraMap[c][a].fadeTime \notin {0, 1}, ~AuraData[a].hasteEnabled
      PROVE  auraMap[c][a].fadeTime >= gameTime
  <2>1. PICK x, t : IsDueAt(eventMap, x, t) /\ t <= auraMap[c][a].fadeTime
    BY <1>1, <1>3
  <2>2. t \in Nat /\ gameTime <= t /\ gameTime \in Nat
    BY <2>1, DueTimes DEF FadeInv, Inv, SoundNow, Sound, ClockOK
  <2>3. auraMap[c][a].fadeTime \in Nat
    BY AuraType DEF FadeInv
  <2> QED
    BY <2>1, <2>2, <2>3
<1> QED
  BY <1>2, <1>3 DEF AurasFadeInTime, RemainingNotNegative

\* An aura that has a time to fade has a removal that carries its GUID, so that
\* it does not stay for good, and while it is there and haste or a spell have not
\* changed that time, it has time left, which UnitAuraApplied computes in uint32.
\* The rotation must apply an aura with a time to fade always or never, and, if
\* haste does not change its times, with the same one: else a refresh can give a
\* time to fade to an aura without a removal, or one before its removal comes.
THEOREM EveryAuraFades ==
  ASSUME FadesAreRegular
  PROVE  Spec => []AurasFadeInTime
<1>1. FadeInv /\ [Next]_vars => FadeInv'
  BY FadeStep
<1> QED
  BY <1>1, FadeInit, FadeGivesAurasFadeInTime, PTL DEF Spec

-----------------------------------------------------------------------------
(* All the ticks of an aura.                                                  *)

TickOf(y, c, a) ==
  /\ IsPeriodic(y) /\ heap[y].target = c /\ heap[y].aura = a
  /\ heap[y].guid = auraMap[c][a].guid

\* An aura with ticks that nothing has refreshed, that was applied for a time and
\* that no spell has forced to fade.
Regular(c, a) ==
  /\ AuraData[a].periodic /\ ~tally[c][a].refreshed
  /\ auraMap[c][a].fadeTime \notin {0, 1}

\* The removal is due when the aura fades, before a tick that is due then, too.
RemovalIsFirst(c, a) ==
  LET f == auraMap[c][a].fadeTime
  IN  \E x : /\ RemovalOf(x, c, a) /\ IsDueAt(eventMap, x, f)
             /\ \A y : TickOf(y, c, a) /\ IsDueAt(eventMap, y, f)
                         => Before(eventMap, f, x, y)

\* With d ticks done and the next at t, n ticks are done when the ticks at the
\* period p before f are.
OnSchedule(n, d, p, t, f) ==
  /\ f + d * p <= t + n * p
  /\ t + n * p < f + (d + 1) * p

CountsUp(c, a) ==
  LET o == tally[c][a]
  IN  /\ o.done <= o.due
      /\ (\A y : ~TickOf(y, c, a)) => o.done = o.due
      /\ \A y, t : TickOf(y, c, a) /\ IsDueAt(eventMap, y, t)
           => OnSchedule(o.due, o.done, heap[y].period, t, auraMap[c][a].fadeTime)

Complete(c, a) == Regular(c, a) => RemovalIsFirst(c, a) /\ CountsUp(c, a)

CompleteOK == \A c \in Creatures : \A a \in DOMAIN auraMap[c] : Complete(c, a)

\* The aura whose removal is in its Lua call is there, and it is time.
FadeFinds ==
  pc = "AuraFade" => FindsItsAura(current) /\ Instance(current).fadeTime <= gameTime

CompleteInv == ChainInv /\ TallyOK /\ FadeFinds /\ CompleteOK

LEMMA OneMore ==
  ASSUME NEW d \in Nat, NEW p \in Nat
  PROVE  d * p \in Nat /\ (d + 1) * p = d * p + p
OBVIOUS

LEMMA FewerTicks ==
  ASSUME NEW n \in Nat, NEW d \in Nat, NEW p \in Nat, d * p < n * p
  PROVE  d < n
OBVIOUS

\* The tick at t, before the aura fades, is one of the n; the next is after that
\* only if it was the last.
LEMMA ScheduleGoesOn ==
  ASSUME NEW n \in Nat, NEW d \in Nat, NEW p \in Nat, NEW t \in Nat, NEW f \in Nat,
         OnSchedule(n, d, p, t, f), t < f
  PROVE  /\ d + 1 <= n
         /\ OnSchedule(n, d + 1, p, t + p, f)
         /\ f < t + p => d + 1 = n
<1>1. PICK x \in Nat : x = d * p
  BY OneMore
<1>2. PICK z \in Nat : z = n * p
  BY OneMore
<1>3. (d + 1) * p = x + p
  BY <1>1, OneMore
<1>4. d + 1 \in Nat
  OBVIOUS
<1>5. (d + 1 + 1) * p = x + p + p
  BY <1>3, <1>4, OneMore
<1>6. f + x <= t + z /\ t + z < f + x + p
  BY <1>1, <1>2, <1>3 DEF OnSchedule
<1>7. d < n
  <2>1. d * p < n * p
    BY <1>1, <1>2, <1>6
  <2> QED
    BY <2>1, FewerTicks
<1>8. OnSchedule(n, d + 1, p, t + p, f)
  BY <1>2, <1>3, <1>5, <1>6 DEF OnSchedule
<1>9. ASSUME f < t + p
      PROVE  n < d + 1 + 1
  <2>1. n * p < (d + 1 + 1) * p
    BY <1>2, <1>5, <1>6, <1>9
  <2>2. d + 1 + 1 \in Nat
    OBVIOUS
  <2> QED
    BY <2>1, <2>2, FewerTicks
<1> QED
  BY <1>7, <1>8, <1>9

\* When the aura fades before its next tick there are no more of the n.
LEMMA ScheduleEnds ==
  ASSUME NEW n \in Nat, NEW d \in Nat, NEW p \in Nat, NEW t \in Nat, NEW f \in Nat,
         OnSchedule(n, d, p, t, f), f <= t
  PROVE  n <= d
<1>1. n * p < (d + 1) * p
  <2>1. n * p \in Nat /\ (d + 1) * p \in Nat
    BY OneMore
  <2> QED
    BY <2>1 DEF OnSchedule
<1>2. d + 1 \in Nat
  OBVIOUS
<1>3. n < d + 1
  BY <1>1, <1>2, FewerTicks
<1> QED
  BY <1>3

\* An aura that is made at s, for a time e into which the period fits n times.
LEMMA ScheduleBegins ==
  ASSUME NEW n \in Nat, NEW p \in Nat, NEW s \in Nat, NEW e \in Nat,
         n * p <= e, e < n * p + p
  PROVE  OnSchedule(n, 0, p, s + p, e + s + 1)
<1>1. PICK z \in Nat : z = n * p
  BY OneMore
<1>2. 0 * p = 0 /\ (0 + 1) * p = p
  OBVIOUS
<1> QED
  BY <1>1, <1>2 DEF OnSchedule

-----------------------------------------------------------------------------
(* Who ends a tick or a removal.                                              *)

LEMMA EndingTick ==
  ASSUME Inv, [Next]_vars, NEW y \in DOMAIN heap, heap[y].type = "periodic",
         FindsItsAura(y), Ends(y)
  PROVE  y = current /\ FinishPeriodic
<1>1. Engine
  <2>1. ~UNCHANGED vars /\ pc \in Hooks \cup {"batch"} /\ pc' \notin Hooks
    BY DEF Ends
  <2>2. ~Terminated
    BY <2>1 DEF Terminated, Hooks
  <2>3. ~ScriptNext
    BY <2>1, ScriptsStay DEF Scripts, Hooks
  <2> QED
    BY <2>1, <2>2, <2>3 DEF Next
<1>2. CASE pc \in Hooks
  <2>1. y = current
    BY <1>2, CurrentIsInFront, FrontIsOne DEF Ends
  <2>2. heap[current].type = HookType[pc]
    BY <1>2, CurrentIsInFront
  <2>3. pc = "PeriodicEvent"
    BY <1>2, <2>1, <2>2 DEF Hooks, HookType
  <2> QED
    BY <1>1, <1>2, <2>1, <2>3, EngineInHook
<1>3. CASE pc = "batch"
  <2>1. pc \notin Hooks /\ pc' \notin Hooks /\ pc # "loop" /\ pc # "idle" /\ pc # "start"
    BY <1>3 DEF Ends, Hooks
  <2>2. ~Advance
    <3>1. gameTime \in DOMAIN eventMap /\ gameTime \in Nat
      BY DEF Ends, InFront, Inv, ClockOK
    <3> QED
      BY <3>1 DEF Advance, HasDue
  <2>3. \A x : IsNext(x) => x = y
    BY NextIsInFront, FrontIsOne DEF Ends
  <2>4. ~SpellNext
    BY ZenonT(60), <2>1, <2>3 DEF SpellNext, RejectCast, BeginCast, AbandonCast, MissCast,
       HitCast, SkipTick, BeginTick, MissTick, HitTick, FinishPreCasting, MissChannel,
       FinishPostCasting, FinishPreChannel, FinishPostChannel, Hooks
  <2>5. AuraNext
    BY <1>1, <1>3, <2>2, <2>4 DEF Engine, BeginLoop, StartLoop, Stop, EndIdle
  <2>6. \A x \in DOMAIN heap : ~BeginApplication(x) /\ ~BeginFade(x) /\ ~BeginPeriodic(x)
    BY <2>1 DEF BeginApplication, BeginFade, BeginPeriodic, CallHook, Hooks
  <2>7. \A x \in DOMAIN heap : ~DropRemoval(x) /\ ~PostponeRemoval(x) /\ ~DropTick(x)
    BY <2>3 DEF DropRemoval, PostponeRemoval, DropTick
  <2>8. ~RefreshAura /\ ~NewAura /\ ~FinishFade /\ ~FinishPeriodic
    BY <1>3 DEF RefreshAura, NewAura, FinishFade, FinishPeriodic
  <2> QED
    BY ZenonT(60), <2>5, <2>6, <2>7, <2>8 DEF AuraNext
<1> QED
  BY <1>2, <1>3 DEF Ends

LEMMA EndingRemoval ==
  ASSUME Inv, [Next]_vars, NEW x \in DOMAIN heap, heap[x].type = "remove",
         FindsItsAura(x), IsDueAt(eventMap, x, Instance(x).fadeTime), Ends(x)
  PROVE  x = current /\ FinishFade
<1>1. GoodMap(eventMap, gameTime) /\ InFront(eventMap, gameTime, x) /\ gameTime \in Nat
  BY DEF Inv, SoundNow, Sound, Ends, ClockOK
<1>2. IsDueAt(eventMap, x, gameTime)
  BY <1>1, FrontIsDue
<1>3. Instance(x).fadeTime = gameTime
  BY <1>1, <1>2, DueOnce DEF GoodMap
<1>4. ~DropRemoval(x) /\ ~PostponeRemoval(x)
  BY <1>1, <1>3 DEF DropRemoval, PostponeRemoval
<1>5. x = current /\ (RefreshAura \/ NewAura \/ FinishFade)
  BY <1>4, EndingAuraEvent DEF AuraKinds
<1>6. ~RefreshAura /\ ~NewAura
  <2>1. RefreshAura \/ NewAura => heap[current].type = "apply"
    BY ZenonT(60), ApplicationFacts DEF RefreshAura, NewAura, ApplyEvents
  <2> QED
    BY <1>5, <2>1
<1> QED
  BY <1>5, <1>6

-----------------------------------------------------------------------------
(* What a step leaves of the ticks and the removal of an aura.                *)

\* The ticks of an aura that stays are ticks from before the step.
LEMMA NoTickComes ==
  ASSUME ChainInv, [Next]_vars, NEW c \in Creatures, NEW a \in DOMAIN auraMap[c],
         auraMap'[c][a].guid = auraMap[c][a].guid, NEW y, TickOf(y, c, a)'
  PROVE  TickOf(y, c, a) /\ heap'[y] = heap[y]
<1>1. Inv /\ GuidsOK /\ Undisturbed
  BY NextKeepsInv DEF ChainInv
<1>2. y \in DOMAIN heap /\ heap'[y] = heap[y]
  <2>1. CASE TicksStay
    BY <2>1 DEF TicksStay, Stays, TickOf
  <2>2. CASE FinishPeriodic
    <3>1. heap' = heap \/ heap' = Delete(heap, current)
      BY <2>2 DEF FinishPeriodic, ReturnAndKeep, ReturnAndDelete
    <3> QED
      BY <3>1 DEF TickOf, IsPeriodic, Delete
  <2>3. CASE NewAura
    <3> DEFINE x == current
    <3>1. PICK p : MakesAura(x, FirstFade(x, p), p)
      BY <1>1, <2>3, NewAuraMakes
    <3>2. InFront(eventMap, gameTime, x)
      BY <1>1, <2>3, ApplicationFacts DEF NewAura
    <3>3. auraMap[c][a].guid \in Nat /\ auraMap[c][a].guid <= guidCounter
          /\ guidCounter \in Nat
      BY <1>1, AuraType DEF GuidsOK, Inv, OthersOK
    <3>4. ~IsNew(y)
      <4>1. FirstRemoval(x, FirstFade(x, p)).event.type = "remove"
            /\ FirstTick(x, p).event.guid = guidCounter + 1
        BY DEF FirstRemoval, FirstTick
      <4>2. IsNew(y) => heap'[y].guid = guidCounter + 1
        BY <3>1, <4>1 DEF MakesAura, TickOf, IsPeriodic
      <4>3. heap'[y].guid = auraMap[c][a].guid
        BY DEF TickOf
      <4> QED
        BY <3>3, <4>2, <4>3
    <3>5. y \in DOMAIN heap /\ y # x
      BY <3>1, <3>4 DEF IsNew, MakesAura, TickOf, IsPeriodic
    <3>6. Stays(y)
      BY <1>1, <3>2, <3>5 DEF Undisturbed, Finishes, InFront
    <3> QED
      BY <3>5, <3>6 DEF Stays
  <2> QED
    BY <1>1, <2>1, <2>2, <2>3, QuietSteps
<1> QED
  BY <1>2 DEF TickOf, IsPeriodic

\* A tick of an aura that is there finds it.
LEMMA TickFinds ==
  ASSUME NEW c, NEW a \in DOMAIN auraMap[c], NEW y, TickOf(y, c, a)
  PROVE  y \in DOMAIN heap /\ heap[y].type = "periodic" /\ FindsItsAura(y)
BY DEF TickOf, IsPeriodic, FindsItsAura, HasAura, Instance

LEMMA RemovalFinds ==
  ASSUME NEW c, NEW a \in DOMAIN auraMap[c], NEW x, RemovalOf(x, c, a)
  PROVE  /\ x \in DOMAIN heap /\ heap[x].type = "remove" /\ FindsItsAura(x)
         /\ Instance(x) = auraMap[c][a]
BY DEF RemovalOf, FindsItsAura, HasAura, Instance

\* The removal in time of an aura that stays stays.
LEMMA RemovalDoesNotEnd ==
  ASSUME Inv, [Next]_vars, NEW c \in Creatures, NEW a \in DOMAIN auraMap[c],
         a \in DOMAIN auraMap'[c], NEW x, RemovalOf(x, c, a),
         IsDueAt(eventMap, x, auraMap[c][a].fadeTime)
  PROVE  ~Ends(x)
<1> SUFFICES ASSUME Ends(x) PROVE FALSE
  OBVIOUS
<1>1. /\ x \in DOMAIN heap /\ heap[x].type = "remove" /\ FindsItsAura(x)
      /\ Instance(x) = auraMap[c][a]
  BY RemovalFinds
<1>2. x = current /\ FinishFade
  BY <1>1, EndingRemoval
<1>3. DOMAIN auraMap'[c] = DOMAIN auraMap[c] \ {a}
  BY <1>2, FadedAuras DEF RemovalOf
<1> QED
  BY <1>3

\* The aura a of c and its count are the same, and it has not just ticked.
LEMMA StillComplete ==
  ASSUME ChainInv, [Next]_vars, NEW c \in Creatures, NEW a \in DOMAIN auraMap[c],
         a \in DOMAIN auraMap'[c], Complete(c, a),
         auraMap'[c][a] = auraMap[c][a], tally'[c][a] = tally[c][a],
         ~(FinishPeriodic /\ heap[current].target = c /\ heap[current].aura = a)
  PROVE  Complete(c, a)'
<1>1. Inv
  BY DEF ChainInv
<1> DEFINE f == auraMap[c][a].fadeTime
           o == tally[c][a]
<1> SUFFICES ASSUME Regular(c, a)'
             PROVE  RemovalIsFirst(c, a)' /\ CountsUp(c, a)'
  BY DEF Complete
<1>2. RemovalIsFirst(c, a) /\ CountsUp(c, a)
  BY DEF Complete, Regular
<1>3. ASSUME NEW y, TickOf(y, c, a)'
      PROVE  TickOf(y, c, a) /\ heap'[y] = heap[y]
  BY <1>3, NoTickComes
<1>4. ASSUME NEW y, TickOf(y, c, a)
      PROVE  Stays(y) /\ TickOf(y, c, a)'
  <2>1. ~Ends(y)
    BY <1>1, <1>4, TickFinds, EndingTick DEF TickOf
  <2>2. Stays(y)
    BY <1>1, <1>4, <2>1, TickFinds, NotEnding
  <2> QED
    BY <1>4, <2>2 DEF Stays, TickOf, IsPeriodic
<1>5. RemovalIsFirst(c, a)'
  <2>1. PICK x : /\ RemovalOf(x, c, a) /\ IsDueAt(eventMap, x, f)
                 /\ \A y : TickOf(y, c, a) /\ IsDueAt(eventMap, y, f)
                             => Before(eventMap, f, x, y)
    BY <1>2 DEF RemovalIsFirst
  <2>2. ~Ends(x)
    BY <1>1, <2>1, RemovalDoesNotEnd
  <2>3. Stays(x)
    BY <1>1, <2>1, <2>2, NotEnding DEF RemovalOf
  <2>4. RemovalOf(x, c, a)' /\ IsDueAt(eventMap', x, f)
    BY <2>1, <2>3 DEF Stays, RemovalOf
  <2>5. ASSUME NEW y, TickOf(y, c, a)', IsDueAt(eventMap', y, f)
        PROVE  Before(eventMap', f, x, y)
    <3>1. TickOf(y, c, a) /\ Stays(y)
      BY <1>3, <1>4, <2>5
    <3>2. Before(eventMap, f, x, y)
      BY <2>1, <2>5, <3>1 DEF Stays
    <3> QED
      BY <1>1, <2>2, <3>2, OrderStays
  <2> QED
    BY <2>4, <2>5 DEF RemovalIsFirst
<1>6. CountsUp(c, a)'
  <2>1. (\A y : ~TickOf(y, c, a)') => \A y : ~TickOf(y, c, a)
    BY <1>4
  <2>2. ASSUME NEW y, NEW t, TickOf(y, c, a)', IsDueAt(eventMap', y, t)
        PROVE  OnSchedule(o.due, o.done, heap'[y].period, t, f)
    <3>1. TickOf(y, c, a) /\ Stays(y) /\ heap'[y] = heap[y]
      BY <1>3, <1>4, <2>2
    <3>2. IsDueAt(eventMap, y, t)
      BY <2>2, <3>1 DEF Stays
    <3> QED
      BY <1>2, <3>1, <3>2 DEF CountsUp
  <2>3. /\ o.done <= o.due
        /\ (\A y : ~TickOf(y, c, a)) => o.done = o.due
    BY <1>2 DEF CountsUp
  <2> QED
    BY <2>1, <2>2, <2>3 DEF CountsUp, OnSchedule
<1> QED
  BY <1>5, <1>6

\* The tick of the aura a of c ends.
LEMMA TickedComplete ==
  ASSUME ChainInv, TallyOK, Undisturbed, [Next]_vars, FinishPeriodic,
         NEW c \in Creatures, NEW a \in DOMAIN auraMap[c],
         c = heap[current].target, a = heap[current].aura, Complete(c, a),
         tally'[c][a] = Ticked(tally[c][a])
  PROVE  Complete(c, a)'
<1>1. PICK x, o, f, p, g : /\ x = current /\ o = tally[c][a] /\ p = heap[current].period
                           /\ f = auraMap[c][a].fadeTime /\ g = gameTime
  OBVIOUS
<1>2. /\ Inv /\ GuidsOK /\ pc = "PeriodicEvent" /\ UNCHANGED auras
      /\ FindsItsAura(x) /\ Instance(x) = auraMap[c][a]
  BY <1>1 DEF ChainInv, HandlerFinds, FinishPeriodic, Instance
<1>3. /\ InFront(eventMap, g, x) /\ IsPeriodic(x) /\ g \in Nat /\ GoodMap(eventMap, g)
      /\ exitable \in BOOLEAN
  BY <1>1, <1>2, CurrentIsInFront
     DEF Hooks, HookType, IsPeriodic, Inv, SoundNow, Sound, ClockOK
<1>4. /\ TickOf(x, c, a) /\ a \in Auras /\ f \in Nat /\ p \in Nat /\ o \in Tally
      /\ IsDueAt(eventMap, x, g)
  <2>1. TickOf(x, c, a)
    BY <1>1, <1>2, <1>3 DEF TickOf, FindsItsAura
  <2>2. a \in Auras /\ f \in Nat
    BY <1>1, <1>2, AuraType
  <2>3. p \in Nat
    BY <1>1, <1>2, <1>3, PeriodicType
  <2>4. o \in Tally
    BY <1>1, <2>2 DEF TallyOK
  <2> QED
    BY <1>3, <2>1, <2>2, <2>3, <2>4, FrontIsDue
<1>5. /\ tally'[c][a].done = o.done + 1 /\ tally'[c][a].due = o.due
      /\ tally'[c][a].refreshed = o.refreshed
  BY <1>1, <1>4 DEF Ticked, Tally
<1>6. auraMap' = auraMap
  BY <1>2 DEF auras
<1> SUFFICES ASSUME Regular(c, a)'
             PROVE  RemovalIsFirst(c, a)' /\ CountsUp(c, a)'
  BY DEF Complete
<1>7. RemovalIsFirst(c, a) /\ CountsUp(c, a)
  BY SMTT(40), <1>1, <1>5, <1>6 DEF Complete, Regular
<1>8. PICK z : /\ RemovalOf(z, c, a) /\ IsDueAt(eventMap, z, f)
               /\ \A y : TickOf(y, c, a) /\ IsDueAt(eventMap, y, f)
                           => Before(eventMap, f, z, y)
  BY <1>1, <1>7 DEF RemovalIsFirst
<1>9. g < f /\ f # g
  <2>1. g <= f
    BY <1>3, <1>8, DueTimes
  <2>2. g # f
    BY <1>3, <1>4, <1>8, NothingBeforeFront
  <2> QED
    BY <1>3, <1>4, <2>1, <2>2
<1>10. RemovalOf(z, c, a)' /\ IsDueAt(eventMap', z, f) /\ z \in DOMAIN heap
  <2>1. z # x /\ z \in DOMAIN heap
    BY <1>4, <1>8 DEF RemovalOf, TickOf, IsPeriodic
  <2>2. Stays(z)
    BY <1>1, <1>3, <2>1 DEF Undisturbed, Finishes, InFront
  <2> QED
    BY <1>6, <1>8, <2>1, <2>2 DEF Stays, RemovalOf
<1>11. \A y : TickOf(y, c, a)' => y = x /\ heap'[y] = heap[y]
  <2> SUFFICES ASSUME NEW y, TickOf(y, c, a)' PROVE y = x /\ heap'[y] = heap[y]
    OBVIOUS
  <2>1. TickOf(y, c, a) /\ heap'[y] = heap[y]
    BY <1>6, NoTickComes
  <2>2. y = x
    BY SMTT(40), <1>2, <1>4, <2>1 DEF GuidsOK, TickOf
  <2> QED
    BY <2>1, <2>2
<1>12. /\ OnSchedule(o.due, o.done, p, g, f)
       /\ o.due \in Nat /\ o.done \in Nat
  BY <1>1, <1>4, <1>7 DEF CountsUp, Tally
<1>13. /\ o.done + 1 <= o.due
       /\ OnSchedule(o.due, o.done + 1, p, g + p, f)
       /\ f < g + p => o.done + 1 = o.due
  BY <1>3, <1>4, <1>9, <1>12, ScheduleGoesOn
<1>14. CASE g + p <= f
  <2> DEFINE u == g + p
             m == Enqueue(eventMap, u, x)
  <2>1. heap' = heap /\ Return(m)
    BY <1>1, <1>2, <1>14 DEF FinishPeriodic, ReturnAndKeep
  <2>2. u \in Nat /\ g <= u
    BY <1>3, <1>4
  <2>3. DOMAIN m = DOMAIN eventMap \cup {u}
    BY DEF Enqueue
  <2>4. DOMAIN m \subseteq Nat /\ g \in DOMAIN m /\ \A v \in DOMAIN m : g <= v
    BY <1>3, <2>2, <2>3 DEF GoodMap, IsEventMap, InFront
  <2> HIDE DEF u
  <2>5. eventMap' = PopFront(m, g)
    <3> HIDE DEF m
    <3> QED
      BY <1>1, <1>3, <2>1, <2>4, ReturnPops
  <2>6. \A t : IsDueAt(eventMap', x, t) <=> t = u
    BY <1>3, <2>2, <2>5, MoveInMap
  <2>7. TickOf(x, c, a)'
    BY <1>4, <1>6, <2>1 DEF TickOf, IsPeriodic
  <2>8. u = f => Before(eventMap', f, z, x)
    <3> SUFFICES ASSUME u = f PROVE Before(eventMap', f, z, x)
      OBVIOUS
    <3>1. x \in Addr /\ IsEventMap(eventMap, Addr)
      BY <1>3, FrontIsDue DEF GoodMap
    <3>2. Before(m, f, z, x)
      BY <1>8, <3>1, AddedIsLast
    <3>3. m[f] \in Seq(Addr)
      <4>1. f \in DOMAIN eventMap /\ eventMap[f] \in Seq(Addr)
        BY <1>8, <3>1 DEF IsDueAt, IsEventMap
      <4>2. m[f] = Append(eventMap[f], x)
        BY SMTT(40), <4>1 DEF Enqueue, ListAt
      <4> QED
        BY <3>1, <4>1, <4>2
    <3> HIDE DEF m
    <3> QED
      BY <1>9, <2>5, <3>2, <3>3, PopKeepsOrder
  <2> HIDE DEF m
  <2>9. RemovalIsFirst(c, a)'
    <3>1. \A y : TickOf(y, c, a)' /\ IsDueAt(eventMap', y, f)
                   => Before(eventMap', f, z, y)
      BY SMTT(40), <1>11, <2>6, <2>8
    <3> QED
      BY <1>1, <1>6, <1>10, <3>1 DEF RemovalIsFirst
  <2>10. \A y, t : TickOf(y, c, a)' /\ IsDueAt(eventMap', y, t)
           => OnSchedule(o.due, o.done + 1, heap'[y].period, t, f)
    BY SMTT(40), <1>1, <1>11, <1>13, <2>6 DEF u
  <2>11. CountsUp(c, a)'
    <3>1. \A y, t : TickOf(y, c, a)' /\ IsDueAt(eventMap', y, t)
            => OnSchedule(tally'[c][a].due, tally'[c][a].done, heap'[y].period, t,
                          auraMap'[c][a].fadeTime)
      BY <1>1, <1>5, <1>6, <2>10
    <3>2. tally'[c][a].done <= tally'[c][a].due
      BY <1>5, <1>13
    <3> QED
      BY ZenonT(60), <2>7, <3>1, <3>2 DEF CountsUp
  <2> QED
    BY <2>9, <2>11
<1>15. CASE ~(g + p <= f)
  <2>1. heap' = Delete(heap, x)
    BY <1>1, <1>2, <1>15 DEF FinishPeriodic, ReturnAndDelete
  <2>2. \A y : ~TickOf(y, c, a)'
    <3>1. x \notin DOMAIN heap'
      BY SMTT(40), <2>1 DEF Delete
    <3> QED
      BY Zenon, <1>11, <3>1 DEF TickOf, IsPeriodic
  <2>3. RemovalIsFirst(c, a)'
    BY <1>1, <1>6, <1>10, <2>2 DEF RemovalIsFirst
  <2>4. o.done + 1 = o.due
    BY <1>3, <1>4, <1>13, <1>15
  <2>5. CountsUp(c, a)'
    BY <1>5, <1>12, <2>2, <2>4 DEF CountsUp
  <2> QED
    BY <2>3, <2>5
<1> QED
  BY <1>14, <1>15

\* The period of a new aura fits into its life as often as into the time it was
\* applied for.
LEMMA HastedLife ==
  ASSUME NEW x, heap[x] \in ApplyEvents, NEW p \in TickTimes(heap[x].aura),
         FirstFade(x, p) # 0
  PROVE  LET n == heap[x].fade \div AuraData[heap[x].aura].period
         IN  /\ n \in Nat /\ p \in Nat \ {0}
             /\ n * p <= FirstFade(x, p) /\ FirstFade(x, p) < n * p + p
<1> DEFINE a == heap[x].aura
           e == heap[x].fade
           b == AuraData[a].period
           n == e \div b
<1>1. a \in Auras /\ e \in Nat /\ b \in Nat /\ b > 0
  BY AuraAssumption DEF ApplyEvents
<1>2. p \in Nat /\ p > 0
  BY <1>1, TickTimesType
<1>3. n \in Nat /\ b * n <= e /\ e < b * (n + 1)
  BY <1>1, DivisionFacts
<1>4. p * n = n * p /\ b * n = n * b /\ b * (n + 1) = n * b + b /\ n * p \in Nat
  <2> HIDE DEF n, b
  <2> QED
    BY <1>1, <1>2, <1>3
<1>5. CASE AuraData[a].hasteEnabled
  <2>1. FirstFade(x, p) = p * n
    BY <1>5 DEF FirstFade
  <2> HIDE DEF n
  <2> QED
    BY <1>2, <1>3, <1>4, <2>1 DEF n
<1>6. CASE ~AuraData[a].hasteEnabled
  <2>1. FirstFade(x, p) = e /\ p = b
    BY <1>6 DEF FirstFade, TickTimes
  <2> HIDE DEF n, b
  <2> QED
    BY <1>2, <1>3, <1>4, <2>1 DEF n, b
<1> QED
  BY <1>5, <1>6

\* The aura a of c is new.
LEMMA NewAuraComplete ==
  ASSUME ChainInv, Undisturbed, NewAura, NEW c \in Creatures, NEW a \in Auras,
         c = heap[current].target, a = heap[current].aura,
         tally'[c][a] = Applied(current)
  PROVE  Complete(c, a)'
<1>1. PICK x : x = current
  OBVIOUS
<1>2. /\ Inv /\ GuidsOK /\ gameTime \in Nat /\ guidCounter \in Nat
      /\ InFront(eventMap, gameTime, x) /\ heap[x] \in ApplyEvents
      /\ DOMAIN auraMap = Creatures
  BY <1>1, ApplicationFacts
     DEF ChainInv, NewAura, Inv, OthersOK, AurasOK, IsFunctionOn, ClockOK
<1>3. PICK p \in TickTimes(a) :
        FirstFade(x, p) \in Nat /\ p \in Nat /\ MakesAura(x, FirstFade(x, p), p)
  BY <1>1, <1>2, NewAuraMakes
<1>4. PICK e, r, k : /\ e = FirstFade(x, p) /\ e \in Nat
                     /\ r = FirstRemoval(x, e) /\ k = FirstTick(x, p)
  BY <1>3
<1>5. /\ auraMap' = [auraMap EXCEPT ![c] =
           [b \in DOMAIN auraMap[c] \cup {a} |->
              IF b = a THEN NewInstance(x, e) ELSE auraMap[c][b]]]
      /\ \A y : IsNew(y) =>
           \/ heap'[y] = r.event /\ OnlyDueAt(y, r.at)
           \/ heap'[y] = k.event /\ OnlyDueAt(y, k.at)
      /\ e # 0 => \E y : IsNew(y) /\ heap'[y] = r.event
      /\ AuraData[a].periodic => \E z : IsNew(z) /\ heap'[z] = k.event
      /\ r.at = k.at =>
           \A y, z : /\ IsNew(y) /\ heap'[y] = r.event
                     /\ IsNew(z) /\ heap'[z] = k.event
                     => Before(eventMap', r.at, y, z)
      /\ x \notin DOMAIN heap'
  BY <1>1, <1>3, <1>4 DEF MakesAura
<1>6. /\ r.at = gameTime + e + 1 /\ r.event.type = "remove"
      /\ r.event.target = c /\ r.event.aura = a /\ r.event.guid = guidCounter + 1
      /\ k.at = gameTime + p /\ k.event.type = "periodic"
      /\ k.event.target = c /\ k.event.aura = a /\ k.event.guid = guidCounter + 1
      /\ k.event.period = p
  BY <1>1, <1>4 DEF FirstRemoval, FirstTick
<1>7. /\ auraMap'[c][a].guid = guidCounter + 1
      /\ auraMap'[c][a].fadeTime = IF e = 0 THEN 0 ELSE e + gameTime + 1
  <2>1. auraMap'[c][a] = NewInstance(x, e)
    BY <1>2, <1>5
  <2> QED
    BY <2>1 DEF NewInstance
<1> SUFFICES ASSUME Regular(c, a)'
             PROVE  RemovalIsFirst(c, a)' /\ CountsUp(c, a)'
  BY DEF Complete
<1>8. /\ e # 0 /\ AuraData[a].periodic
      /\ auraMap'[c][a].fadeTime = r.at /\ r.at = e + gameTime + 1
  BY <1>2, <1>4, <1>6, <1>7 DEF Regular
<1>9. ASSUME NEW y, TickOf(y, c, a)'
      PROVE  IsNew(y) /\ heap'[y] = k.event /\ OnlyDueAt(y, k.at)
  <2>1. y \in DOMAIN heap' /\ heap'[y].type = "periodic" /\ heap'[y].guid = guidCounter + 1
    BY <1>7, <1>9 DEF TickOf, IsPeriodic
  <2>2. IsNew(y)
    <3> SUFFICES ASSUME y \in DOMAIN heap PROVE FALSE
      BY <2>1 DEF IsNew
    <3>1. y # x
      BY <1>5, <2>1
    <3>2. Stays(y)
      BY <1>2, <3>1 DEF Undisturbed, Finishes, InFront
    <3>3. IsPeriodic(y) /\ heap[y].guid = guidCounter + 1
      BY <2>1, <3>2 DEF Stays, IsPeriodic
    <3>4. heap[y].guid <= guidCounter
      BY <1>2, <3>3 DEF GuidsOK
    <3> QED
      BY <1>2, <3>3, <3>4
  <2> QED
    BY <1>5, <1>6, <2>1, <2>2
<1>10. RemovalIsFirst(c, a)'
  <2>1. PICK z : IsNew(z) /\ heap'[z] = r.event
    BY <1>5, <1>8
  <2>2. OnlyDueAt(z, r.at)
    BY <1>5, <1>6, <2>1
  <2>3. RemovalOf(z, c, a)' /\ IsDueAt(eventMap', z, r.at)
    BY <1>6, <1>7, <2>1, <2>2 DEF RemovalOf, IsNew, OnlyDueAt
  <2>4. ASSUME NEW y, TickOf(y, c, a)', IsDueAt(eventMap', y, r.at)
        PROVE  Before(eventMap', r.at, z, y)
    <3>1. IsNew(y) /\ heap'[y] = k.event /\ OnlyDueAt(y, k.at)
      BY <1>9, <2>4
    <3>2. r.at = k.at
      BY <2>4, <3>1 DEF OnlyDueAt
    <3> QED
      BY <1>5, <2>1, <3>1, <3>2
  <2> QED
    BY <1>8, <2>3, <2>4 DEF RemovalIsFirst
<1>11. CountsUp(c, a)'
  <2>1. PICK n : n = heap[x].fade \div AuraData[a].period
    OBVIOUS
  <2>2. tally'[c][a].done = 0 /\ tally'[c][a].due = n
    BY <1>1, <2>1 DEF Applied
  <2>3. /\ n \in Nat /\ n * p <= e /\ e < n * p + p
    BY <1>1, <1>2, <1>4, <1>8, <2>1, HastedLife
  <2>4. OnSchedule(n, 0, p, gameTime + p, e + gameTime + 1)
    BY <1>2, <1>3, <1>4, <2>3, ScheduleBegins
  <2>5. \E z : TickOf(z, c, a)'
    BY <1>5, <1>6, <1>7, <1>8 DEF TickOf, IsPeriodic, IsNew
  <2>6. \A y, t : TickOf(y, c, a)' /\ IsDueAt(eventMap', y, t)
          => heap'[y].period = p /\ t = gameTime + p
    BY <1>6, <1>9 DEF OnlyDueAt
  <2> QED
    BY <1>8, <2>2, <2>3, <2>4, <2>5, <2>6 DEF CountsUp, OnSchedule
<1> QED
  BY <1>10, <1>11

\* A spell that forces an aura to fade sets its time to 1.
LEMMA HitForces ==
  ASSUME Inv, NEW x \in DOMAIN heap, HitCast(x) \/ HitTick(x),
         NEW c \in Creatures, NEW a \in DOMAIN auraMap[c]
  PROVE  auraMap'[c][a] = auraMap[c][a] \/ auraMap'[c][a].fadeTime = 1
<1> DEFINE b == SpellData[heap[x].spell].aura
<1>1. QueueSpellAura(x)
  BY HitLeavesSpell
<1>2. CASE UNCHANGED auraMap
  BY <1>2
<1>3. CASE auraMap' = [auraMap EXCEPT ![Player][b].fadeTime = 1] /\ HasAura(Player, b)
  <2>1. DOMAIN auraMap = Creatures /\ Player \in Creatures /\ AurasOK(auraMap)
    BY PlayerAssumption DEF Inv, OthersOK, AurasOK, IsFunctionOn
  <2> DEFINE o == auraMap[Player][b]
             v == [o EXCEPT !.fadeTime = 1]
             f == [auraMap[Player] EXCEPT ![b] = v]
  <2>2. o \in AuraObjects
    BY <1>3, <2>1 DEF AurasOK, HasAura
  <2>3. v.fadeTime = 1
    BY <2>2 DEF AuraObjects
  <2>4. auraMap' = [auraMap EXCEPT ![Player] = f]
    BY <1>3
  <2> HIDE DEF v
  <2>5. \A d \in DOMAIN auraMap[Player] : f[d] = IF d = b THEN v ELSE auraMap[Player][d]
    OBVIOUS
  <2> HIDE DEF f, b
  <2>6. c # Player => auraMap'[c] = auraMap[c]
    BY <2>1, <2>4
  <2>7. c = Player => auraMap'[c] = f
    BY <2>1, <2>4
  <2> QED
    BY <2>3, <2>5, <2>6, <2>7
<1>4. CASE \E f \in ForcedRemovals(x) :
             f # << >> /\ auraMap' = [auraMap EXCEPT ![Player][b].fadeTime = 1]
  BY <1>3, <1>4 DEF ForcedRemovals
<1> QED
  BY <1>1, <1>2, <1>4 DEF QueueSpellAura

-----------------------------------------------------------------------------
(* An aura that fades has all its ticks.                                      *)

LEMMA FadeStillFinds ==
  ASSUME Inv, FadeFinds, [Next]_vars
  PROVE  FadeFinds'
<1> SUFFICES ASSUME pc' = "AuraFade"
             PROVE  (FindsItsAura(current) /\ Instance(current).fadeTime <= gameTime)'
  BY DEF FadeFinds
<1>1. CASE (ScriptNext \/ UNCHANGED vars) /\ UNCHANGED <<pc, current, auras>>
  <2>1. AllStay /\ gameTime' = gameTime
    BY <1>1, ScriptsStay, CastSpellByNameKeepsInv, UnitApplyAuraKeepsInv,
       OtherCallsKeepsInv, SoundStays DEF ScriptNext, vars
  <2>2. /\ current \in DOMAIN heap /\ FindsItsAura(current)
        /\ Instance(current).fadeTime <= gameTime
    BY <1>1, CurrentIsInFront DEF FadeFinds, Hooks
  <2>3. heap'[current] = heap[current]
    BY <2>1, <2>2 DEF AllStay, Stays
  <2> QED
    BY <1>1, <2>1, <2>2, <2>3 DEF FindsItsAura, HasAura, Instance, auras
<1>2. ASSUME NEW x \in DOMAIN heap,
             \/ BeginCast(x) \/ BeginTick(x) \/ HitCast(x) \/ HitTick(x)
             \/ BeginApplication(x) \/ BeginFade(x) \/ BeginPeriodic(x)
      PROVE  (FindsItsAura(current) /\ Instance(current).fadeTime <= gameTime)'
  <2>1. BeginFade(x)
    BY <1>2 DEF BeginCast, BeginTick, HitCast, HitTick, BeginApplication, BeginPeriodic,
       CallHook
  <2> QED
    BY <2>1 DEF BeginFade, CallHook, FindsItsAura, HasAura, Instance, auras, eventSystem
<1> QED
  BY <1>1, <1>2, InHook DEF Hooks

\* The aura a of c and its count are the same.
LEMMA OthersComplete ==
  ASSUME CompleteInv, [Next]_vars, NEW c \in Creatures, NEW a \in DOMAIN auraMap'[c],
         a \in DOMAIN auraMap[c], auraMap'[c][a] = auraMap[c][a],
         tally'[c][a] = tally[c][a],
         ~(FinishPeriodic /\ heap[current].target = c /\ heap[current].aura = a)
  PROVE  Complete(c, a)'
<1>1. ChainInv /\ Complete(c, a)
  BY DEF CompleteInv, CompleteOK
<1> QED
  BY <1>1, StillComplete

LEMMA StepsComplete ==
  ASSUME CompleteInv, [Next]_vars, Record
  PROVE  TallyOK' /\ CompleteOK'
<1> DEFINE d == heap[current].target
           b == heap[current].aura
<1>1. ChainInv /\ Inv /\ TallyOK /\ Undisturbed
  BY NextKeepsInv DEF CompleteInv, ChainInv
<1>2. /\ TallyOK'
      /\ \/ UNCHANGED tally /\ ~RefreshAura /\ ~NewAura /\ ~FinishPeriodic
         \/ /\ RefreshAura /\ ~NewAura /\ ~FinishPeriodic
            /\ SetsEntry([TallyOf(current) EXCEPT !.refreshed = TRUE])
         \/ /\ NewAura /\ ~RefreshAura /\ ~FinishPeriodic
            /\ SetsEntry(Applied(current))
         \/ /\ FinishPeriodic /\ ~RefreshAura /\ ~NewAura
            /\ SetsEntry(Ticked(TallyOf(current)))
  BY <1>1, RecordedTally
<1> SUFFICES ASSUME NEW c \in Creatures, NEW a \in DOMAIN auraMap'[c]
             PROVE  Complete(c, a)'
  BY <1>2 DEF CompleteOK
<1>3. a \in DOMAIN auraMap[c] => a \in Auras /\ Complete(c, a)
  BY <1>1, AuraType DEF CompleteInv, CompleteOK
<1>4. CASE UNCHANGED tally /\ ~RefreshAura /\ ~NewAura /\ ~FinishPeriodic
  <2>1. CASE UNCHANGED auraMap
    BY <1>4, <2>1, OthersComplete
  <2>2. ASSUME NEW x \in DOMAIN heap, HitCast(x) \/ HitTick(x)
        PROVE  Complete(c, a)'
    <3>1. a \in DOMAIN auraMap[c]
      BY <1>1, <2>2, HitLeavesSpell, HitKeepsAuras
    <3>2. CASE auraMap'[c][a] = auraMap[c][a]
      BY <1>4, <3>1, <3>2, OthersComplete
    <3>3. CASE auraMap'[c][a].fadeTime = 1
      BY <3>3 DEF Complete, Regular
    <3> QED
      BY <1>1, <2>2, <3>1, <3>2, <3>3, HitForces
  <2>3. CASE FinishFade
    <3>1. a \in DOMAIN auraMap[c] /\ auraMap'[c][a] = auraMap[c][a]
      BY <1>1, <2>3, FadedAuras
    <3> QED
      BY <1>4, <3>1, OthersComplete
  <2> QED
    BY <1>4, <2>1, <2>2, <2>3, AurasChangedBy
<1>5. CASE /\ RefreshAura /\ ~FinishPeriodic
           /\ SetsEntry([TallyOf(current) EXCEPT !.refreshed = TRUE])
  <2>1. /\ a \in DOMAIN auraMap[c]
        /\ ~(c = d /\ a = b) => auraMap'[c][a] = auraMap[c][a]
    BY <1>1, <1>5, RefreshedAuras
  <2>2. CASE c = d /\ a = b
    <3>1. TallyOf(current) \in Tally
      BY <1>1, <1>5 DEF TallyOf, TallyOK, SetsEntry
    <3>2. tally'[c][a].refreshed
      BY <1>5, <2>2, <3>1 DEF SetsEntry, Tally
    <3> QED
      BY <3>2 DEF Complete, Regular
  <2>3. CASE ~(c = d /\ a = b)
    <3>1. tally'[c][a] = tally[c][a]
      BY <1>3, <1>5, <2>1, <2>3 DEF SetsEntry
    <3> QED
      BY <1>5, <2>1, <2>3, <3>1, OthersComplete
  <2> QED
    BY <2>2, <2>3
<1>6. CASE NewAura /\ ~FinishPeriodic /\ SetsEntry(Applied(current))
  <2>1. CASE c = d /\ a = b
    BY <1>1, <1>6, <2>1, NewAuraComplete DEF SetsEntry
  <2>2. CASE ~(c = d /\ a = b)
    <3>1. a \in DOMAIN auraMap[c] /\ auraMap'[c][a] = auraMap[c][a]
      BY <1>1, <1>6, <2>2, NewAuras
    <3>2. tally'[c][a] = tally[c][a]
      BY <1>3, <1>6, <2>2, <3>1 DEF SetsEntry
    <3> QED
      BY <1>6, <3>1, <3>2, OthersComplete
  <2> QED
    BY <2>1, <2>2
<1>7. CASE FinishPeriodic /\ SetsEntry(Ticked(TallyOf(current)))
  <2>1. auraMap' = auraMap
    BY <1>7 DEF FinishPeriodic, auras
  <2>2. CASE c = d /\ a = b
    <3>1. tally'[c][a] = Ticked(tally[c][a])
      BY <1>7, <2>2 DEF SetsEntry, TallyOf
    <3> QED
      BY <1>1, <1>3, <1>7, <2>1, <2>2, <3>1, TickedComplete
  <2>3. CASE ~(c = d /\ a = b)
    <3>1. tally'[c][a] = tally[c][a]
      BY <1>3, <1>7, <2>1, <2>3 DEF SetsEntry
    <3> QED
      BY <2>1, <2>3, <3>1, OthersComplete
  <2> QED
    BY <2>2, <2>3
<1> QED
  BY <1>2, <1>4, <1>5, <1>6, <1>7

LEMMA CompleteStep == CompleteInv /\ [HNext]_<<vars, tally>> => CompleteInv'
<1> SUFFICES ASSUME CompleteInv, [HNext]_<<vars, tally>> PROVE CompleteInv'
  OBVIOUS
<1>1. ChainInv'
  BY ChainStep DEF CompleteInv, HNext, vars
<1>2. FadeFinds'
  BY FadeStillFinds DEF CompleteInv, ChainInv, HNext, vars
<1>3. CASE UNCHANGED <<vars, tally>>
  BY <1>1, <1>2, <1>3 DEF vars, CompleteInv, TallyOK, CompleteOK, Complete, Regular,
     RemovalIsFirst, RemovalOf, CountsUp, TickOf, IsPeriodic, Before, OnSchedule
<1>4. CASE HNext
  BY <1>1, <1>2, <1>4, StepsComplete DEF CompleteInv, HNext
<1> QED
  BY <1>3, <1>4

LEMMA CompleteInit == HInit => CompleteInv
BY ChainInit DEF HInit, Init, CompleteInv, TallyOK, Tally, NoTally, FadeFinds, CompleteOK

\* It fades at its time, when no tick is to come before it.
LEMMA CompleteGivesTicksAreComplete == CompleteInv => TicksAreComplete
<1> SUFFICES ASSUME CompleteInv, pc = "AuraFade", AuraData[heap[current].aura].periodic,
                    ~TallyOf(current).refreshed, Instance(current).fadeTime \notin {0, 1}
             PROVE  TallyOf(current).done = TallyOf(current).due
  BY DEF TicksAreComplete
<1>1. PICK c, a, f, o : /\ c = heap[current].target /\ a = heap[current].aura
                        /\ f = auraMap[c][a].fadeTime /\ o = tally[c][a]
  OBVIOUS
<1>2. /\ Inv /\ TallyOK /\ a \in DOMAIN auraMap[c] /\ f <= gameTime
      /\ gameTime \in Nat /\ GoodMap(eventMap, gameTime)
  BY <1>1 DEF CompleteInv, ChainInv, Inv, ClockOK, SoundNow, Sound, FadeFinds, FindsItsAura,
     HasAura, Instance
<1>3. c \in Creatures
  <2>1. heap[current] \in EventObjects /\ heap[current].type = "remove"
    BY <1>2, CurrentIsInFront DEF Hooks, HookType, GoodObject
  <2> QED
    BY <1>1, <2>1, KindsOfObjects DEF RemoveEvents
<1>4. a \in Auras /\ f \in Nat /\ o \in Tally
  BY <1>1, <1>2, <1>3, AuraType DEF TallyOK
<1>5. CountsUp(c, a)
  BY <1>1, <1>2, <1>3 DEF CompleteInv, CompleteOK, Complete, Regular, TallyOf, Instance
<1>6. o.done <= o.due /\ o.done \in Nat /\ o.due \in Nat
  BY <1>1, <1>4, <1>5 DEF CountsUp, Tally
<1>7. CASE \A y : ~TickOf(y, c, a)
  BY <1>1, <1>5, <1>7 DEF CountsUp, TallyOf
<1>8. ASSUME NEW y, TickOf(y, c, a)
      PROVE  o.due <= o.done
  <2>1. y \in DOMAIN heap /\ heap[y].period \in Nat
    BY <1>2, <1>8, PeriodicType DEF TickOf, IsPeriodic
  <2>2. y \in Queued(eventMap)
    BY <1>2, <2>1 DEF Inv, SoundNow, Sound, GoodHeap
  <2>3. PICK t : IsDueAt(eventMap, y, t)
    BY <2>2, QueuedIsDue
  <2>4. t \in Nat /\ gameTime <= t
    BY <1>2, <2>3, DueTimes
  <2>5. OnSchedule(o.due, o.done, heap[y].period, t, f)
    BY <1>1, <1>5, <1>8, <2>3 DEF CountsUp
  <2>6. f <= t
    BY <1>2, <1>4, <2>4
  <2> QED
    BY <1>4, <1>6, <2>1, <2>4, <2>5, <2>6, ScheduleEnds
<1> QED
  BY <1>1, <1>6, <1>7, <1>8 DEF TallyOf

\* An aura that was applied for a time, that nothing refreshed and that no spell
\* forced to fade has ticked, when it fades, as often as its period fits into that
\* time, whatever the haste was: the tick that would come with the removal comes
\* before it, since the removal is queued one unit of time later, and the next one
\* does not come, even if it is due then (EventSystem.cpp, ProcessEvent of
\* CAuraEvent, APPLICATION and PERIODIC).
THEOREM TicksMakeUpTheAura == HSpec => []TicksAreComplete
<1>1. HSpec => []CompleteInv
  BY CompleteInit, CompleteStep, PTL DEF HSpec
<1> QED
  BY <1>1, CompleteGivesTicksAreComplete, PTL
=============================================================================
