-------------------------- MODULE CastHistoryProofs --------------------------
(* Spells that begin are a global cooldown apart, for every set of spells,    *)
(* cast times and scripts.                                                    *)
EXTENDS CastHistory, SimulatorProofs, WellFoundedInduction

\* The routines whose sleep the handler loses: PreCastingSpellRoutine, whose
\* spell begins nevertheless, and PostCastingSpellRoutine once it has stopped
\* its spell, for which the handler then stores the cooldown of that spell.
SleepsAreHeeded ==
  /\ "PreCastingSpell" \notin SleepScripts
  /\ "PostCastingSpell" \notin SleepScripts \cap StopScripts

\* The cooldown that the player has, or will be given when the cast ends.
Recovery ==
  IF castingSpell = Null THEN globalCooldown ELSE heap[castingSpell].gcdRecovery

\* The record is over, or what the code knows of the cooldown covers it.
Over == notBefore <= gameTime
Covered == Over \/ notBefore <= Recovery

\* The player is idle until the spell begins.
BeginsIdle == pc = "PreCastingSpell" => castingSpell = Null /\ globalCooldown <= gameTime

\* A routine can stop the spell it is called for, but not begin another one.
EndsItsSpell ==
  pc = "PostCastingSpell" =>
    \/ castingSpell = current
    \/ castingSpell = Null /\ "PostCastingSpell" \in StopScripts /\ Over

WaitOK == notBefore \in Nat /\ Covered /\ BeginsIdle /\ EndsItsSpell

WaitInv == Inv /\ WaitOK

\* A step does not change what the player waits for.
PlayerKept == SamePlayer /\ ~Begins

-----------------------------------------------------------------------------
LEMMA ShortestIsShortest ==
  ASSUME NEW g \in GcdTimes
  PROVE  ShortestGcd \in Nat /\ ShortestGcd <= g
<1>1. GcdTimes \subseteq Nat
  BY SpellAssumption
<1> DEFINE R == OpToRel(<, Nat)
<1>2. IsWellFoundedOn(R, Nat)
  BY NatLessThanWellFounded
<1>3. \A i, h \in Nat : i < h => <<i, h>> \in R
  BY DEF OpToRel
<1> HIDE DEF R
<1>4. \E h \in GcdTimes : \A i \in GcdTimes : ~(<<i, h>> \in R)
  <2>1. GcdTimes # {}
    OBVIOUS
  <2>2. \A T : T \subseteq Nat /\ T # {} => \E h \in T : \A i \in T : ~(<<i, h>> \in R)
    BY <1>2, WFMin, Zenon
  <2> QED
    BY <1>1, <2>1, <2>2
<1>5. \E h \in GcdTimes : \A i \in GcdTimes : h <= i
  <2>1. PICK h \in GcdTimes : \A i \in GcdTimes : ~(<<i, h>> \in R)
    BY <1>4
  <2>2. \A i \in GcdTimes : ~(i < h)
    BY <1>1, <1>3, <2>1
  <2>3. \A i \in GcdTimes : h <= i
    BY <1>1, <2>1, <2>2
  <2> QED
    BY <2>1, <2>3
<1> QED
  BY <1>1, <1>5 DEF ShortestGcd

-----------------------------------------------------------------------------
(* Every step but those that begin, end or stop a cast and that sleep.        *)

LEMMA QuietPlayer ==
  ASSUME Inv, Inv', Undisturbed, [Next]_vars
  PROVE  \/ PlayerKept
         \/ FinishPreCasting \/ FinishPostCasting
         \/ \E x \in DOMAIN heap : MissCast(x)
         \/ StopCasting \/ \E n \in SleepTimes : PlayerSleep(n)
BY PlayerChangedBy, LeavingHook DEF PlayerKept, Begins

-----------------------------------------------------------------------------
(* The cooldown covers the record.                                            *)

LEMMA RecordType ==
  ASSUME WaitInv, Inv', HNext \/ UNCHANGED <<vars, notBefore>>
  PROVE  notBefore' \in Nat
<1>1. /\ gameTime \in Nat /\ globalCooldown' \in Nat /\ notBefore \in Nat
  BY DEF WaitInv, WaitOK, Inv, ClockOK, OthersOK
<1>2. CASE Begins /\ Next
  <2>1. FinishPreCasting
    BY <1>2, LeavingHook DEF Begins
  <2>2. ShortestGcd \in Nat
    BY <2>1, ShortestIsShortest DEF FinishPreCasting
  <2>3. gameTime + ShortestGcd \in Nat
    BY <1>1, <2>2
  <2> QED
    BY <1>2, <2>3 DEF HNext, Record, vars, Begins
<1>3. CASE ~Begins
  BY <1>1, <1>3 DEF HNext, Record
<1> QED
  BY <1>1, <1>2, <1>3 DEF HNext

LEMMA KeptPlayerWaits ==
  ASSUME WaitInv, Inv', [Next]_vars, PlayerKept,
         Record \/ UNCHANGED <<vars, notBefore>>
  PROVE  Covered' /\ BeginsIdle' /\ EndsItsSpell'
<1>1. /\ notBefore' = notBefore /\ castingSpell' = castingSpell
      /\ globalCooldown' = globalCooldown
  BY DEF Record, PlayerKept, SamePlayer
<1>2. notBefore \in Nat /\ globalCooldown \in Nat
  BY DEF WaitInv, WaitOK, Inv, OthersOK
<1>3. gameTime \in Nat /\ gameTime' \in Nat /\ gameTime <= gameTime'
  BY ClockGoesOn DEF WaitInv
<1>4. Over => Over'
  BY <1>1, <1>2, <1>3 DEF Over
<1>5. Recovery' = Recovery
  BY <1>1 DEF Recovery, PlayerKept, SamePlayer
<1>6. Covered'
  BY <1>1, <1>4, <1>5 DEF Covered, WaitInv, WaitOK
<1>7. CASE UNCHANGED <<pc, current>>
  <2>1. BeginsIdle'
    BY <1>1, <1>2, <1>3, <1>7 DEF BeginsIdle, WaitInv, WaitOK
  <2>2. EndsItsSpell'
    BY <1>1, <1>4, <1>7 DEF EndsItsSpell, WaitInv, WaitOK
  <2> QED
    BY <1>6, <2>1, <2>2
<1>8. ASSUME NEW x \in DOMAIN heap,
             \/ BeginCast(x) \/ BeginTick(x) \/ HitCast(x) \/ HitTick(x)
             \/ BeginApplication(x) \/ BeginFade(x) \/ BeginPeriodic(x)
      PROVE  BeginsIdle' /\ EndsItsSpell'
  <2>1. CASE BeginCast(x)
    <3>1. pc' = "PreCastingSpell" /\ IsIdle
      BY <2>1 DEF BeginCast, CallHook
    <3> QED
      BY <1>1, <1>2, <1>3, <3>1 DEF BeginsIdle, EndsItsSpell, IsIdle
  <2>2. CASE HitCast(x)
    <3>1. pc' = "PostCastingSpell" /\ current' = x /\ castingSpell = x
      BY <2>2 DEF HitCast, CallHook
    <3> QED
      BY <1>1, <3>1 DEF BeginsIdle, EndsItsSpell
  <2>3. CASE ~BeginCast(x) /\ ~HitCast(x)
    <3>1. pc' \notin {"PreCastingSpell", "PostCastingSpell"}
      BY <1>8, <2>3 DEF BeginTick, HitTick, BeginApplication, BeginFade,
         BeginPeriodic, CallHook
    <3> QED
      BY <3>1 DEF BeginsIdle, EndsItsSpell
  <2> QED
    BY <2>1, <2>2, <2>3
<1>9. CASE pc' \notin Hooks
  BY <1>6, <1>9 DEF BeginsIdle, EndsItsSpell, Hooks
<1> QED
  BY <1>6, <1>7, <1>8, <1>9, InHook

\* The cast begins, or the channel misses.
LEMMA FinishPreCastingWaits ==
  ASSUME WaitInv, FinishPreCasting, Record
  PROVE  Covered' /\ BeginsIdle' /\ EndsItsSpell'
<1>1. PICK g \in GcdTimes :
        \/ MissChannel(g)
        \/ \E c \in CastTimes(heap[current].spell) :
             StartCast(g, c) \/ StartChannel(g, c)
  BY DEF FinishPreCasting
<1>2. pc = "PreCastingSpell" /\ \E m : Return(m)
  BY <1>1 DEF MissChannel, StartCast, StartChannel, ReturnAndDelete
<1>3. pc' \notin Hooks
  BY <1>2, ReturnLeavesHook
<1>4. /\ current \in DOMAIN heap /\ current # Null /\ heap[current] \in CastEvents
      /\ gameTime \in Nat
  BY <1>2, PreCastingFacts DEF WaitInv
<1>5. ShortestGcd \in Nat /\ g \in Nat /\ ShortestGcd <= g
  BY ShortestIsShortest, SpellAssumption
<1>6. notBefore' = gameTime + ShortestGcd
  BY <1>2, <1>3 DEF Record, Begins, Hooks
<1>7. notBefore' <= gameTime + g
  BY <1>4, <1>5, <1>6
<1>8. CASE MissChannel(g)
  <2>1. Recovery' = gameTime + g
    BY <1>8 DEF MissChannel, Recovery
  <2> QED
    BY <1>3, <1>7, <2>1 DEF Covered, BeginsIdle, EndsItsSpell, Hooks
<1>9. ASSUME NEW c \in CastTimes(heap[current].spell),
             StartCast(g, c) \/ StartChannel(g, c)
      PROVE  castingSpell' = current /\ heap'[current] = CastPost(heap[current], gameTime + g)
  BY <1>4, <1>9 DEF StartCast, StartChannel, CastPost
<1>10. ASSUME NEW c \in CastTimes(heap[current].spell),
              StartCast(g, c) \/ StartChannel(g, c)
       PROVE  Covered'
  <2>1. CastPost(heap[current], gameTime + g).gcdRecovery = gameTime + g
    BY <1>4 DEF CastPost, CastEvents
  <2>2. Recovery' = gameTime + g
    BY <1>4, <1>9, <1>10, <2>1 DEF Recovery
  <2> QED
    BY <1>7, <2>2 DEF Covered
<1> QED
  BY <1>1, <1>3, <1>8, <1>10 DEF BeginsIdle, EndsItsSpell, Hooks

\* The cast ends, with a hit or a miss, and its cooldown becomes the player's.
LEMMA EndingWaits ==
  ASSUME WaitInv, FinishPostCasting \/ \E x \in DOMAIN heap : MissCast(x), Record
  PROVE  Covered' /\ BeginsIdle' /\ EndsItsSpell'
<1>1. PICK x : /\ pc \in {"PostCastingSpell", "batch"} /\ castingSpell' = Null
               /\ globalCooldown' = heap[x].gcdRecovery /\ ReturnAndDelete(x, eventMap)
               /\ pc = "PostCastingSpell" => x = current
               /\ pc = "batch" => castingSpell = x /\ IsNext(x)
  BY DEF FinishPostCasting, MissCast, IsNext
<1>2. pc' \notin Hooks /\ gameTime' = gameTime
  BY <1>1, ReturnLeavesHook DEF ReturnAndDelete, Return
<1>3. x # Null
  BY <1>1, NextIsInFront, CurrentIsInFront DEF WaitInv, Hooks
<1>4. castingSpell = x \/ Over
  BY <1>1 DEF WaitInv, WaitOK, EndsItsSpell
<1>5. ~Begins /\ ~Calls
  BY <1>1, <1>2 DEF Begins, Calls, Scripts, Hooks
<1>6. notBefore' = notBefore
  BY <1>5 DEF Record
<1>7. Recovery' = heap[x].gcdRecovery /\ (castingSpell = x => Recovery' = Recovery)
  BY <1>1, <1>3 DEF Recovery
<1>8. Over => Over'
  BY <1>2, <1>6 DEF Over
<1>9. Covered'
  BY <1>4, <1>6, <1>7, <1>8 DEF Covered, WaitInv, WaitOK
<1> QED
  BY <1>2, <1>9 DEF BeginsIdle, EndsItsSpell, Hooks

LEMMA StopCastingWaits ==
  ASSUME WaitInv, StopCasting, Record
  PROVE  Covered' /\ BeginsIdle' /\ EndsItsSpell'
<1>1. /\ pc \in StopScripts /\ castingSpell # Null /\ castingSpell' = Null
      /\ pc' = pc /\ gameTime' = gameTime
  BY DEF StopCasting, Call, eventSystem
<1>2. Calls /\ ~Begins
  BY <1>1, ScriptAssumption DEF Calls, Begins
<1>3. notBefore' = gameTime /\ gameTime \in Nat
  BY <1>1, <1>2 DEF Record, WaitInv, Inv, ClockOK
<1>4. Over'
  BY <1>1, <1>3 DEF Over
<1>5. BeginsIdle'
  BY <1>1 DEF BeginsIdle, WaitInv, WaitOK
<1>6. EndsItsSpell'
  BY <1>1, <1>4 DEF EndsItsSpell
<1> QED
  BY <1>4, <1>5, <1>6 DEF Covered

LEMMA PlayerSleepWaits ==
  ASSUME WaitInv, SleepsAreHeeded, NEW n \in SleepTimes, PlayerSleep(n), Record
  PROVE  Covered' /\ BeginsIdle' /\ EndsItsSpell'
<1>1. /\ pc \in SleepScripts /\ IsIdle /\ pc' = pc
      /\ UNCHANGED <<gameTime, castingSpell, current>>
  BY DEF PlayerSleep, Call, eventSystem
<1>2. Calls /\ ~Begins /\ castingSpell = Null
  BY <1>1, ScriptAssumption DEF Calls, Begins, IsIdle
<1>3. Recovery = globalCooldown /\ Recovery' = globalCooldown'
  BY <1>1, <1>2 DEF Recovery
<1>4. \/ globalCooldown' # globalCooldown /\ notBefore' = globalCooldown'
      \/ globalCooldown' = globalCooldown /\ notBefore' = notBefore
  BY <1>2 DEF Record
<1>5. globalCooldown' \in Nat /\ globalCooldown' <= globalCooldown'
  <2>1. gameTime + n \in Nat
    BY ScriptAssumption DEF WaitInv, Inv, ClockOK
  <2> QED
    BY <2>1 DEF PlayerSleep
<1>6. Covered'
  BY <1>1, <1>3, <1>4, <1>5 DEF Covered, Over, WaitInv, WaitOK
<1>7. BeginsIdle'
  BY <1>1 DEF BeginsIdle, SleepsAreHeeded
<1>8. EndsItsSpell'
  <2>1. pc = "PostCastingSpell" => current # Null
    BY CurrentIsInFront DEF WaitInv, Hooks
  <2> QED
    BY <1>1, <1>2, <2>1 DEF EndsItsSpell, SleepsAreHeeded, WaitInv, WaitOK
<1> QED
  BY <1>6, <1>7, <1>8

LEMMA WaitStep ==
  ASSUME SleepsAreHeeded
  PROVE  WaitInv /\ [HNext]_<<vars, notBefore>> => WaitInv'
<1> SUFFICES ASSUME WaitInv, [HNext]_<<vars, notBefore>> PROVE WaitInv'
  OBVIOUS
<1>1. [Next]_vars /\ (HNext \/ UNCHANGED <<vars, notBefore>>)
  BY DEF HNext, vars
<1>2. Inv' /\ Undisturbed
  BY <1>1, NextKeepsInv DEF WaitInv
<1>3. notBefore' \in Nat
  BY <1>1, <1>2, RecordType
<1>4. Covered' /\ BeginsIdle' /\ EndsItsSpell'
  <2>1. CASE PlayerKept
    BY <1>1, <1>2, <2>1, KeptPlayerWaits DEF HNext
  <2>2. CASE UNCHANGED <<vars, notBefore>>
    BY <1>1, <1>2, <2>2, KeptPlayerWaits DEF PlayerKept, SamePlayer, vars, Begins
  <2>3. CASE Record /\ ~PlayerKept
    BY <1>1, <1>2, <2>3, QuietPlayer, FinishPreCastingWaits, EndingWaits,
       StopCastingWaits, PlayerSleepWaits DEF WaitInv
  <2> QED
    BY <1>1, <2>1, <2>2, <2>3 DEF HNext
<1> QED
  BY <1>2, <1>3, <1>4 DEF WaitInv, WaitOK

LEMMA WaitInit == HInit => WaitInv
<1> SUFFICES ASSUME HInit PROVE WaitInv
  OBVIOUS
<1>1. Inv
  BY InvInit DEF HInit
<1>2. WaitOK
  BY DEF HInit, Init, WaitOK, Covered, Over, BeginsIdle, EndsItsSpell
<1> QED
  BY <1>1, <1>2 DEF WaitInv

\* A spell begins only when the player is idle, and then the record is over.
LEMMA WaitedEnough == WaitInv => (Begins => gameTime >= notBefore)
<1> SUFFICES ASSUME WaitInv, Begins PROVE gameTime >= notBefore
  OBVIOUS
<1>1. castingSpell = Null /\ globalCooldown <= gameTime
  BY DEF WaitInv, WaitOK, BeginsIdle, Begins
<1>2. notBefore \in Nat /\ globalCooldown \in Nat /\ gameTime \in Nat
  BY DEF WaitInv, WaitOK, Inv, ClockOK, OthersOK
<1>3. notBefore <= gameTime \/ notBefore <= globalCooldown
  BY <1>1 DEF WaitInv, WaitOK, Covered, Over, Recovery
<1> QED
  BY <1>1, <1>2, <1>3

\* Two spells that begin are at least the shortest global cooldown apart, and
\* none begins in a sleep, whatever is queued, missed, stopped and cast from
\* whatever routine: the cooldown that a cast event carries (CSpellEvent's
\* m_GCDRecovery) reaches the player before he is idle again.  The two routines
\* whose sleep the handlers do not heed must not sleep.
THEOREM SpellsKeepTheirCooldown ==
  ASSUME SleepsAreHeeded
  PROVE  HSpec => SpellsAreSpaced
<1>1. WaitInv /\ [HNext]_<<vars, notBefore>> => WaitInv'
  BY WaitStep
<1>2. WaitInv => (Begins => gameTime >= notBefore)
  BY WaitedEnough
<1> QED
  BY <1>1, <1>2, WaitInit, PTL DEF HSpec, SpellsAreSpaced
=============================================================================
