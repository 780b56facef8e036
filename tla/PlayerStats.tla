----------------------------- MODULE PlayerStats -----------------------------
(***************************************************************************)
(* The stats of CPlayer under scripts that add bonuses and take them back: *)
(* each effect, when it ends, adds the negative of what it added when it   *)
(* began, in any order with the other effects.  A double is a rational     *)
(* <<n, d>> with d > 0; a uint32 has the width Word.                       *)
(***************************************************************************)
EXTENDS Integers, FiniteSets

CONSTANTS
  Ratings,        \* PS_CRIT_RAITING .. PS_SPIRIT
  Haste, Level,   \* PS_HASTE_PRECENTAGE; PS_LEVEL, a type that is refused
  Word,           \* 2^32
  Values,         \* the bases that scripts set
  Bonuses,        \* the values of PlayerAddStats for a rating
  Multipliers, Hastes,
  MaxEffects      \* bound on the effects that are active at a time

StatsAssumption ==
  /\ Word \in Nat \ {0} /\ MaxEffects \in Nat
  /\ Level \notin Ratings /\ Haste \notin Ratings /\ Haste # Level

VARIABLES
  base, additional, multiplier,   \* of each rating
  haste,                          \* 1 + m_iAdditionalHastePrecentage
  active,                         \* history: how often each effect is active
  reply

stats == <<base, additional, multiplier, haste>>
vars == <<stats, active, reply>>

-----------------------------------------------------------------------------
(* Rationals, in lowest terms. *)
Abs(n) == IF n < 0 THEN -n ELSE n
Reduced(n, d) ==
  LET common == {k \in 1..d : n % k = 0 /\ d % k = 0}
      g == CHOOSE k \in common : \A j \in common : j <= k
  IN  <<n \div g, d \div g>>
Plus(x, y) == Reduced(x[1] * y[2] + y[1] * x[2], x[2] * y[2])
Times(x, y) == Reduced(x[1] * y[1], x[2] * y[2])
Over(x, y) == Reduced(x[1] * y[2], x[2] * y[1])
Negative(x) == <<-x[1], x[2]>>
Zero == <<0, 1>>
One == <<1, 1>>

ToInt32(x) == IF x[1] < 0 THEN -(Abs(x[1]) \div x[2]) ELSE x[1] \div x[2]

-----------------------------------------------------------------------------
Types == Ratings \cup {Haste, Level}

Effects ==
  [stat : Ratings, kind : {"add"}, value : Bonuses]
  \cup [stat : Ratings, kind : {"multiply"}, value : Multipliers]
  \cup [stat : {Haste}, kind : {"add"}, value : Hastes]

Init ==   \* CPlayer::CPlayer
  /\ base = [s \in Ratings |-> 0]
  /\ additional = [s \in Ratings |-> 0]
  /\ multiplier = [s \in Ratings |-> Zero]
  /\ haste = One
  /\ active = [e \in Effects |-> 0]
  /\ reply = "nothing"

(* Get_X: the sum wraps at Word; then the multiplier and the conversion.    *)
Get(s) == ToInt32(Times(<<(base[s] + additional[s]) % Word, 1>>, Plus(One, multiplier[s])))

WithHaste_Adds(h, x) ==   \* slip: a bonus is taken back with its complement
  Times(h, Plus(One, x))

WithHaste(h, x) ==   \* AddHastePrecentage
  IF x[1] > 0 THEN Times(h, Plus(One, x)) ELSE Over(h, Plus(One, Negative(x)))

Invalid(type) == type = Level
Refuses == reply' = "error" /\ UNCHANGED stats

PlayerAddStats(type, x) ==
  CASE Invalid(type) -> Refuses
    [] type = Haste ->
         haste' = WithHaste(haste, x) /\ reply' = "nothing" /\ UNCHANGED <<base, additional, multiplier>>
    [] OTHER ->
         /\ additional' = [additional EXCEPT ![type] = @ + ToInt32(x)]
         /\ reply' = "nothing" /\ UNCHANGED <<base, multiplier, haste>>

(* PS_HASTE_PRECENTAGE passes the range check of the two below and runs     *)
(* into their assertion.                                                    *)
PlayerAddStatsMultiplier(type, x) ==
  CASE Invalid(type) -> Refuses
    [] type = Haste -> reply' = "assertion" /\ UNCHANGED stats
    [] OTHER ->
         /\ multiplier' = [multiplier EXCEPT ![type] = Plus(@, x)]
         /\ reply' = "nothing" /\ UNCHANGED <<base, additional, haste>>

PlayerSetStats(type, v) ==
  CASE Invalid(type) -> Refuses
    [] type = Haste -> reply' = "assertion" /\ UNCHANGED stats
    [] OTHER ->
         /\ base' = [base EXCEPT ![type] = v % Word]
         /\ reply' = "nothing" /\ UNCHANGED <<additional, multiplier, haste>>

Apply(e, x) ==
  IF e.kind = "add" THEN PlayerAddStats(e.stat, x) ELSE PlayerAddStatsMultiplier(e.stat, x)

Count == LET Ones == {<<e, i>> \in Effects \X (1..MaxEffects) : i <= active[e]} IN Cardinality(Ones)

Begin(e) ==
  /\ Count < MaxEffects
  /\ Apply(e, e.value)
  /\ active' = [active EXCEPT ![e] = @ + 1]

End(e) ==
  /\ active[e] > 0
  /\ Apply(e, Negative(e.value))
  /\ active' = [active EXCEPT ![e] = @ - 1]

Next ==
  \/ \E e \in Effects : Begin(e) \/ End(e)
  \/ \E t \in Types, v \in Values : PlayerSetStats(t, v) /\ UNCHANGED active
  \/ PlayerAddStats(Level, One) /\ UNCHANGED active
  \/ \E t \in {Haste, Level} : PlayerAddStatsMultiplier(t, One) /\ UNCHANGED active

Spec == Init /\ [][Next]_vars

-----------------------------------------------------------------------------
Idle(s) == \A e \in Effects : e.stat = s => active[e] = 0

(* A rating with no active effect reads as it was last set, in whatever     *)
(* order its effects began and ended, also after one that took it below     *)
(* zero: conversion, wrap and multiplier are undone exactly.                *)
RatingsComeBack == \A s \in Ratings : Idle(s) => Get(s) = base[s]

(* Bonuses to haste multiply, so that ending them divides: with none left   *)
(* the haste is that of the rating alone.                                   *)
HasteComesBack == Idle(Haste) => haste = One
=============================================================================
