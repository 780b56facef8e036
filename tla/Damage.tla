------------------------------- MODULE Damage -------------------------------
(***************************************************************************)
(* What scripts do to the numbers of an event: the additionals of CEvent   *)
(* that EventAddStats changes in the hooks of the current event, the       *)
(* damage computed from them and the report.  Two events are alive: a cast *)
(* that takes time (its first hook runs when it begins, its second when it *)
(* lands) and the ticks of an aura, one object that runs again and again.  *)
(* A percentage is a number of quarters, a factor the rational <<n, d>>.   *)
(***************************************************************************)
EXTENDS Integers, FiniteSets, Functions

CONSTANTS
  Slots,          \* indices of AddDamagePrecentage that scripts use
  Percents,       \* the quarters they add
  Amounts,        \* the damage they add
  Powers,         \* spell powers
  DamageMin, DamageMax,
  Word,           \* 2^32
  MaxCalls        \* bound on the EventAddStats calls for one event

DamageAssumption ==
  /\ Slots \subseteq 0..15 /\ Percents \subseteq 1..8
  /\ DamageMin \in Nat /\ DamageMax \in Nat /\ DamageMin <= DamageMax /\ Word \in Nat \ {0}

Events == {"cast", "periodic"}

VARIABLES
  alive,          \* the events that exist
  percents,       \* m_iAdditionalDamagePrecentage of each, as factors
  amount,         \* m_iAdditionalDamage
  calculated,     \* CalculatedDamage
  crit,
  power,          \* the player's spell power
  auraPower,      \* the one the aura keeps; 0: none
  pc,             \* the hook that runs, with the event it is called for
  report,         \* the damage reported by the event that ran last
  calls           \* history: the EventAddStats calls made for each event

vars == <<alive, percents, amount, calculated, crit, power, auraPower, pc, report, calls>>

Between == <<"between", "none">>
Hook(e) == pc[1] # "between" /\ pc[2] = e
One == <<1, 1>>
Times(x, y) == <<x[1] * y[1], x[2] * y[2]>>

Clean == [s \in Slots |-> One]

Init ==
  /\ alive = {}
  /\ percents = [e \in Events |-> Clean]
  /\ amount = [e \in Events |-> 0]
  /\ calculated = [e \in Events |-> 0]
  /\ crit = FALSE
  /\ power \in Powers /\ auraPower = 0
  /\ pc = Between
  /\ report = 0
  /\ calls = [e \in Events |-> {}]

-----------------------------------------------------------------------------
(* The damage. *)
Special == 15
ToUint(n, x) == ((n * x[1]) \div x[2]) % Word    \* *= with a double

Product(e) == FoldFunctionOnSet(Times, One, percents[e], Slots \ {Special})
SpecialOf(e) == IF Special \in Slots THEN percents[e][Special] ELSE One

PowerOf(e) == IF e = "periodic" /\ auraPower # 0 THEN auraPower ELSE power

(* DamageMin and DamageMax go the same way; the factor of spell power is 1. *)
Modified(e, d) == ToUint((ToUint(d + PowerOf(e), Product(e)) + amount[e]) % Word, SpecialOf(e))

(* Get_Damage: the value kept, or a sample between the two. *)
GetDamage(e) ==
  IF calculated[e] # 0 THEN {calculated[e]}
  ELSE LET low == Modified(e, DamageMin) high == Modified(e, DamageMax)
       IN  {low, low + (high - low) \div 2, high}

Reported(d, c) == IF c THEN 2 * d ELSE d   \* a critical strike counts twice

-----------------------------------------------------------------------------

AddPercent(factor, slot, p) ==   \* AddDamagePrecentage
  IF slot < 8 THEN <<4 * factor[1] + p * factor[2], 4 * factor[2]>> ELSE Times(factor, <<4 + p, 4>>)

Amount == 16   \* the kind of AddDamage; the kind of AddDamagePrecentage is the index

Called(e, kind, value) ==   \* the nth such call
  calls' = [calls EXCEPT ![e] = @ \cup {<<kind, value, Cardinality({c \in @ : c[1] = kind /\ c[2] = value})>>}]

AddDamagePrecentage(e, slot, p) ==
  /\ Hook(e) /\ Cardinality(calls[e]) < MaxCalls
  /\ percents' = [percents EXCEPT ![e][slot] = AddPercent(@, slot, p)]
  /\ Called(e, slot, p)
  /\ UNCHANGED <<alive, amount, calculated, crit, power, auraPower, pc, report>>

AddDamage(e, n) ==
  /\ Hook(e) /\ Cardinality(calls[e]) < MaxCalls
  /\ amount' = [amount EXCEPT ![e] = @ + n]
  /\ Called(e, Amount, n)
  /\ UNCHANGED <<alive, percents, calculated, crit, power, auraPower, pc, report>>

SetSpellPower(p) ==   \* in any hook, or idle
  /\ power' = p
  /\ UNCHANGED <<alive, percents, amount, calculated, crit, auraPower, pc, report, calls>>

Fresh(e) ==   \* CEvent::CEvent; also the state of an event that is gone
  /\ percents' = [percents EXCEPT ![e] = Clean]
  /\ amount' = [amount EXCEPT ![e] = 0]
  /\ calculated' = [calculated EXCEPT ![e] = 0]
  /\ calls' = [calls EXCEPT ![e] = {}]

ResetAdditionals(e) ==
  /\ percents' = [percents EXCEPT ![e] = Clean]
  /\ amount' = [amount EXCEPT ![e] = 0]

-----------------------------------------------------------------------------
(* The cast: CSpellEvent::operator() with PreAction and PostAction. *)
BeginCast ==
  /\ pc = Between /\ "cast" \notin alive
  /\ alive' = alive \cup {"cast"}
  /\ Fresh("cast")
  /\ crit' = FALSE
  /\ pc' = <<"pre", "cast">>
  /\ report' = 0
  /\ UNCHANGED <<power, auraPower>>

CastBegun ==
  /\ pc = <<"pre", "cast">>
  /\ pc' = Between
  /\ UNCHANGED <<alive, percents, amount, calculated, crit, power, auraPower, report, calls>>

Miss ==   \* or the cast was stopped in the meantime
  /\ pc = Between /\ "cast" \in alive
  /\ alive' = alive \ {"cast"}
  /\ Fresh("cast")
  /\ report' = 0
  /\ UNCHANGED <<crit, power, auraPower, pc>>

Land_Calculates ==   \* slip: the damage is calculated before the hook
  /\ pc = Between /\ "cast" \in alive
  /\ crit' \in BOOLEAN
  /\ \E d \in GetDamage("cast") : calculated' = [calculated EXCEPT !["cast"] = d]
  /\ pc' = <<"post", "cast">>
  /\ UNCHANGED <<alive, percents, amount, power, auraPower, report, calls>>

Land ==
  /\ pc = Between /\ "cast" \in alive
  /\ crit' \in BOOLEAN
  /\ pc' = <<"post", "cast">>
  /\ UNCHANGED <<alive, percents, amount, calculated, power, auraPower, report, calls>>

CastLanded ==
  /\ pc = <<"post", "cast">>
  /\ \E d \in GetDamage("cast") : report' = Reported(d, crit)
  /\ alive' = alive \ {"cast"}
  /\ Fresh("cast")
  /\ crit' = FALSE
  /\ pc' = Between
  /\ UNCHANGED <<power, auraPower>>

-----------------------------------------------------------------------------
(* The aura: AuraApplication, AuraPeriodic and the aura's end. *)
ApplyAura ==
  /\ pc = Between
  /\ auraPower' = power
  /\ IF "periodic" \in alive THEN UNCHANGED <<alive, percents, amount, calculated, calls>>
     ELSE alive' = alive \cup {"periodic"} /\ Fresh("periodic")
  /\ UNCHANGED <<crit, power, pc, report>>

BeginTick ==
  /\ pc = Between /\ "periodic" \in alive
  /\ pc' = <<"pre", "periodic">>
  /\ report' = 0
  /\ UNCHANGED <<alive, percents, amount, calculated, crit, power, auraPower, calls>>

Tick ==
  /\ pc = <<"pre", "periodic">>
  /\ \E d \in GetDamage("periodic"), c \in BOOLEAN :
       calculated' = [calculated EXCEPT !["periodic"] = d] /\ report' = Reported(d, c)
  /\ pc' = <<"post", "periodic">>
  /\ UNCHANGED <<alive, percents, amount, crit, power, auraPower, calls>>

EndTick(last) ==
  /\ pc = <<"post", "periodic">>
  /\ ResetAdditionals("periodic")
  /\ calculated' = [calculated EXCEPT !["periodic"] = 0]
  /\ calls' = [calls EXCEPT !["periodic"] = {}]
  /\ alive' = IF last THEN alive \ {"periodic"} ELSE alive
  /\ auraPower' = IF last THEN 0 ELSE auraPower
  /\ pc' = Between
  /\ UNCHANGED <<crit, power, report>>

Next ==
  \/ \E e \in Events, s \in Slots, p \in Percents : AddDamagePrecentage(e, s, p)
  \/ \E e \in Events, n \in Amounts : AddDamage(e, n)
  \/ \E p \in Powers : SetSpellPower(p)
  \/ BeginCast \/ CastBegun \/ Miss \/ Land \/ CastLanded
  \/ ApplyAura \/ BeginTick \/ Tick
  \/ \E last \in BOOLEAN : EndTick(last)

Spec == Init /\ [][Next]_vars

-----------------------------------------------------------------------------
(* The reference: the factor and the sum of a set of calls, whatever their  *)
(* order.                                                                   *)
Quarters(e, s) == FoldFunctionOnSet(LAMBDA x, y : x + y, 0, [c \in calls[e] |-> c[2]],
                                    {c \in calls[e] : c[1] = s})
Raised(e, s) == FoldFunctionOnSet(Times, One, [c \in calls[e] |-> <<4 + c[2], 4>>],
                                  {c \in calls[e] : c[1] = s})
Same(x, y) == x[1] * y[2] = y[1] * x[2]

(* An event's additionals are those that its own hooks asked for since it   *)
(* began (for ticks: since the last one ended), in whatever order: none     *)
(* leaks into the next tick or from a tick into a cast in progress.         *)
AdditionalsAreOwn ==
  \A e \in alive :
    /\ \A s \in Slots :
         Same(percents[e][s], IF s < 8 THEN <<4 + Quarters(e, s), 4>> ELSE Raised(e, s))
    /\ amount[e] = Quarters(e, Amount)

(* The hook after a tick reads the damage that was reported, not another    *)
(* sample, unless it was 0.                                                 *)
PostHookSeesReport ==
  pc = <<"post", "periodic">> /\ report # 0 =>
    \A d \in GetDamage("periodic") : report \in {d, 2 * d}

(* What a cast reports counts everything both of its hooks asked for.       *)
CastCountsBothHooks ==
  pc = <<"post", "cast">> /\ pc' = Between =>
    LET Factor(s) == IF s < 8 THEN <<4 + Quarters("cast", s), 4>> ELSE Raised("cast", s)
        Product15 == FoldFunctionOnSet(Times, One, [s \in Slots |-> Factor(s)], Slots \ {Special})
        Ref(d) == ToUint((ToUint(d + power, Product15) + Quarters("cast", Amount)) % Word, Raised("cast", Special))
    IN  \E f \in {1, 2} : Ref(DamageMin) * f <= report' /\ report' <= Ref(DamageMax) * f

(* What an event reports counts what its own hooks asked for, in both of    *)
(* them, and nothing that those of another event or tick did.               *)
ReportsCountOwn == [][AdditionalsAreOwn' /\ PostHookSeesReport' /\ CastCountsBothHooks]_vars
=============================================================================
