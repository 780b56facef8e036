------------------------------ MODULE Registry ------------------------------
(***************************************************************************)
(* The tables that scripts fill through the Lua API: aura definitions      *)
(* (CAuraDB), spell definitions (CSpellDB) and targets (CCreatureDB), with *)
(* every function of LuaIntergration.cpp that adds to them, changes an     *)
(* entry or looks one up.  A call ends with a reply: a value, nil, or an   *)
(* error, which lua_error throws out of the function where it stands.      *)
(***************************************************************************)
EXTENDS Integers, SequencesExt

CONSTANTS
  Names,      \* what scripts pass as names; Bad is not a string
  Numbers,    \* what scripts pass as ids; Bad is not a number
  Bad,
  Nil, Error, \* replies that are no value
  Addresses,  \* where creatures may be allocated, from 1 on
  MaxDefs     \* bound on the definitions of auras and spells

ASSUME RegistryAssumption ==
  /\ MaxDefs \in Nat /\ Addresses \subseteq Nat \ {0}
  /\ Bad \in Names /\ Bad \in Numbers
  /\ Nil # Error /\ Nil \notin Nat /\ Error \notin Nat

Reserved == {"player", "target"}

VARIABLES auras, spells, creatures,   \* the tables; an id is a position, a creature an address
          queued,                     \* the targets of queued events
          owner,                      \* history: the creature each name was last given to
          reply

db == <<auras, spells, creatures, queued, owner>>
vars == <<db, reply>>

NoCreature == 0

Init ==
  /\ auras = <<>> /\ spells = <<>> /\ creatures = <<>>
  /\ queued = {}
  /\ owner = [n \in Names |-> NoCreature]
  /\ reply = Nil

Fails == reply' = Error /\ UNCHANGED db
Replies(v) == reply' = v

-----------------------------------------------------------------------------
(* Lookups. *)
Named(table, name) == {i \in DOMAIN table : table[i].name = name}

ByName(table, name) ==   \* GetAuraByName, GetSpellByName: the first in the order of ids
  IF Named(table, name) = {} THEN Nil ELSE CHOOSE i \in Named(table, name) : \A j \in Named(table, name) : i <= j

ByID(table, id) == id \in DOMAIN table   \* GetAuraByID, GetSpellByID

Creatures(name) == {i \in DOMAIN creatures : creatures[i].name = name}

FirstCreature(name) ==   \* CCreatureDB::GetCreatureByName
  IF Creatures(name) = {} THEN NoCreature
  ELSE creatures[CHOOSE i \in Creatures(name) : \A j \in Creatures(name) : i <= j].at

(* GetCreatureByName: the reserved names are not looked up; no event is     *)
(* current here, so that there is no target.                                *)
GetCreatureByName(name) ==
  CASE name = "player" -> -1 [] name = "target" -> NoCreature [] OTHER -> FirstCreature(name)

-----------------------------------------------------------------------------
(* Definitions; numbers says whether the numeric arguments are numbers.     *)
AuraAdd(name, periodic, numbers) ==
  /\ Len(auras) + Len(spells) < MaxDefs
  /\ IF name = Bad \/ (periodic /\ ~numbers) THEN Fails
     ELSE /\ auras' = Append(auras, [name |-> name, set |-> FALSE])
          /\ Replies(Len(auras'))
          /\ UNCHANGED <<spells, creatures, queued, owner>>

(* AuraEnableCrit, DisableCrit, EnableHaste, DisableHaste and               *)
(* AuraSetSPPrecentagePreTick: one flag stands for each of their fields.    *)
AuraSet(id, on) ==
  IF id = Bad \/ on = Bad \/ ~ByID(auras, id) THEN Fails
  ELSE /\ auras' = [auras EXCEPT ![id].set = on]
       /\ Replies(Nil)
       /\ UNCHANGED <<spells, creatures, queued, owner>>

SpellAdd_Early(name, applies, aura, numbers) ==   \* slip: the spell is added before its aura is looked up
  /\ Len(auras) + Len(spells) < MaxDefs
  /\ IF name = Bad \/ ~numbers \/ (applies /\ aura = Bad) THEN Fails
     ELSE /\ spells' = Append(spells, [name |-> name, aura |-> IF applies THEN aura ELSE Nil])
          /\ Replies(IF applies /\ ~ByID(auras, aura) THEN Error ELSE Len(spells'))
          /\ UNCHANGED <<auras, creatures, queued, owner>>

(* A spell that applies an aura points to its definition.                   *)
SpellAdd(name, applies, aura, numbers) ==
  /\ Len(auras) + Len(spells) < MaxDefs
  /\ IF name = Bad \/ ~numbers \/ (applies /\ (aura = Bad \/ ~ByID(auras, aura))) THEN Fails
     ELSE /\ spells' = Append(spells, [name |-> name, aura |-> IF applies THEN aura ELSE Nil])
          /\ Replies(Len(spells'))
          /\ UNCHANGED <<auras, creatures, queued, owner>>

(* AuraNameToID, SpellNameToID; AuraIDToName, AuraGetSchool, SpellIDToName, *)
(* SpellGetCooldown and SpellGetSchool.                                     *)
NameToID(table, name) == (IF name = Bad THEN Fails ELSE Replies(ByName(table, name))) /\ UNCHANGED db
IDToName(table, id) ==
  (IF id = Bad THEN Fails ELSE Replies(IF ByID(table, id) THEN table[id].name ELSE Nil)) /\ UNCHANGED db

-----------------------------------------------------------------------------
(* Targets. *)
Free(at) == at \notin {creatures[i].at : i \in DOMAIN creatures}

TargetCreate_Twice(name) ==   \* slip: the name may be taken
  IF name = Bad \/ name \in Reserved THEN Fails
  ELSE \E at \in Addresses :
       /\ Free(at)
       /\ creatures' = Append(creatures, [name |-> name, at |-> at])
       /\ owner' = [owner EXCEPT ![name] = at]
       /\ Replies(Nil)
       /\ UNCHANGED <<auras, spells, queued>>

TargetCreate(name) ==
  IF name = Bad \/ name \in Reserved \/ GetCreatureByName(name) # NoCreature THEN Fails
  ELSE \E at \in Addresses :
       /\ Free(at)
       /\ creatures' = Append(creatures, [name |-> name, at |-> at])
       /\ owner' = [owner EXCEPT ![name] = at]
       /\ Replies(Nil)
       /\ UNCHANGED <<auras, spells, queued>>

(* The first creature of the name is deleted; queued events keep pointing   *)
(* to it.                                                                   *)
TargetDestory(name) ==
  IF name = Bad THEN Fails
  ELSE /\ creatures' = IF Creatures(name) = {} THEN creatures
                       ELSE RemoveAt(creatures, CHOOSE i \in Creatures(name) : \A j \in Creatures(name) : i <= j)
       /\ owner' = [owner EXCEPT ![name] = NoCreature]
       /\ Replies(Nil)
       /\ UNCHANGED <<auras, spells, queued>>

(* CastSpellByName and UnitApplyAura queue an event for a known definition  *)
(* and a known target, and say nothing otherwise.                           *)
Queue(known, name) ==
  IF name = Bad THEN Fails
  ELSE /\ queued' = IF known /\ GetCreatureByName(name) # NoCreature
                    THEN queued \cup {GetCreatureByName(name)} ELSE queued
       /\ Replies(Nil)
       /\ UNCHANGED <<auras, spells, creatures, owner>>

CastSpellByName(spell, name) == IF spell = Bad THEN Fails ELSE Queue(ByName(spells, spell) # Nil, name)
UnitApplyAura(name, id) == IF id = Bad THEN Fails ELSE Queue(ByID(auras, id), name)

EventRuns(at) ==   \* the event system runs the events of a target
  /\ at \in queued
  /\ queued' = queued \ {at}
  /\ Replies(Nil)
  /\ UNCHANGED <<auras, spells, creatures, owner>>

Next ==
  \/ \E n \in Names \ Reserved, p, numbers \in BOOLEAN : AuraAdd(n, p, numbers)
  \/ \E i \in Numbers, on \in BOOLEAN \cup {Bad} : AuraSet(i, on)
  \/ \E n \in Names \ Reserved, a, numbers \in BOOLEAN, i \in Numbers : SpellAdd(n, a, i, numbers)
  \/ \E n \in Names \ Reserved : NameToID(auras, n) \/ NameToID(spells, n)
  \/ \E i \in Numbers : IDToName(auras, i) \/ IDToName(spells, i)
  \/ \E n \in Names : TargetCreate(n) \/ TargetDestory(n)
  \/ \E s \in Names \ Reserved, n \in Names : CastSpellByName(s, n)
  \/ \E n \in Names, i \in Numbers : UnitApplyAura(n, i)
  \/ \E at \in queued : EventRuns(at)

Spec == Init /\ [][Next]_vars

-----------------------------------------------------------------------------
TypeOK ==
  /\ auras \in Seq([name : Names, set : BOOLEAN])
  /\ spells \in Seq([name : Names, aura : Numbers \cup {Nil}])
  /\ creatures \in Seq([name : Names, at : Addresses])
  /\ queued \subseteq Addresses \cup {-1}
  /\ owner \in [Names -> Addresses \cup {NoCreature}]

(* A call that fails leaves every table as it was, wherever in the function *)
(* lua_error throws.                                                        *)
FailedCallsChangeNothing == reply' = Error => UNCHANGED db

KeepsNames(table, new) ==
  \A n \in Names : ByName(table, n) # Nil => ByName(new, n) = ByName(table, n)

(* A name keeps its meaning: once it resolves to an id, a later definition  *)
(* of the same name does not take it over, so that ids that one script      *)
(* looked up agree with the names another one casts.                        *)
NamesKeepMeaning == KeepsNames(auras, auras') /\ KeepsNames(spells, spells')

(* So a definition stands: no later one takes its name over, and no call    *)
(* that fails leaves a trace of one half made (LuaIntergration.cpp:489).    *)
DefinitionsStand == [][FailedCallsChangeNothing /\ NamesKeepMeaning]_vars

(* A target's name resolves to the creature it was given to and to none     *)
(* once that is destroyed, however targets are created and destroyed.       *)
TargetsResolve == \A n \in Names \ Reserved : FirstCreature(n) = owner[n]

(* A spell applies an aura that is defined.                                 *)
SpellsApplyDefined == \A i \in DOMAIN spells : spells[i].aura # Nil => ByID(auras, spells[i].aura)

(* Names of targets and auras of spells resolve, to what they were given    *)
(* to, whatever is created and destroyed (LuaIntergration.cpp:464, 830).    *)
NamesResolve == TypeOK /\ TargetsResolve /\ SpellsApplyDefined
=============================================================================
