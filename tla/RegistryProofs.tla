--------------------------- MODULE RegistryProofs ---------------------------
(* Names of the registry keep their meaning, whatever scripts define, create  *)
(* and destroy.                                                               *)
EXTENDS Registry, TLAPS

\* No two creatures share a name (L_TargetCreate asks before it adds one).
OneCreatureEach ==
  \A i, j \in DOMAIN creatures : creatures[i].name = creatures[j].name => i = j

\* The history of owners is what the table says.
OwnersKnown ==
  \A n \in Names :
    IF Creatures(n) = {} THEN owner[n] = NoCreature
    ELSE \A i \in Creatures(n) : creatures[i].at = owner[n]

Inv == TypeOK /\ OneCreatureEach /\ OwnersKnown /\ SpellsApplyDefined

-----------------------------------------------------------------------------
\* The elements of a sequence.
LEMMA Element ==
  ASSUME NEW S, NEW s \in Seq(S), NEW i \in DOMAIN s
  PROVE  s[i] \in S
OBVIOUS

\* The second half of a sequence.
LEMMA SecondHalf ==
  ASSUME NEW S, NEW a \in Seq(S), NEW b \in Seq(S), NEW i \in 1..(Len(a) + Len(b)), ~(i <= Len(a))
  PROVE  (a \o b)[i] = b[i - Len(a)]
OBVIOUS

\* What is left of a sequence when one of its elements is removed.
LEMMA RemoveAtProperties ==
  ASSUME NEW S, NEW s \in Seq(S), NEW k \in DOMAIN s
  PROVE  /\ RemoveAt(s, k) \in Seq(S)
         /\ Len(RemoveAt(s, k)) = Len(s) - 1
         /\ \A i \in 1..(Len(s) - 1) : RemoveAt(s, k)[i] = s[IF i < k THEN i ELSE i + 1]
<1> DEFINE a == SubSeq(s, 1, k - 1)
           b == SubSeq(s, k + 1, Len(s))
<1>1. /\ k \in 1..Len(s) /\ Len(s) \in Nat
      /\ \A i \in 1..Len(s) : s[i] \in S
  OBVIOUS
<1>2. /\ a \in Seq(S) /\ Len(a) = k - 1
      /\ \A i \in 1..(k - 1) : a[i] = s[i]
  BY <1>1
<1>3. /\ b \in Seq(S) /\ Len(b) = Len(s) - k
      /\ \A i \in 1..(Len(s) - k) : b[i] = s[k + i]
  BY <1>1
<1>4. RemoveAt(s, k) = a \o b
  BY DEF RemoveAt
<1> HIDE DEF a, b
<1>5. a \o b \in Seq(S) /\ Len(a \o b) = Len(s) - 1
  BY <1>1, <1>2, <1>3
<1>6. ASSUME NEW i \in 1..(Len(s) - 1)
      PROVE  (a \o b)[i] = s[IF i < k THEN i ELSE i + 1]
  <2>1. CASE i < k
    BY SMTT(40), <1>1, <1>2, <1>3, <2>1
  <2>2. CASE ~(i < k)
    <3>1. i - (k - 1) \in 1..(Len(s) - k) /\ k + (i - (k - 1)) = i + 1
      BY <1>1, <2>2
    <3>2. i \in 1..(Len(a) + Len(b)) /\ ~(i <= Len(a)) /\ i - Len(a) = i - (k - 1)
      BY SMTT(40), <1>1, <1>2, <1>3, <2>2
    <3>3. (a \o b)[i] = b[i - Len(a)]
      BY <1>2, <1>3, <3>2, SecondHalf
    <3> QED
      BY <1>3, <2>2, <3>1, <3>2, <3>3
  <2> QED
    BY <2>1, <2>2
<1> QED
  BY <1>4, <1>5, <1>6

\* The first of the creatures of a name is the only one.
LEMMA FirstIsOwned ==
  ASSUME Inv, NEW n \in Names
  PROVE  /\ FirstCreature(n) = owner[n]
         /\ FirstCreature(n) = NoCreature <=> Creatures(n) = {}
<1>1. CASE Creatures(n) = {}
  BY <1>1 DEF FirstCreature, Inv, OwnersKnown
<1>2. CASE Creatures(n) # {}
  <2>1. PICK i \in Creatures(n) : TRUE
    BY <1>2
  <2>2. \A j \in Creatures(n) : j = i /\ i <= j
    BY <2>1 DEF Inv, OneCreatureEach, Creatures, TypeOK
  <2>3. (CHOOSE c \in Creatures(n) : \A j \in Creatures(n) : c <= j) \in Creatures(n)
    BY <2>1, <2>2
  <2>4. FirstCreature(n) = creatures[i].at
    BY <1>2, <2>2, <2>3 DEF FirstCreature
  <2>5. creatures[i].at \in Addresses
    <3>1. i \in DOMAIN creatures
      BY <2>1 DEF Creatures
    <3>2. creatures[i] \in [name : Names, at : Addresses]
      BY <3>1, Element DEF Inv, TypeOK
    <3> QED
      BY <3>2
  <2>6. creatures[i].at = owner[n]
    BY <1>2, <2>1 DEF Inv, OwnersKnown
  <2> QED
    BY RegistryAssumption, <1>2, <2>4, <2>5, <2>6 DEF NoCreature
<1> QED
  BY <1>1, <1>2

-----------------------------------------------------------------------------
(* One lemma for each kind of call.                                           *)

\* Before any script has run.
LEMMA InitInv ==
  ASSUME Init
  PROVE  Inv
BY DEF Init, Inv, TypeOK, OneCreatureEach, OwnersKnown, SpellsApplyDefined, Creatures, NoCreature

\* A call that leaves the tables alone.
LEMMA SameTables ==
  ASSUME Inv, UNCHANGED db
  PROVE  Inv'
BY DEF db, Inv, TypeOK, OneCreatureEach, OwnersKnown, SpellsApplyDefined, Creatures, ByID

\* A call that leaves all tables but those of definitions alone keeps what is
\* known of the targets.
LEMMA SameTargets ==
  ASSUME Inv, UNCHANGED <<creatures, owner>>
  PROVE  OneCreatureEach' /\ OwnersKnown'
BY DEF Inv, OneCreatureEach, OwnersKnown, Creatures

\* L_AuraAdd.
LEMMA AuraAddInv ==
  ASSUME Inv,
         NEW n \in Names, NEW p \in BOOLEAN, NEW numbers \in BOOLEAN, AuraAdd(n, p, numbers)
  PROVE  Inv'
<1>1. CASE UNCHANGED db
  BY <1>1, SameTables
<1>2. CASE /\ auras' = Append(auras, [name |-> n, set |-> FALSE])
           /\ UNCHANGED <<spells, creatures, queued, owner>>
  <2>1. TypeOK'
    BY <1>2 DEF Inv, TypeOK
  <2>2. SpellsApplyDefined'
    BY <1>2 DEF Inv, TypeOK, SpellsApplyDefined, ByID
  <2> QED
    BY <1>2, <2>1, <2>2, SameTargets DEF Inv
<1> QED
  BY <1>1, <1>2 DEF AuraAdd, Fails

\* AuraEnableCrit and its like.
LEMMA AuraSetInv ==
  ASSUME Inv,
         NEW i \in Numbers, NEW on \in BOOLEAN \cup {Bad}, AuraSet(i, on)
  PROVE  Inv'
<1>1. CASE UNCHANGED db
  BY <1>1, SameTables
<1>2. CASE /\ i \in DOMAIN auras /\ on \in BOOLEAN
           /\ auras' = [auras EXCEPT ![i].set = on]
           /\ UNCHANGED <<spells, creatures, queued, owner>>
  <2>1. auras' \in Seq([name : Names, set : BOOLEAN]) /\ DOMAIN auras' = DOMAIN auras
    <3>1. auras[i] \in [name : Names, set : BOOLEAN]
      BY <1>2, Element DEF Inv, TypeOK
    <3>2. [auras[i] EXCEPT !.set = on] \in [name : Names, set : BOOLEAN]
      BY <1>2, <3>1
    <3>3. auras' = [auras EXCEPT ![i] = [auras[i] EXCEPT !.set = on]]
      BY <1>2
    <3> QED
      BY <1>2, <3>2, <3>3 DEF Inv, TypeOK
  <2>2. TypeOK' /\ SpellsApplyDefined'
    BY <1>2, <2>1 DEF Inv, TypeOK, SpellsApplyDefined, ByID
  <2> QED
    BY <1>2, <2>2, SameTargets DEF Inv
<1> QED
  BY <1>1, <1>2 DEF AuraSet, Fails, ByID

\* L_SpellAdd: the aura has been looked up before the spell is added.
LEMMA SpellAddInv ==
  ASSUME Inv,
         NEW n \in Names, NEW a \in BOOLEAN, NEW i \in Numbers, NEW numbers \in BOOLEAN,
         SpellAdd(n, a, i, numbers)
  PROVE  Inv'
<1> DEFINE new == [name |-> n, aura |-> IF a THEN i ELSE Nil]
<1>1. CASE UNCHANGED db
  BY <1>1, SameTables
<1>2. CASE /\ a => i \in DOMAIN auras
           /\ spells' = Append(spells, new)
           /\ UNCHANGED <<auras, creatures, queued, owner>>
  <2>1. new \in [name : Names, aura : Numbers \cup {Nil}]
    OBVIOUS
  <2>2. TypeOK'
    BY <1>2, <2>1 DEF Inv, TypeOK
  <2>3. SpellsApplyDefined'
    BY <1>2 DEF Inv, TypeOK, SpellsApplyDefined, ByID
  <2> QED
    BY <1>2, <2>2, <2>3, SameTargets DEF Inv
<1> QED
  BY <1>1, <1>2 DEF SpellAdd, Fails, ByID

\* L_TargetCreate: the name has no creature.
LEMMA TargetCreateInv ==
  ASSUME Inv, NEW n \in Names, TargetCreate(n)
  PROVE  Inv'
<1>1. CASE UNCHANGED db
  BY <1>1, SameTables
<1>2. ASSUME NEW at \in Addresses,
             n \notin Reserved, GetCreatureByName(n) = NoCreature,
             creatures' = Append(creatures, [name |-> n, at |-> at]),
             owner' = [owner EXCEPT ![n] = at],
             UNCHANGED <<auras, spells, queued>>
      PROVE  Inv'
  <2>1. Creatures(n) = {}
    BY <1>2, FirstIsOwned DEF GetCreatureByName, Reserved
  <2>2. TypeOK'
    BY <1>2 DEF Inv, TypeOK
  <2>3. /\ DOMAIN creatures' = DOMAIN creatures \cup {Len(creatures) + 1}
        /\ \A i \in DOMAIN creatures : creatures'[i] = creatures[i] /\ i # Len(creatures) + 1
        /\ creatures'[Len(creatures) + 1] = [name |-> n, at |-> at]
    BY <1>2 DEF Inv, TypeOK
  <2>4. OneCreatureEach'
    BY <2>1, <2>3 DEF Inv, OneCreatureEach, Creatures
  <2>5. \A x : x \in Creatures(n)' => creatures'[x].at = owner'[n]
    BY <1>2, <2>1, <2>3 DEF Creatures, Inv, TypeOK
  <2>6. Creatures(n)' # {}
    BY <2>3 DEF Creatures
  <2>7. \A m \in Names \ {n} : Creatures(m)' = Creatures(m) /\ owner'[m] = owner[m]
    BY <1>2, <2>3 DEF Creatures, Inv, TypeOK
  <2>8. \A m \in Names \ {n} : \A x \in Creatures(m) : creatures'[x] = creatures[x]
    BY <2>3 DEF Creatures
  <2>9. OwnersKnown'
    BY <2>5, <2>6, <2>7, <2>8 DEF Inv, OwnersKnown
  <2>10. SpellsApplyDefined'
    BY <1>2 DEF Inv, SpellsApplyDefined, ByID
  <2> QED
    BY <2>2, <2>4, <2>9, <2>10 DEF Inv
<1> QED
  BY <1>1, <1>2 DEF TargetCreate, Fails

\* L_TargetDestory: the name's only creature goes.
LEMMA TargetDestoryInv ==
  ASSUME Inv, NEW n \in Names, TargetDestory(n)
  PROVE  Inv'
<1>1. CASE UNCHANGED db
  BY <1>1, SameTables
<1>2. ASSUME Creatures(n) = {}, creatures' = creatures,
             owner' = [owner EXCEPT ![n] = NoCreature],
             UNCHANGED <<auras, spells, queued>>
      PROVE  Inv'
  <2>1. owner' = owner
    BY <1>2 DEF Inv, TypeOK, OwnersKnown
  <2> QED
    BY <1>2, <2>1, SameTables DEF db
<1>3. ASSUME NEW k \in Creatures(n), creatures' = RemoveAt(creatures, k),
             owner' = [owner EXCEPT ![n] = NoCreature],
             UNCHANGED <<auras, spells, queued>>
      PROVE  Inv'
  <2> DEFINE Old(i) == IF i < k THEN i ELSE i + 1
  <2>1. k \in DOMAIN creatures /\ k \in 1..Len(creatures) /\ Len(creatures) \in Nat
    BY <1>3 DEF Creatures, Inv, TypeOK
  <2>2. /\ creatures' \in Seq([name : Names, at : Addresses])
        /\ DOMAIN creatures' = 1..(Len(creatures) - 1)
        /\ \A i \in DOMAIN creatures' : creatures'[i] = creatures[Old(i)]
    <3> DEFINE S == [name : Names, at : Addresses]
    <3>1. creatures \in Seq(S)
      BY DEF Inv, TypeOK
    <3> HIDE DEF S
    <3>2. /\ RemoveAt(creatures, k) \in Seq(S)
          /\ Len(RemoveAt(creatures, k)) = Len(creatures) - 1
          /\ \A i \in 1..(Len(creatures) - 1) : RemoveAt(creatures, k)[i] = creatures[Old(i)]
      BY <2>1, <3>1, RemoveAtProperties
    <3> QED
      BY SMTT(40), <1>3, <3>2 DEF S
  <2>3. \A i \in DOMAIN creatures' : Old(i) \in DOMAIN creatures /\ Old(i) # k
    BY <2>1, <2>2 DEF Inv, TypeOK
  <2>4. \A i, j \in DOMAIN creatures' : Old(i) = Old(j) => i = j
    BY <2>1, <2>2
  <2>5. \A i \in DOMAIN creatures : i # k => \E j \in DOMAIN creatures' : i = Old(j)
    <3> SUFFICES ASSUME NEW i \in DOMAIN creatures, i # k
                 PROVE  \E j \in DOMAIN creatures' : i = Old(j)
      OBVIOUS
    <3>1. i \in 1..Len(creatures)
      BY DEF Inv, TypeOK
    <3> DEFINE j == IF i < k THEN i ELSE i - 1
    <3>2. j \in DOMAIN creatures' /\ i = Old(j)
      BY <2>1, <2>2, <3>1
    <3> QED
      BY <3>2
  <2> HIDE DEF Old
  <2>6. TypeOK'
    BY <1>3, <2>2 DEF Inv, TypeOK, NoCreature
  <2>7. OneCreatureEach'
    BY <2>2, <2>3, <2>4 DEF Inv, OneCreatureEach
  <2>8. Creatures(n)' = {}
    BY <1>3, <2>1, <2>2, <2>3 DEF Inv, OneCreatureEach, Creatures
  <2>9. owner'[n] = NoCreature /\ \A m \in Names \ {n} : owner'[m] = owner[m]
    BY <1>3 DEF Inv, TypeOK
  <2>10. ASSUME NEW m \in Names \ {n}
         PROVE  IF Creatures(m)' = {} THEN owner'[m] = NoCreature
                ELSE \A i \in Creatures(m)' : creatures'[i].at = owner'[m]
    <3>1. \A i \in Creatures(m)' : Old(i) \in Creatures(m) /\ creatures'[i] = creatures[Old(i)]
      BY <2>2, <2>3 DEF Creatures
    <3>2. k \notin Creatures(m)
      BY <1>3 DEF Creatures
    <3>3. Creatures(m) # {} => Creatures(m)' # {}
      BY <2>2, <2>5, <3>2 DEF Creatures
    <3> QED
      BY <2>9, <3>1, <3>3 DEF Inv, OwnersKnown
  <2>11. OwnersKnown'
    BY <2>8, <2>9, <2>10 DEF OwnersKnown
  <2>12. SpellsApplyDefined'
    BY <1>3 DEF Inv, SpellsApplyDefined, ByID
  <2> QED
    BY <2>6, <2>7, <2>11, <2>12 DEF Inv
<1>4. CASE Creatures(n) # {}
  <2> DEFINE k == CHOOSE i \in Creatures(n) : \A j \in Creatures(n) : i <= j
  <2>1. PICK i \in Creatures(n) : TRUE
    BY <1>4
  <2>2. \A j \in Creatures(n) : i <= j
    BY <2>1 DEF Inv, OneCreatureEach, Creatures, TypeOK
  <2>3. k \in Creatures(n)
    BY <2>1, <2>2
  <2> HIDE DEF k
  <2> QED
    BY <1>1, <1>3, <1>4, <2>3 DEF TargetDestory, Fails, k
<1> QED
  BY <1>1, <1>2, <1>4 DEF TargetDestory, Fails

\* CastSpellByName, UnitApplyAura and the events they queue.
LEMMA QueueInv ==
  ASSUME Inv, NEW n \in Names, NEW known, Queue(known, n)
  PROVE  Inv'
<1>1. CASE UNCHANGED db
  BY <1>1, SameTables
<1>2. GetCreatureByName(n) # NoCreature => GetCreatureByName(n) \in Addresses \cup {-1}
  BY FirstIsOwned DEF GetCreatureByName, Inv, TypeOK
<1>3. CASE /\ queued' = IF known /\ GetCreatureByName(n) # NoCreature
                         THEN queued \cup {GetCreatureByName(n)} ELSE queued
           /\ UNCHANGED <<auras, spells, creatures, owner>>
  <2>1. TypeOK'
    BY <1>2, <1>3 DEF Inv, TypeOK
  <2> QED
    BY <1>3, <2>1, SameTargets DEF Inv, SpellsApplyDefined, ByID
<1> QED
  BY <1>1, <1>3 DEF Queue, Fails

\* The event system runs them.
LEMMA EventRunsInv ==
  ASSUME Inv, NEW at \in queued, EventRuns(at)
  PROVE  Inv'
<1>1. TypeOK'
  BY DEF EventRuns, Inv, TypeOK
<1> QED
  BY <1>1, SameTargets DEF EventRuns, Inv, SpellsApplyDefined, ByID

\* No call disturbs what is known of the names.
LEMMA NextInv ==
  ASSUME Inv, [Next]_vars
  PROVE  Inv'
<1>1. ASSUME NEW n \in Names, NameToID(auras, n) \/ NameToID(spells, n) PROVE Inv'
  BY <1>1, SameTables DEF NameToID
<1>2. ASSUME NEW i \in Numbers, IDToName(auras, i) \/ IDToName(spells, i) PROVE Inv'
  BY <1>2, SameTables DEF IDToName
<1>3. ASSUME NEW s \in Names, NEW n \in Names, CastSpellByName(s, n) PROVE Inv'
  BY <1>3, SameTables, QueueInv DEF CastSpellByName, Fails
<1>4. ASSUME NEW n \in Names, NEW i \in Numbers, UnitApplyAura(n, i) PROVE Inv'
  BY <1>4, SameTables, QueueInv DEF UnitApplyAura, Fails
<1>5. CASE UNCHANGED vars
  BY <1>5, SameTables DEF vars
<1> QED
  BY <1>1, <1>2, <1>3, <1>4, <1>5, AuraAddInv, AuraSetInv, SpellAddInv, TargetCreateInv,
     TargetDestoryInv, EventRunsInv DEF Next

-----------------------------------------------------------------------------
\* A name that is found in a table is found in the same place when the table
\* has grown.
LEMMA GrowingKeepsName ==
  ASSUME NEW S, NEW table \in Seq(S), NEW e \in S, NEW n, ByName(table, n) # Nil
  PROVE  ByName(Append(table, e), n) = ByName(table, n)
<1> DEFINE new == Append(table, e)
           A   == Named(table, n)
           B   == Named(new, n)
<1>1. A # {} /\ ByName(table, n) = CHOOSE i \in A : \A j \in A : i <= j
  BY DEF ByName
<1>2. A \in SUBSET (1..Len(table)) /\ Len(table) \in Nat
  BY DEF Named
<1>3. \A i : i \in A <=> i \in DOMAIN table /\ table[i].name = n
  BY DEF Named
<1>4. \A i : i \in B <=> i \in DOMAIN new /\ new[i].name = n
  BY DEF Named
<1>5. /\ DOMAIN new = 1..(Len(table) + 1) /\ DOMAIN table = 1..Len(table)
      /\ \A i \in DOMAIN table : new[i] = table[i]
  OBVIOUS
<1>6. A \subseteq B /\ \A i \in B : i \in A \/ i = Len(table) + 1
  BY <1>2, <1>3, <1>4, <1>5
<1> HIDE DEF A, B
<1>7. \A i : (i \in A /\ \A j \in A : i <= j) <=> (i \in B /\ \A j \in B : i <= j)
  <2>1. PICK a \in A : TRUE
    BY <1>1
  <2>2. \A i \in A : i \in Nat /\ i < Len(table) + 1
    BY <1>2
  <2>3. ASSUME NEW i, i \in A, \A j \in A : i <= j
        PROVE  i \in B /\ \A j \in B : i <= j
    BY <1>2, <1>6, <2>2, <2>3
  <2>4. ASSUME NEW i, i \in B, \A j \in B : i <= j
        PROVE  i \in A /\ \A j \in A : i <= j
    <3>1. a \in B /\ i <= a
      BY <1>6, <2>1, <2>4
    <3>2. i # Len(table) + 1
      BY <1>2, <2>1, <2>2, <3>1
    <3> QED
      BY <1>6, <2>4, <3>2
  <2> QED
    BY <2>3, <2>4
<1>8. ByName(new, n) = CHOOSE i \in B : \A j \in B : i <= j
  BY <1>1, <1>6 DEF ByName, B
<1>9. (CHOOSE i \in A : \A j \in A : i <= j) = CHOOSE i \in B : \A j \in B : i <= j
  BY <1>7, Zenon
<1> QED
  BY <1>1, <1>8, <1>9

-----------------------------------------------------------------------------
\* The invariant of the registry.
THEOREM Invariance ==
  Spec => []Inv
BY InitInv, NextInv, PTL DEF Spec

\* A name resolves to the creature it was given to, and to none once that is
\* destroyed; a spell's aura is defined (GetCreatureByName, L_SpellAdd).
THEOREM NamesAreResolved ==
  Spec => []NamesResolve
<1>1. Inv => NamesResolve
  BY FirstIsOwned DEF Inv, NamesResolve, TargetsResolve
<1> QED
  BY <1>1, Invariance, PTL

\* So every name does.
LEMMA GrowingKeepsNames ==
  ASSUME NEW S, NEW table \in Seq(S), NEW e \in S
  PROVE  KeepsNames(table, Append(table, e))
BY GrowingKeepsName DEF KeepsNames

\* A call that adds or changes definitions keeps the meaning of the names; all
\* others leave the definitions alone.
LEMMA StepsKeepNames ==
  ASSUME Inv, Next
  PROVE  NamesKeepMeaning
<1>1. KeepsNames(auras, auras) /\ KeepsNames(spells, spells)
  BY DEF KeepsNames
<1>2. ASSUME NEW n \in Names, NEW p \in BOOLEAN, NEW numbers \in BOOLEAN, AuraAdd(n, p, numbers),
             auras' # auras
      PROVE  NamesKeepMeaning
  <2> DEFINE S == [name : Names, set : BOOLEAN]
             new == [name |-> n, set |-> FALSE]
  <2>1. auras' = Append(auras, new) /\ spells' = spells
    BY <1>2 DEF AuraAdd, Fails, db
  <2>2. auras \in Seq(S) /\ new \in S
    BY DEF Inv, TypeOK
  <2> HIDE DEF S, new
  <2>3. KeepsNames(auras, auras')
    BY <2>1, <2>2, GrowingKeepsNames
  <2> QED
    BY <1>1, <2>1, <2>3 DEF NamesKeepMeaning
<1>3. ASSUME NEW n \in Names, NEW a \in BOOLEAN, NEW i \in Numbers, NEW numbers \in BOOLEAN,
             SpellAdd(n, a, i, numbers), spells' # spells
      PROVE  NamesKeepMeaning
  <2> DEFINE S == [name : Names, aura : Numbers \cup {Nil}]
             new == [name |-> n, aura |-> IF a THEN i ELSE Nil]
  <2>1. spells' = Append(spells, new) /\ auras' = auras
    BY <1>3 DEF SpellAdd, Fails, db
  <2>2. spells \in Seq(S) /\ new \in S
    BY DEF Inv, TypeOK
  <2> HIDE DEF S, new
  <2>3. KeepsNames(spells, spells')
    BY <2>1, <2>2, GrowingKeepsNames
  <2> QED
    BY <1>1, <2>1, <2>3 DEF NamesKeepMeaning
<1>4. ASSUME NEW i \in Numbers, NEW on \in BOOLEAN \cup {Bad}, AuraSet(i, on), auras' # auras
      PROVE  NamesKeepMeaning
  <2>1. i \in DOMAIN auras /\ auras' = [auras EXCEPT ![i].set = on] /\ spells' = spells
    BY <1>4 DEF AuraSet, Fails, db, ByID
  <2>2. auras[i] \in [name : Names, set : BOOLEAN]
    BY <2>1, Element DEF Inv, TypeOK
  <2>3. DOMAIN auras' = DOMAIN auras /\ \A j \in DOMAIN auras : auras'[j].name = auras[j].name
    BY <2>1, <2>2 DEF Inv, TypeOK
  <2>4. \A n \in Names : Named(auras', n) = Named(auras, n)
    BY <2>3 DEF Named
  <2>5. KeepsNames(auras, auras')
    <3> SUFFICES ASSUME NEW n \in Names PROVE ByName(auras', n) = ByName(auras, n)
      BY DEF KeepsNames
    <3> DEFINE A == Named(auras, n)
               B == Named(auras', n)
    <3>1. A = B
      BY <2>4
    <3> HIDE DEF A, B
    <3>2. \A x : (x \in A /\ \A j \in A : x <= j) <=> (x \in B /\ \A j \in B : x <= j)
      BY <3>1
    <3>3. (CHOOSE x \in A : \A j \in A : x <= j) = CHOOSE x \in B : \A j \in B : x <= j
      BY <3>2, Zenon
    <3> QED
      BY <3>1, <3>3 DEF ByName, A, B
  <2> QED
    BY <1>1, <2>1, <2>5 DEF NamesKeepMeaning
<1>5. CASE auras' = auras /\ spells' = spells
  BY <1>1, <1>5 DEF NamesKeepMeaning
<1> QED
  BY <1>2, <1>3, <1>4, <1>5 DEF Next, NameToID, IDToName, TargetCreate, TargetDestory,
     CastSpellByName, UnitApplyAura, Queue, EventRuns, AuraAdd, AuraSet, SpellAdd, Fails, db

\* A call that raised an error has done nothing.
LEMMA FailuresAreClean ==
  ASSUME Inv, Next
  PROVE  FailedCallsChangeNothing
<1>1. ASSUME NEW n \in Names, NEW p \in BOOLEAN, NEW numbers \in BOOLEAN, AuraAdd(n, p, numbers)
      PROVE  FailedCallsChangeNothing
  <2>1. Len(auras') # Error \/ UNCHANGED db
    BY RegistryAssumption, <1>1 DEF AuraAdd, Fails, Inv, TypeOK
  <2> QED
    BY <1>1, <2>1 DEF AuraAdd, Fails, Replies, FailedCallsChangeNothing
<1>2. ASSUME NEW n \in Names, NEW a \in BOOLEAN, NEW i \in Numbers, NEW numbers \in BOOLEAN,
             SpellAdd(n, a, i, numbers)
      PROVE  FailedCallsChangeNothing
  <2>1. Len(spells') # Error \/ UNCHANGED db
    <3>1. CASE spells' = Append(spells, [name |-> n, aura |-> IF a THEN i ELSE Nil])
      BY RegistryAssumption, <3>1 DEF Inv, TypeOK
    <3> QED
      BY <1>2, <3>1 DEF SpellAdd, Fails
  <2> QED
    BY <1>2, <2>1 DEF SpellAdd, Fails, Replies, FailedCallsChangeNothing
<1>3. ASSUME NEW i \in Numbers, NEW on \in BOOLEAN \cup {Bad}, AuraSet(i, on)
      PROVE  FailedCallsChangeNothing
  BY RegistryAssumption, <1>3 DEF AuraSet, Fails, Replies, FailedCallsChangeNothing
<1>4. ASSUME NEW n \in Names, TargetCreate(n) \/ TargetDestory(n)
      PROVE  FailedCallsChangeNothing
  BY RegistryAssumption, <1>4 DEF TargetCreate, TargetDestory, Fails, Replies, FailedCallsChangeNothing
<1>5. ASSUME NEW n \in Names, NEW known, Queue(known, n)
      PROVE  FailedCallsChangeNothing
  BY RegistryAssumption, <1>5 DEF Queue, Fails, Replies, FailedCallsChangeNothing
<1>6. CASE UNCHANGED db
  BY <1>6 DEF FailedCallsChangeNothing
<1>7. ASSUME NEW at \in queued, EventRuns(at)
      PROVE  FailedCallsChangeNothing
  BY RegistryAssumption, <1>7 DEF EventRuns, Replies, FailedCallsChangeNothing
<1> QED
  BY <1>1, <1>2, <1>3, <1>4, <1>5, <1>6, <1>7
  DEF Next, NameToID, IDToName, CastSpellByName, UnitApplyAura, Fails

\* Definitions stand: later ones do not take their names, and calls that fail
\* leave no trace, wherever lua_error threw (L_AuraAdd, L_SpellAdd).
THEOREM DefinitionsAreKept ==
  Spec => DefinitionsStand
<1>1. Inv /\ [Next]_vars => [FailedCallsChangeNothing /\ NamesKeepMeaning]_vars
  BY StepsKeepNames, FailuresAreClean
<1> QED
  BY <1>1, Invariance, PTL DEF Spec, DefinitionsStand
=============================================================================
