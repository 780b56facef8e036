------------------------------ MODULE MCLibrary ------------------------------
(***************************************************************************)
(* The parts of the library that do not meet in the event loop, each on a  *)
(* small instance: the tables scripts fill, the stats they change, the     *)
(* numbers of an event, the calls of Perform and a Lua table.  A behaviour *)
(* moves one of them.                                                      *)
(***************************************************************************)
EXTENDS Registry, FiniteSets

CONSTANTS Haste, Level, Null

VARIABLES
  part,
  base, additional, multiplier, haste, active, answer,
  alive, percents, amount, calculated, crit, power, auraPower, hook, reported, asked,
  t, content, walk,
  pc, calls, worlds, global, exitable, reporter, table, index, report, readOut

S == INSTANCE PlayerStats WITH
  Ratings <- {"crit", "spirit"}, Word <- 16, Values <- {3, 15},
  Bonuses <- {<<3, 2>>, <<-5, 1>>}, Multipliers <- {<<1, 2>>}, Hastes <- {<<1, 2>>, <<1, 5>>},
  MaxEffects <- 3, reply <- answer

D == INSTANCE Damage WITH
  Slots <- {0, 8, 15}, Percents <- {2}, Amounts <- {3}, Powers <- {0, 5},
  DamageMin <- 4, DamageMax <- 8, Word <- 100000, MaxCalls <- 2,
  pc <- hook, report <- reported, calls <- asked

Hash(k) == k

T == INSTANCE LuaTable WITH
  Numbers <- 1..4, Objects <- {103, 107}, HashOf <- Hash, Sizes <- {0, 3}

P == INSTANCE PerformLifecycle WITH
  Names <- {1, 2}, Damages <- {3, 5}, Entries <- 2, Garbage <- {0, 9}, MaxCalls <- 3, MaxHits <- 3

ASSUME Assumptions ==
  /\ S!StatsAssumption /\ D!DamageAssumption
  /\ T!TableAssumption /\ P!LifecycleAssumption

registry == vars   \* of Registry
stats == <<base, additional, multiplier, haste, active, answer>>
damage == <<alive, percents, amount, calculated, crit, power, auraPower, hook, reported, asked>>
luatable == <<t, content, walk>>
life == <<pc, calls, worlds, global, exitable, reporter, table, index, report, readOut>>
all == <<part, registry, stats, damage, luatable, life>>

(* Every part begins, the one that moves in any of its initial states.      *)
LibInit ==
  /\ part \in {"registry", "stats", "damage", "table", "life"}
  /\ Init /\ S!Init /\ D!Init /\ T!Init /\ P!Init
  /\ part # "damage" => power = 0
  /\ part # "table" => t = T!Table(<<>>, <<>>)

LibNext ==
  /\ UNCHANGED part
  /\ \/ part = "registry" /\ Next /\ UNCHANGED <<stats, damage, luatable, life>>
     \/ part = "stats" /\ S!Next /\ UNCHANGED <<registry, damage, luatable, life>>
     \/ part = "damage" /\ D!Next /\ UNCHANGED <<registry, stats, luatable, life>>
     \/ part = "table" /\ T!Next /\ UNCHANGED <<registry, stats, damage, life>>
     \/ part = "life" /\ P!Next /\ UNCHANGED <<registry, stats, damage, luatable>>

LibSpec == LibInit /\ [][LibNext]_all

-----------------------------------------------------------------------------
(* Stats come back when all effects on them have ended, in whatever order:  *)
(* ratings to what they were set to, haste to that of the rating.           *)
StatsComeBack == S!RatingsComeBack /\ S!HasteComesBack

(* What an event reports counts what its own hooks asked for, in both of    *)
(* them, and nothing that those of another event or tick did.               *)
ReportsCountOwn == D!ReportsCountOwn

(* A Lua table is the map that its assignments describe, its length is a    *)
(* boundary of it, and a rehash makes room for the key to come and no more  *)
(* than twice what the array needs (ltable.c).                              *)
TableIsMap == T!TableIsMap

(* A traversal sees every field that stays, none twice (luaH_next).         *)
WalkIsComplete == T!WalkIsComplete

(* Between two calls of Perform the table of results is the last report,    *)
(* and the globals that scripts are reached through never dangle.           *)
TableIsReport == P!TypeOK /\ P!TableIsReport /\ P!GlobalLives

(* A pass of the caller that nothing interrupts reads the report whole.     *)
PassIsWhole == P!PassIsWhole
=============================================================================
