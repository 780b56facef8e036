SPECIFICATION HSpec
CONSTANTS
  Null = Null
  self = self
  foe = foe
  bolt = bolt
  flay = flay
  touch = touch
  dot = dot
  mark = mark
  Fresh <- LowestFree
  Player = self
  Creatures = {self, foe}
  Addr = {1, 2, 3, 4, 5, 6, 7, 8}
  Spells = {bolt, flay}
  SpellData <- BoltAndFlay
  Auras = {}
  AuraData <- NoData
  HastedTimes <- Halved
  GcdTimes = {2, 3}
  TimeLimit = 12
  Budget = 5
  CastScripts = {"idle", "PreCastingSpell", "PreSpellChannel", "PostSpellChannel", "PostCastingSpell"}
  StopScripts = {"PreSpellChannel", "PostSpellChannel", "PostCastingSpell"}
  SleepScripts = {"idle", "PostSpellChannel"}
  AuraScripts = {}
  CastCalls <- CastBoltOrFlay
  SleepTimes = {1}
  ApplyCalls = {}
INVARIANTS TypeOK PointersLive
PROPERTIES SpellsAreSpaced
