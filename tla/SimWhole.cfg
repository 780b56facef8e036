SPECIFICATION HFairSpec
CONSTANTS
  Null = Null
  self = self
  foe = foe
  bolt = bolt
  flay = flay
  touch = touch
  dot = dot
  mark = mark
  Fresh <- LowestFree
  Player = self
  Creatures = {self, foe}
  Addr = {1, 2, 3, 4, 5, 6, 7, 8, 9, 10, 11, 12}
  Spells = {touch, flay}
  SpellData <- TouchOrFlay
  Auras = {dot, mark}
  AuraData <- HasteDotAndMark
  HastedTimes <- Halved
  GcdTimes = {2}
  TimeLimit = 13
  Budget = 3
  CastScripts = {"idle"}
  StopScripts = {"PostSpellChannel", "PeriodicEvent"}
  SleepScripts = {"idle"}
  AuraScripts = {"start", "idle", "AuraApplication", "AuraFade", "PeriodicEvent", "PostSpellChannel"}
  CastCalls <- CastTouchFlay
  SleepTimes = {1}
  ApplyCalls <- ApplyDotAndMark
INVARIANTS PointersLive  OneTickChain TicksAreComplete TicksAreSpaced
PROPERTIES InstantEnds EndIsReached
