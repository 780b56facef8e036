SPECIFICATION ESpec
CONSTANTS
  Null = Null
  self = self
  foe = foe
  bolt = bolt
  flay = flay
  touch = touch
  dot = dot
  mark = mark
  Fresh <- LowestFree
  Player = self
  Creatures = {self, foe}
  Addr = {1, 2, 3, 4, 5, 6, 7, 8, 9, 10, 11, 12}
  Spells = {touch}
  SpellData <- TouchOnly
  Auras = {dot, rune, spyglass, dislodged, power}
  AuraData <- EffectAuras
  HastedTimes <- Plain
  GcdTimes = {1}
  TimeLimit = 9
  Budget = 2
  CastScripts = {"idle"}
  StopScripts = {}
  SleepScripts = {}
  AuraScripts = {}
  CastCalls <- CastTouchOnFoe
  SleepTimes = {1}
  ApplyCalls = {}
  Effects = {rune, spyglass, dislodged, power}
  EffectData <- SomeEffects
  rune = rune
  spyglass = spyglass
  dislodged = dislodged
  power = power
INVARIANTS LedgerBalanced BonusExpires StacksAgree
