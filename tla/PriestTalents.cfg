SPECIFICATION PSpec
CONSTANTS
  Null = Null
  self = self
  foe = foe
  bolt = bolt
  flay = flay
  touch = touch
  dot = dot
  mark = mark
  Fresh <- LowestFree
  Player = self
  Creatures = {self, foe, other}
  Addr = {1, 2, 3, 4, 5, 6, 7, 8, 9, 10, 11, 12, 13, 14}
  Spells = {bolt, flay, touch}
  SpellData <- PriestSpells
  Auras = {weave, misery, tap, insightAura, pain}
  AuraData <- PriestAuras
  HastedTimes <- Plain
  GcdTimes = {1}
  TimeLimit = 9
  Budget = 3
  CastScripts = {"idle"}
  StopScripts = {}
  SleepScripts = {}
  AuraScripts = {}
  CastCalls <- CastAny
  SleepTimes = {1}
  ApplyCalls = {}
  Talents = {"ShadowWeaving", "Misery", "ImprovedSpiritTap", "PainAndSuffering", "TwistedFaith", "Glyph"}
  ShadowSpells = {bolt, flay, touch}
  MindBlast = bolt
  MindFlay = flay
  Weave = weave
  Misery = misery
  Tap = tap
  Insight = insightAura
  Pain = pain
  FadeOf <- PriestFades
  MaxWeaves = 2
  Spirit = 10
  TappedSpirit = 11
  other = other
  weave = weave
  misery = misery
  tap = tap
  insightAura = insightAura
  pain = pain
INVARIANTS WeavesBounded StatsComeBack
