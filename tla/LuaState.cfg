SPECIFICATION Spec
CONSTANTS
  Main = main
  Coroutines = {c1, c2}
  MaxCCalls = 4
  ExtraCCalls = 2
  BasicCI = 2
  MaxCalls = 5
  BaseSlots = 20
  Fuel = 7
INVARIANTS LevelsAreSound ErrorsAreCaught
PROPERTIES DocallReturns
