SPECIFICATION Spec
CONSTANTS
  Main = main
  Coroutines = {}
  MaxCCalls = 4
  ExtraCCalls = 2
  BasicCI = 2
  MaxCalls = 5
  BaseSlots = 3
  Fuel = 4
INVARIANTS PushesFit
