SPECIFICATION Spec
CONSTANTS
  Nil = Nil
  Addr = {1, 2, 3, 4, 5, 6}
  Main = 1
  Globals = 2
  Slots = 2
  SweepMax = 2
  Modes <- SomeModes
  Programs <- ScriptsOfTheRun
INVARIANTS CollectorIsSound AccessibleLives FinalizedExactlyOnce CycleCollects
