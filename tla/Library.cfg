SPECIFICATION LibSpec
CONSTANTS
  Bad = Bad
  Names = {"a", "b", "player", Bad}
  Numbers = {1, 2, Bad}
  Addresses = {1, 2}
  MaxDefs = 3
  Nil = Nil
  Error = Error
  Haste = Haste
  Level = Level
  Null = Null
INVARIANTS NamesResolve StatsComeBack WalkIsComplete TableIsReport
PROPERTIES DefinitionsStand ReportsCountOwn TableIsMap PassIsWhole
