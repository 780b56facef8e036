CONSTANTS
  MaxIndexRK = 1
  FieldsPerFlush = 2
  StackSize = 30
  NumeralOf <- MCNumerals
  LiteralOf <- MCLiterals
  Programs <- MCPrograms
  Compile <- MCCompile
  Means <- MCMeans
  Depth = 2
  Chosen = {1, 2, 3, 4, 5, 6, 7}
SPECIFICATION Spec
CHECK_DEADLOCK FALSE
INVARIANTS  CodeIsSound StackIsSound
PROPERTIES Halts
