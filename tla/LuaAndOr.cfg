CONSTANTS
  MaxIndexRK = 255
  FieldsPerFlush = 2
  StackSize = 30
  NumeralOf <- MCNumerals
  LiteralOf <- MCLiterals
  Programs <- MCPrograms
  Compile <- MCCompile
  Means <- MCMeans
  Depth = 2
  Chosen = {8}
SPECIFICATION Spec
CHECK_DEADLOCK FALSE
INVARIANT AndOrAgree
