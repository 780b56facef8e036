SPECIFICATION Spec
CONSTANTS
  Null = Null
  Names = {1, 2}
  Damages = {3, 5}
  Entries = 2
  Garbage = {0, 9}
  MaxCalls = 3
  MaxHits = 3
INVARIANT SetsOnce
