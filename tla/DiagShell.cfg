SPECIFICATION ShellSpec
CONSTANT
  MaxChunks = 2
CHECK_DEADLOCK FALSE
PROPERTY TermStops
