SPECIFICATION Spec
CONSTANTS
  Process = {p1}
  Barrier = Barrier
  Sizes <- AnySize
  MaxIndex <- Two
  MaxLost <- None
  SKIP_COMMAND_FREQ_LIMIT = 0
  UiDvsyncFlags = {FALSE}
  ParallelFlags = {FALSE}
INVARIANTS
  UnmarshalledHasFrame
