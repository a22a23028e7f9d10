SPECIFICATION FairSpec
CONSTANTS
  Process = {p1}
  Barrier = Barrier
  Sizes <- AnySize
  MaxIndex <- Two
  MaxLost <- One
  SKIP_COMMAND_FREQ_LIMIT = 1
  UiDvsyncFlags = {FALSE, TRUE}
  ParallelFlags = {FALSE, TRUE}
INVARIANTS
  TypeOK
  EachInOnePlace
  BarrierMatches
  InOrderUntilSkip
PROPERTIES
  ImplementsService
  FrameEnds
  DeliverableApplied
  GapEnds
