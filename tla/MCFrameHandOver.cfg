SPECIFICATION Spec
CONSTANTS
  TaskNum = 1
  MaxTimeouts = 1
INVARIANTS
  TypeOK
  SyncExclusive
  BackPressure
  SleepersWoken
  OwnTimestampInTurn
PROPERTIES
  ImplementsPipeline
  DirtyFrameDrawn
  FrameEnds
  RenderEnds
