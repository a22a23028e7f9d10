SPECIFICATION Spec
CONSTANTS
  Capacity = 2
  Buffer = {b1, b2}
  None = None
  ReleaseTasks = 2
  MaxOthers = 1
SYMMETRY BufferSymmetry
INVARIANTS
  TypeOK
  NoBufferLost
  CurrentHeldUnlessReused
  ShownHeld
CHECK_DEADLOCK FALSE
