SPECIFICATION FairSpec
CONSTANTS
  Thread = {t1, t2}
  Callback = {k1, k2}
  Capacity = 2
INVARIANTS
  TypeOK
  NoEmptyDispatch
  FlagMeansComing
PROPERTIES
  WaitersServed
  FrameCallbackCalled
\* Once the receiver is gone nothing moves any more.
CHECK_DEADLOCK FALSE
