SPECIFICATION Spec
CONSTANTS
  c1 = c1
  c2 = c2
  c3 = c3
  p1 = p1
  p2 = p2
  w1 = w1
  NoWindow = NoWindow
  Conn = {c1, c2, c3}
  Pid = {p1}
  Window = {w1}
  PidOf <- SharedPidOf
  WindowOf <- MixedWindowOf
  NamedByPid = {c2}
  PidOfWindow <- OfP1
  VSYNC_CONNECTION_MAX_SIZE = 1
  VSyncModes = {"LTPS"}
  AppRates = {}
  Level = {"visible", "semi"}
  LevelRate <- SemiVisibleRates
  SystemAnimate = {}
  GeneratorRates = {}
  ConnRates = {}
  VSyncCycle = 2
INVARIANTS
  RequestKeepsVSyncOn
  DeadNeverArmed
  QosAgrees
  CounterMatchesConnections
PROPERTIES
  ImplementsService
