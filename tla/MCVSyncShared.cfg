SPECIFICATION Spec
CONSTANTS
  c1 = c1
  c2 = c2
  c3 = c3
  p1 = p1
  p2 = p2
  w1 = w1
  NoWindow = NoWindow
  Conn = {c1, c2}
  Pid = {p1}
  Window = {w1}
  PidOf <- SharedPidOf
  WindowOf <- SharedWindowOf
  NamedByPid = {}
  PidOfWindow <- OfP1
  VSYNC_CONNECTION_MAX_SIZE = 1
  VSyncModes = {"LTPS"}
  AppRates = {}
  Level = {}
  LevelRate <- NoLevels
  SystemAnimate = {}
  GeneratorRates = {}
  ConnRates = {}
  VSyncCycle = 1
INVARIANTS
  WindowReachable
