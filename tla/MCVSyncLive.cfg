SPECIFICATION FairSpec
CONSTANTS
  c1 = c1
  c2 = c2
  c3 = c3
  p1 = p1
  p2 = p2
  w1 = w1
  NoWindow = NoWindow
  Conn = {c1}
  Pid = {p1}
  Window = {w1}
  PidOf <- SharedPidOf
  WindowOf <- NoWindows
  NamedByPid = {c1}
  PidOfWindow <- OfP1
  VSYNC_CONNECTION_MAX_SIZE = 1
  VSyncModes = {"LTPS", "LTPO"}
  AppRates <- EverySecondOrOff
  Level = {"visible", "animating"}
  LevelRate <- AnimatingRates
  SystemAnimate = {"animating"}
  GeneratorRates = {60, 120}
  ConnRates = {40, 30}
  VSyncCycle = 2
INVARIANTS
  TypeOK
  OneListener
  PulseAligned
PROPERTIES
  ImplementsService
  RequestAnswered
  VSyncTurnsOff
