SPECIFICATION Spec
CONSTANTS
  Linker = {l1, l2}
  ScreenRate = {30, 90, 144}
  Vote = {0, 30, 90, 144}
  Preferred = {0, 90}
  Saturated = 1000000007
  MaxTasks = 2
SYMMETRY LinkerSymmetry
INVARIANTS
  TypeOK
  SettledRates
  RatesWithChange
