SPECIFICATION Spec
CONSTANTS
  Linker = {l1, l2}
  ScreenRate = {30, 60}
  Vote = {30, 60}
  Preferred = {0, 30}
  Saturated = 1000000007
  MaxTasks = 2
SYMMETRY LinkerSymmetry
INVARIANTS
  GeneratorFollows
