SPECIFICATION Spec
CONSTANTS
  Threads = {f, g}
  None = None
  Modulus = 5
  SafeZone = 2
  Patience = 3
  MaxJobs = 8
  MaxReopens = 2
  MaxCreates = 1
INVARIANTS TypeOK NoStaleMatch NoLiveCollision DependenciesRight
SYMMETRY Symmetry
VIEW View
