SPECIFICATION Spec
CONSTANTS
  Threads = {f, g}
  None = None
  Modulus = 254
  SafeZone = 200
  Patience = 54
  MaxJobs = 4
  MaxReopens = 2
  MaxCreates = 0
INVARIANT NeverStale
SYMMETRY Symmetry
