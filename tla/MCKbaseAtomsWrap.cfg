SPECIFICATION Spec
CONSTANTS
  Threads = {f, g}
  None = None
  Modulus = 5
  SafeZone = 2
  Patience = 3
  MaxJobs = 6
  MaxReopens = 1
  MaxCreates = 0
INVARIANT FlushFollows
SYMMETRY Symmetry
