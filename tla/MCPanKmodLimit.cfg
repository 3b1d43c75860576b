SPECIFICATION Spec
CONSTANTS
  Threads = {f, g}
  FragThreads = {f, g}
  Contexts = {c1, c2, c3}
  None = None
  MaxFailures = 3
  MarkerWritable = TRUE
  WedgeWritable = TRUE
PROPERTY LimitIsPermanent
