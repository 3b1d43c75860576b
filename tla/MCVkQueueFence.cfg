SPECIFICATION Spec
CONSTANTS
  Threads = {s, t}
  Buffers = {a, b}
  Cmds = {c1, c2, c3}
  Fences = {f}
  None = None
  MaxList = 1
INVARIANT FenceTruth
SYMMETRY Symmetry
