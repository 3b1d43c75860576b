SPECIFICATION Spec
CONSTANTS
  Threads = {s, t}
  Buffers = {a, b}
  Cmds = {c1, c2, c3}
  Fences = {f}
  None = None
  MaxList = 2
INVARIANTS TypeOK NoUseAfterFree RenderedIsLast
PROPERTIES SubmitFenceTruth
SYMMETRY Symmetry
