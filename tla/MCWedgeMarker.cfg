SPECIFICATION Spec
CONSTANTS
  Processes = {p, q}
  Inodes = {i1, i2, i3}
  None = None
  MaxBoots = 3
INVARIANTS TypeOK RefusalsTrue WedgedRefused
