SPECIFICATION Spec
CONSTANTS
  Pipelines = {p1, p2}
  Graphics <- MCGraphics
  MaxThreads = 2
  Sets = {s1, s2}
  Layouts <- MCLayouts
  None = None
  BoundSets = 2
  TableSize = 4
  MaxWrites = 2
  Images <- MCImages
  Buffers = {100, 4000}
  MaxBound = 2
  Counts = {1, 2}
  Wrap = 5
  Frames = 2
  MaxHeld = 3
  Instances = {i1, i2}
  Watchers = {w1, w2}
INVARIANTS
  ObjectsTypeOK
  WritersAwaited
  WholeOrNone
  TableFaithful
  WritesInBounds
  SubresourcesDisjoint
  
  SeenIsPresented
  VerdictTrue
PROPERTIES
  CreateReturns
