SPECIFICATION Spec
CONSTANTS
  None = None
  Graphics <- MCGraphics
  Compute <- MCCompute
  Passes <- MCPasses
  MaxWork = 2
  MaxFaults = 1
CHECK_DEADLOCK FALSE
INVARIANTS
  TypeOK
  DrawIntact
  DispatchIntact
  FrameFits
  ShaderBosOwned
  ComputeOnly
  
PROPERTIES
  FragmentAfterTiler
