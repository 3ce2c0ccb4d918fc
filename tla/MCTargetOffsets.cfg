SPECIFICATION Spec
CONSTANTS
  NumThreads = 3
  Overlap = 2
  Configs <- MCConfigs
  OffHalf = 32
  UIntMod = 16
  IntHalf = 16
INVARIANTS
  TypeOK
  InBounds
  SectorAligned
  BuffersApart
PROPERTIES
  WrapsAround
