SPECIFICATION SafetySpec
CONSTANTS
  NumThreads = 1
  Overlap = 1
  Configs <- MCLargeTarget
  OffHalf = 32
  UIntMod = 16
  IntHalf = 8
INVARIANT InBounds
