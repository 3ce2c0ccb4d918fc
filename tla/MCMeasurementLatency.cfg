SPECIFICATION SafetySpec
CONSTANTS
  CountMod = 8
  ValueMax = 31
  Threads = {t1}
  NumTargets = 2
  Overlap = 1
  BlockSize = 2
  Throughput = 1
  UsPerMs = 2
  DurationMs = 1
  BucketMs = 1
  TimeMod = 32
  Garbage = {0, 31}
  Measured <- MCMeasured
  MaxBuckets = 8
  MaxTime = 4
  MaxRecords = 2
INVARIANT LatencyIsReal
