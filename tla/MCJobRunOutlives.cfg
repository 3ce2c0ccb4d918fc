SPECIFICATION SafetySpec
CONSTANTS
  Threads = {t1, t2}
  Overlap = 1
  InitTimeouts = 1
  Warmup = TRUE
  SpuriousWakeups = FALSE
INVARIANT JobOutlivesWorkers
