SPECIFICATION IOSpec
CONSTANTS
  Threads = {t1, t2}
  Overlap = 2
  InitTimeouts = 1
  Warmup = TRUE
  SpuriousWakeups = TRUE
INVARIANTS
  IOTypeOK
  AllSubmittedBeforeWarmup
  RecordingConfined
  WaitersHaveWork
  ErrorStopsWorkers
  NoJoinOfBlockedWorker
  OnOwnTarget
PROPERTIES
  Termination
  ImplementsContract
