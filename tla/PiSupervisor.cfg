CONSTANTS
  Threads = {t1}
  Starts = {s1, s2}
  None = None
SPECIFICATION FairSpec
INVARIANTS
  ThreadInOnePlace
  OneLaunchPerThread
  GenerationIdentifiesSession
  ExitIsLast
PROPERTIES
  ExitBeforeRestart
  GenerationGrowsPerThread
  ShutdownKillsEverything
  ThreadsAreReleased
CHECK_DEADLOCK FALSE
