SPECIFICATION LifecycleSpec
CONSTANTS
  Workers = {g1, g2}
  NoWorker = NoWorker
  MaxSessions = 1
  MaxGenerations = 2
  MaxRuntimes = 2
  MaxGranted = 2
  MaxEpoch = 1
  MaxOperations = 4
SYMMETRY WorkerSymmetry
INVARIANT
  ValidatedMutationsPass
CHECK_DEADLOCK FALSE
