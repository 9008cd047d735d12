CONSTANTS
  Threads = {t1}
  Starts = {s1, s2}
  None = None
SPECIFICATION Spec
INVARIANT IdleMeansNoProcess
CHECK_DEADLOCK FALSE
