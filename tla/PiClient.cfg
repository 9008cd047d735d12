CONSTANTS
  Callers = {c1, c2}
  MaxAbandoned = 1
  PipeRoom = 1
  MaxNoise = 1
  NoOne = NoOne
SPECIFICATION FairSpec
INVARIANTS
  CallsAreAccountedFor
PROPERTIES
  LateAnswersAreSilent
  ClosingReleasesEverybody
CHECK_DEADLOCK FALSE
