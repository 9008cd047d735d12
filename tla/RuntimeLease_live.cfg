CONSTANTS
  Connects = {k1}
  Calls = {c1, c2}
  Teardowns = {t1}
  Owners = {o1}
  MaxLeases = 2
  Barrier = TRUE
  Nobody = Nobody
SPECIFICATION FairSpec
PROPERTIES
  StartersAreReleased
  ExitedHelperIsDropped
  StoppingEnds
CHECK_DEADLOCK FALSE
