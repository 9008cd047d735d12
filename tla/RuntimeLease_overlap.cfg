CONSTANTS
  Connects = {k1}
  Calls = {c1}
  Teardowns = {t1, t2}
  Owners = {o1}
  MaxLeases = 2
  Barrier = FALSE
  Nobody = Nobody
SPECIFICATION Spec
INVARIANT ExitEndsLeases
CHECK_DEADLOCK FALSE
