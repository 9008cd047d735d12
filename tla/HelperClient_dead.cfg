CONSTANTS
  Calls = {c1}
  Bashes = {b1}
  Terminals = {t1}
  Bye = Bye
  Mixes <- MCBash
  Window = 1
  MaxPending = 2
  Chunks = 1
  Reader = Reader
  NoOne = NoOne
SPECIFICATION FairSpec
PROPERTY
  DeadHelperEndsRequests
CHECK_DEADLOCK FALSE
