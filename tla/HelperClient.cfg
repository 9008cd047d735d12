CONSTANTS
  Calls = {c1, c2}
  Bashes = {b1}
  Terminals = {t1}
  Bye = Bye
  Mixes <- MCMixes
  Window = 1
  MaxPending = 2
  Chunks = 2
  Reader = Reader
  NoOne = NoOne
SPECIFICATION FairSpec
INVARIANTS
  RequestsEndOnce
PROPERTIES
  DeathReleasesRequests
  ShutdownReturns
CHECK_DEADLOCK FALSE
