SPECIFICATION RemoteTargetSpec
CONSTANTS
  Workers = {g1, g2}
  NoWorker = NoWorker
  MaxSessions = 1
  MaxGenerations = 2
  MaxRuntimes = 2
  MaxGranted = 2
  MaxEpoch = 1
  MaxOperations = 3
  Requests = {1, 2, 3}
  MaxRequests = 2
  MaxProcesses = 1
  MaxTombstones = 1
  MaxCredit = 1
  MaxControls = 1
  MaxChunks = 1
  MaxInput = 1
  MaxCancels = 1
  Slots = {o1, o2}
  Paths = {p1, p2}
  Missing = Missing
  Left = Left
  MaxBackups = 2
  MaxAppended = 1
  MaxMutations = 2
SYMMETRY Symmetry
INVARIANTS
  RevocationIsFinal
  DisconnectWins
  RequestsAreServed
  HistoryIsSafe
  NoPiServesMaintenance
CHECK_DEADLOCK FALSE
