SPECIFICATION TaskServicesSpec
CONSTANTS
  Connects = {k1, k2}
  Calls = {c1, c2}
  Teardowns = {t1}
  Owners = {o1, o2}
  MaxLeases = 2
  Barrier = TRUE
  Launches = {1, 2}
  Stoppers = {a1}
  NoBroker = NoBroker
  Dials = {1, 2}
  MaxHandlers = 1
  Descendants = FALSE
  Nobody = Nobody
  MaxTerminals = 2
  MaxOutput = 3
  MaxLoads = 3
  MaxBindings = 1
  Channel = 1
  Replay = 2
  MaxPrompts = 2
  Deliveries = {d1}
  FromQueue = FromQueue
  MaxGeneration = 2
  MaxSettled = 1
  MaxWire = 1
  MaxTroubles = 2
SYMMETRY Symmetry
INVARIANTS
  OneHelperIsOwned
  LeasesAreAccountedFor
  ExitEndsLeases
  BrokerServesItsPi
  TaskIsWhole
  TerminalsAreTrue
  PromptsAreSafe
PROPERTIES
  TeardownIsFinal
CHECK_DEADLOCK FALSE
