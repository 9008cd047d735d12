SPECIFICATION ServicesSpec
CONSTANTS
  Connects = {c1, c2}
  Operations = {h1, h2}
  Revokes = {r1, r2}
  Waits = {w1}
  Nobody = Nobody
  Dirs = {d1}
  Aliases = {a1}
  Roots = {f1}
  Platforms = {x1}
  Bindings = {k1}
  Ids = {i1, i2}
  Threads = {t1}
  SessionPaths = {j1}
  Nothing = Nothing
  MaxEntries = 5
  Providers = {q1, q2}
  Models = {m1, m2}
  Servers = {v1, v2}
  Packages = {g1, g2}
  Absent = Absent
  MaxForeign = 1
  Names = {n1, n2}
  Texts = {y1, y2}
  Bundled = {b1}
  NoFile = NoFile
  Installs = {1, 2, 3}
  Desktops = {1, 2}
  NoLock = NoLock
INVARIANTS
  RevokesReachEverything
  CatalogIsSound
  TranscriptIsSound
  MutationsKeepBranches
  InstallIsSafe
PROPERTIES
  NeverRevived
  BarrierOpens
  EditsKeepTheRest
  NothingIsLostHalfway
  HelperOnlyImproves
CHECK_DEADLOCK FALSE
