SPECIFICATION CatalogSpec
CONSTANTS
  Dirs = {d1}
  Aliases = {a1}
  Roots = {r1}
  Platforms = {x1}
  Bindings = {k1, k2}
  Ids = {i1}
  Threads = {t1}
  SessionPaths = {s1}
  Nothing = Nothing
INVARIANT SavedStateLoads
CHECK_DEADLOCK FALSE
