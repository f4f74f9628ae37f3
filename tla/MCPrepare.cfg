SPECIFICATION Spec
CONSTANTS
  Convs = {c1, c2, c3}
  c1 = c1
  c2 = c2
  c3 = c3
  MapMax = 2
  EvictTo = 1
  Digests = {d1, d2, d3}
  d1 = d1
  d2 = d2
  d3 = d3
  CacheSize = 2
  CacheTtl = 1
  Tasks = {t1, t2}
  Anthropic = {t2}
  Loads <- MCLoads
  Slots = {1, 2}
  Catalogs <- MCCatalogs
  NoCatalog = NoCatalog
  NoUri = NoUri
  Configs <- MCConfigs
INVARIANT RecentKept
INVARIANT Affinity
INVARIANT ImagesHandled
INVARIANT CacheKeepsRecent
CHECK_DEADLOCK FALSE
