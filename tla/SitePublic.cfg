SPECIFICATION MCSpec
CONSTANTS
  Tiers = {t1, t2, t3}
  Free = t1
  Members = {u1}
  Requests = {r1, r2}
  NoTier = NoTier
  Types = {"page", "event", "lesson"}
  Slugs = {"a", "b", "events"}
  MaxItems = 3
  MaxStamp = 2
  IsPostgres = TRUE
  NoItem = NoItem
  NoSlug = NoSlug
  Groups = {1, 2}
  General = 1
  Threads = {r1, r2}
  NoGroup = NoGroup
  RailSize = 1
  CacheLife = 2
SYMMETRY Symmetric
INVARIANTS ContentOK ListedOpens CachedWasOpen PostsOpen
PROPERTIES ListingAgrees LastTierKept MoveMoves SettingsKept
CHECK_DEADLOCK FALSE
