SPECIFICATION ForumSpec
CONSTANTS
  Tiers = {t1, t2}
  Free = t1
  Members = {}
  Requests = {r1}
  NoTier = NoTier
  Groups = {1, 2}
  General = 1
  Threads = {p1}
  NoGroup = NoGroup
  RailSize = 1
INVARIANTS AsksFirst
CHECK_DEADLOCK FALSE
