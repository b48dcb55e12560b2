SPECIFICATION MCSpec
CONSTANTS
  MaxPosts = 2
  MaxReplies = 3
  Switches = {"hidden"}
  Markable = {"post"}
  Items = {i1}
  NoItem = NoItem
  Requests = {r1, r2}
  IsPostgres = TRUE
SYMMETRY Symmetric
INVARIANTS
  ThreadShape
  OneThread
PROPERTIES
  RecountHeals
  HiddenStays
CHECK_DEADLOCK FALSE
