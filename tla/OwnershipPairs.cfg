SPECIFICATION Spec
CONSTANTS
  Console = Console
  Members = {m1, m2, m3}
  Requests = {r1, r2}
SYMMETRY Symmetric
PROPERTIES
  LastOwnerStays
  RankRespected
  SuspensionStands
CHECK_DEADLOCK FALSE
