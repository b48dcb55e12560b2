SPECIFICATION Spec
CONSTANTS
  Console = Console
  Members = {m1, m2}
  Requests = {r1, r2}
INVARIANTS
  OwnerKept
CHECK_DEADLOCK FALSE
