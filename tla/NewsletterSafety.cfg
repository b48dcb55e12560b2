SPECIFICATION Spec
CONSTANTS
  NoWorker = NoWorker
  Nobody = Nobody
  NoDelivery = NoDelivery
  Workers = {w1, w2}
  JobIds = {j1, j2, j3}
  Subs = {s1, s2}
  Deliveries = {d1}
  BatchLimit = 1
  MaxAttempts = 2
  MaxFaults = 1
SYMMETRY Symmetric
INVARIANTS
  DoneOwesNobody
  SentWasMailed
  ExtrasPaidFor
CHECK_DEADLOCK FALSE
