SPECIFICATION SupervisedSpec
CONSTANTS
  NoWorker = NoWorker
  Nobody = Nobody
  NoDelivery = NoDelivery
  Workers = {w1}
  JobIds = {j1, j2, j3}
  Subs = {s1, s2}
  Deliveries = {d1}
  BatchLimit = 1
  MaxAttempts = 4
  MaxFaults = 1
PROPERTIES
  SendingEnds
CHECK_DEADLOCK FALSE
