SPECIFICATION MCSpec
CONSTANTS
  Users = {u1, u2}
  Founder = u1
  Links = {l1, l2}
  Invites = {i1}
  Requests = {r1, r2}
  MaxHash = 3
  Standings = {"none", "member", "manager"}
  Nobody = Nobody
  NoLink = NoLink
  NoInvite = NoInvite
SYMMETRY Symmetric
INVARIANTS
  LinkOnce
  AcceptedJoined
PROPERTIES
  OneOutstanding
  StaleStays
  AdminKept
CHECK_DEADLOCK FALSE
