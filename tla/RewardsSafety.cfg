SPECIFICATION Spec
CONSTANTS
  u1 = u1
  c1 = c1
  c2 = c2
  w1 = w1
  w2 = w2
  p1 = p1
  p2 = p2
  a1 = a1
  Users = {u1}
  Refs = {c1, c2}
  NoRef = NoRef
  Awards <- MCAwards
  MaxRewards = 2
  Workers = {w1, w2}
  Tasks = {p1, p2}
  MaxDeaths = 1
  Admins = {a1}
  NoAdmin = NoAdmin
  None = None
SYMMETRY Symmetry
CHECK_DEADLOCK FALSE
INVARIANTS
  LegsMatchStatus
  BucketsMatchStatus
  OneRewardPerReference
PROPERTIES
  SettledStaysSettled
