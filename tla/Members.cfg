SPECIFICATION MCSpec
CONSTANTS
  u1 = u1
  w1 = w1
  w2 = w2
  a1 = a1
  t1 = t1
  t2 = t2
  v1 = v1
  v2 = v2
  p1 = p1
  p2 = p2
  e1 = e1
  e2 = e2
  c1 = c1
  c2 = c2
  c3 = c3
  r1 = r1
  r2 = r2
  g1 = g1
  g2 = g2
  y1 = y1
  y2 = y2
  None = None
  RiskUsers = {u1}
  Kinds <- MCKinds
  Weight <- MCWeight
  RiskRules <- MCRiskRules
  SweepWorkers = {w1, w2}
  RiskAdmins = {a1}
  MaxRows = 3
  MaxSweeps = 3
  MaxStaff = 2
  MaxAge = 1
  Tabs = {t1, t2}
  Reviewers = {v1, v2}
  MaxSubmissions = 3
  MaxReviews = 3
  AutoRules <- MCAutoRules
  Processes = {p1, p2}
  MaxEmits = 4
  Emails = {e1, e2}
  Codes = {c1, c2, c3}
  Items <- MCItems
  Requests = {r1, r2}
  MaxRequests = 4
  Clients = {g1, g2}
  MaxSessions = 3
  GameWorkers = 2
  Scores = {0, 1}
  GameRules <- MCGameRules
  MinDuration = 1
  MaxDaily = 1
  DayLength = 1
  MonthLength = 4
  GameRounds <- MCGameRounds
  MaxTime = 2
  MaxEvents = 1
  CELLS = 3
  Start <- MCStart
  SnakeSeconds = 2
  MaxScore = 2
  SnakeRounds = 2
  SYMBOLS = {y1, y2}
  PerPair = 10
  PerMove = 4
  MaxMoves = 6
  MemoryRounds = 2
  TapSeconds = 2
  MaxTargets = 5
  TapRounds = 2
INVARIANTS
  RiskSound
  RestrictedWhenHigh
  AutomationSound
  AccountsSound
  SessionsSound
  RewardLimitsKept
PROPERTIES
  VerifiedIsUndoneByReview
  ClosedStaysClosed
CHECK_DEADLOCK FALSE
