SPECIFICATION MCSpec
CONSTANTS
  p1 = p1
  p2 = p2
  p3 = p3
  i1 = i1
  i2 = i2
  u1 = u1
  u2 = u2
  s1 = s1
  s2 = s2
  k1 = k1
  k2 = k2
  None = None
  Processes = {p1, p2, p3}
  CacheOf <- MCCacheOf
  Values = {0, 1}
  Default = 0
  CACHE_TTL = 2
  Timeout = 1
  MaxTime = 4
  MaxEdits = 2
  Items = {i1, i2}
  Syncs = {p1, p2}
  MaxSyncs = 3
  MaxStaff = 2
  TokenProcesses = {p1, p2}
  Lifetimes = {2, 4}
  Margin = 2
  Floor = 1
  TokenTimeout = 1
  TokenMaxTime = 5
  MaxTokens = 2
  Rules <- MCRules
  Fields = {"source", "country"}
  Events <- MCEvents
  Rates = {1, 3, 6}
  RateScale = 2
  Hundred = 100
  Thousand = 2
  PerPoint = 2
  Campaigns = {i1}
  Visitors = {u1}
  AdRequests = {p1, p2}
  Window <- MCWindow
  max_per_hour = 1
  max_per_day = 1
  min_interval = 1
  Hour = 1
  Day = 2
  AdMaxTime = 3
  MaxShown = 3
  Users = {u1, u2}
  SurveyIds = {s1, s2}
  Completions = {k1, k2}
  Workers = {p1, p2}
  MaxSessions = 2
  MaxReports = 3
  Keys <- MCKeys
  Writers = {p1}
  Runners = {p1, p2}
  MaxDay = 1
  MaxDated = 1
  MaxHeld = 2
  MaxRuns = 2
  ReportKinds = {"users", "games"}
  Built = {"users"}
  Admins = {p1, p2}
  MaxJobs = 2
  MaxExported = 2
INVARIANTS
  SettingsSound
  StatisticsSound
  CatalogSound
  EventsSound
  AdsSound
PROPERTIES
  SurveysPayOnce
CHECK_DEADLOCK FALSE
