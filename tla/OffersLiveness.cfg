SPECIFICATION FairSpec
CONSTANTS
  u1 = u1
  o1 = o1
  e1 = e1
  e2 = e2
  e3 = e3
  w1 = w1
  w2 = w2
  Users = {u1}
  OfferIds = {o1}
  Ext = {e1, e2}
  ByClick = {e1}
  UserOf <- MCUserOf
  OfferOf <- MCOfferOf
  Workers = {w1, w2}
  None = None
  Served <- MCServed
  Multiple = TRUE
  DailyLimit = 2
  LifetimeLimit = 2
  DailyCap <- MCDailyCap
  HourlyCap <- MCHourlyCap
  CountryCap <- MCCountryCap
  HoursPerDay = 1
  MaxHour = 1
  MaxEvents = 1
PROPERTIES
  QuotaPauseEnds
  ReportsAreRecorded
CHECK_DEADLOCK FALSE
