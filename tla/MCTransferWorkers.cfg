SPECIFICATION FairSpec
CONSTANTS
  o1 = o1
  u1 = u1
  nil = nil
  Origins = {o1}
  Uuids = {u1, nil}
  NilUuid = nil
  Rows <- OnePeriodRows
  CoolDown = 3
  StartOffset = 10
  EndOffset = 2
  MaxPeriodsToRequest = 0
  NumberOfRequestWorkers = 1
  Slots = {1}
  LastPeriod = 3
  MaxClock = 3
  MaxInFlight = 1
  VesselMayLose = FALSE
  DatabaseMayFail = TRUE
PROPERTY Transferred
