SPECIFICATION FairCollectSpec
CONSTANTS
  Threads = {t1, t2}
  Jobs <- OneJob
  Ops = {"enable", "disable", "collect"}
  Items = {i1}
  MaxRequests = 3
  MaxFailures = 1
  MaxSales = 1
  MaxKeys = 2
INVARIANTS
  EnabledIsUsable
  DayIsOneReading
PROPERTIES
  JobsFollowStatus
CHECK_DEADLOCK FALSE
