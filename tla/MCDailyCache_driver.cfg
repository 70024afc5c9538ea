SPECIFICATION Spec
CONSTANTS
  r1 = r1
  r2 = r2
  r3 = r3
  d1 = d1
  d2 = d2
  Request <- Requests
  Driver <- Drivers
  NoDriver = NoDriver
  NoData = NoData
  Error = Error
  TTL = 2
  MaxNow = 2
CHECK_DEADLOCK FALSE
INVARIANTS RightDriver
