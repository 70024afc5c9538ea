SPECIFICATION MqttFairSpec
CONSTANTS
  t1 = t1
  t2 = t2
  Topic <- Topics
  MaxFails = 2
  MaxDrops = 2
  MaxCalls = 2
CHECK_DEADLOCK FALSE
INVARIANTS NoneFallsBetween
PROPERTIES ErrorIsRepaired
