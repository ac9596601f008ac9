SPECIFICATION Spec
CONSTANTS
  Stories <- MCStories
  Latency = 1
  LimiterWait = 1
  ModifyEvery = 28
  ScheduleEvery = 30
  liveStateTTL = 27
  Eventful <- MCEventful
  Length = 78
  MaxTroubles = 1
INVARIANTS GapFree Healed Settled HalfAnnounced
