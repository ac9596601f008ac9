SPECIFICATION Spec
CONSTANTS
  m1 = m1
  m2 = m2
  Match = {m1, m2}
  Event = {e1}
  Listings <- MCListings
  FirstDate = 2
  LastDate = 3
  Changing <- MCChanging
  Watched <- MCWatched
  MaxChanges = 2
  MaxMishaps = 1
  HourStep = 120
  ClockStart = 0
  ClockEnd = 3600
  Fixture = 2000
  FirstSweep = 120
  MaxTurns = 1
  MaxSlips = 1
  Process = {p1, p2}
  Days = {0, 1, 2, 6, 11}
  DaySeconds = 3
  IntRange = 32
  MaxFaults = 2
  schedule = schedule
  ahead = ahead
  modify = modify
  Caller = {schedule, ahead, modify}
  CallsOf <- MCCallsOf
  Every = 4
  Latency = 1
  MaxRuns = 3
  MaxRestarts = 1
  Horizon = 4
INVARIANTS Announced IndexAsConfigured StandingsInTime WaitBounded RunBounded EscapesRepaired RoundTrip
PROPERTIES CallsSpaced NoEcho EventsKept TimelineHeals StatsHeal StartsUp
