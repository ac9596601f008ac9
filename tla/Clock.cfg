SPECIFICATION Spec
CONSTANTS
  Step = 30
  FirstRun = 30
  Start <- MCStart
  Length = 3300
  Kickoffs <- MCKickoffs
  Offers <- MCOffers
  MaxTroubles = 1
INVARIANTS FixtureFresh HourlyFresh AnalysisInTime
